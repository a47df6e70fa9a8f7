-------------------------- MODULE BakiLedgerProofs --------------------------
(***************************************************************************)
(* Proofs about BakiLedger for every number of entries, consumers and      *)
(* requests, every amount and every starting score, with any interleaving  *)
(* and a failure possible at every await.                                  *)
(***************************************************************************)
EXTENDS BakiLedger, TLAPS

USE DEF Opened

\* The inductive invariant: the properties proved, and what the copies held
\* by running requests may be.
LedgerInv ==
    /\ TypeOK
    /\ RepaidWithinReceived
    /\ PaidEntryWasScored
    /\ ScoreWithinImpacts
    /\ SnapshotsBounded

-----------------------------------------------------------------------------
(* The constants.                                                          *)

\* Amounts, and the 0 of a request that is not running, are naturals.
LEMMA PaymentsAreNat == \A p \in Amounts \cup {0} : p \in Nat
BY AmountsAssumption

\* Starting scores are integers in range.
LEMMA StartScoresAreInt ==
    \A c \in Consumers : StartScore[c] \in Int /\ StartScore[c] \in 0 .. 1000
BY StartScoreAssumption

-----------------------------------------------------------------------------
(* The operators of the model.                                             *)

\* A repayment on a well-formed entry yields a well-formed entry of the same
\* amount and consumer, repaid by at most the payment more and never beyond
\* its amount; unless it settles the entry, the impact stays what it was.
LEMMA WithRepaymentFacts ==
    ASSUME NEW entry \in LedgerEntry, NEW payment \in Nat, NEW late \in BOOLEAN,
           entry.repaid <= entry.amount
    PROVE  LET new == WithRepayment(entry, payment, late)
           IN  /\ new \in LedgerEntry
               /\ new.amount = entry.amount
               /\ new.consumer = entry.consumer
               /\ new.repaid <= entry.repaid + payment
               /\ new.repaid <= entry.amount
               /\ new.status # "paid" => new.impact = entry.impact
<1> DEFINE repaid == Repaid(entry, payment)
           status == StatusOf(entry.amount, repaid)
           impact == IF status # "paid" THEN entry.impact
                     ELSE IF late THEN -15 ELSE 5
<1>1. /\ entry.amount \in Nat
      /\ entry.repaid \in Nat
      /\ entry.consumer \in Consumers
      /\ entry.status \in Status
      /\ entry.impact \in Impacts
  BY DEF LedgerEntry
<1>2. /\ repaid \in Nat
      /\ repaid <= entry.repaid + payment
      /\ repaid <= entry.amount
  BY <1>1 DEF Repaid
<1>3. status \in Status
  BY DEF StatusOf, Status
<1>4. impact \in Impacts
  BY <1>1 DEF Impacts
<1>5. status # "paid" => impact = entry.impact
  OBVIOUS
<1>6. WithRepayment(entry, payment, late) =
        [entry EXCEPT !.repaid = repaid, !.status = status, !.impact = impact]
  BY DEF WithRepayment
<1>7. WithRepayment(entry, payment, late) =
        [consumer |-> entry.consumer, amount |-> entry.amount,
         repaid |-> repaid, status |-> status, impact |-> impact]
  <2> HIDE DEF repaid, status, impact
  <2> QED BY <1>6 DEF LedgerEntry
<1> HIDE DEF repaid, status, impact
<1> QED BY <1>1, <1>2, <1>3, <1>4, <1>5, <1>7 DEF LedgerEntry

\* What save() leaves in the database: each path is the stored or the edited
\* one, and the amount and the consumer are the stored ones.
LEMMA SavedFacts ==
    ASSUME NEW current \in LedgerEntry, NEW read \in LedgerEntry,
           NEW edited \in LedgerEntry
    PROVE  LET new == Saved(current, read, edited)
           IN  /\ new \in LedgerEntry
               /\ new.amount = current.amount
               /\ new.consumer = current.consumer
               /\ new.repaid \in {current.repaid, edited.repaid}
               /\ new.status \in {current.status, edited.status}
               /\ new.impact \in {current.impact, edited.impact}
BY DEF Saved, Modified, LedgerEntry

\* The clamp keeps a score in range and within the impact of the read score.
LEMMA NewScoreFacts ==
    ASSUME NEW current \in 0 .. 1000, NEW delta \in Impacts
    PROVE  /\ NewScore(current, delta) \in 0 .. 1000
           /\ delta >= 0 => /\ NewScore(current, delta) >= current
                            /\ NewScore(current, delta) <= current + delta
           /\ delta < 0 => /\ NewScore(current, delta) <= current
                           /\ NewScore(current, delta) >= current + delta
BY DEF NewScore, Impacts

-----------------------------------------------------------------------------
LEMMA InitInv == Init => LedgerInv
<1> SUFFICES ASSUME Init PROVE LedgerInv
  OBVIOUS
<1>1. TypeOK
  BY StartScoreAssumption DEF Init, TypeOK, EntryOrNone, PC
<1>2. \A e \in Entries : ledger[e] = NoEntry
  BY DEF Init
<1>3. RepaidWithinReceived /\ PaidEntryWasScored
  BY <1>2 DEF RepaidWithinReceived, PaidEntryWasScored
<1>4. ScoreWithinImpacts
  <2> SUFFICES ASSUME NEW c \in Consumers
               PROVE  /\ score[c] <= StartScore[c] + 5 * credits[c]
                      /\ score[c] >= StartScore[c] - 15 * penalties[c]
    BY <1>1 DEF ScoreWithinImpacts, TypeOK
  <2>1. /\ score[c] = StartScore[c]
        /\ credits[c] = 0
        /\ penalties[c] = 0
        /\ StartScore[c] \in 0 .. 1000
    BY StartScoreAssumption DEF Init
  <2> QED BY <2>1
<1>5. SnapshotsBounded
  BY DEF Init, SnapshotsBounded, Running
<1> QED BY <1>1, <1>3, <1>4, <1>5 DEF LedgerInv

-----------------------------------------------------------------------------
(* Steps.                                                                  *)

\* A request that does not move keeps its bounds while the ledger and the
\* history only grow.
LEMMA SnapshotKept ==
    ASSUME TypeOK, TypeOK', NEW q \in Requests, Snapshot(q),
           pc'[q] = pc[q], target'[q] = target[q], paying'[q] = paying[q],
           doc'[q] = doc[q], edit'[q] = edit[q], scoreRead'[q] = scoreRead[q],
           \A e \in Entries : Opened(e) =>
                /\ Opened(e)'
                /\ ledger'[e].amount = ledger[e].amount
                /\ received'[e] >= received[e],
           scored \subseteq scored',
           \A c \in Consumers : /\ credits'[c] >= credits[c]
                                /\ penalties'[c] >= penalties[c]
    PROVE  Snapshot(q)'
<1> DEFINE e == target[q]
           c == edit[q].consumer
<1>1. /\ e \in Entries
      /\ Opened(e)
      /\ doc[q] \in LedgerEntry
      /\ edit[q] \in LedgerEntry
  BY DEF Snapshot
<1>2. /\ doc[q].repaid \in Nat
      /\ edit[q].repaid \in Nat
      /\ c \in Consumers
  BY <1>1 DEF LedgerEntry
<1>3. /\ received[e] \in Nat
      /\ received'[e] \in Nat
      /\ received'[e] >= received[e]
      /\ paying[q] \in Nat
  <2>1. received \in [Entries -> Nat]
    BY DEF TypeOK
  <2>2. received' \in [Entries -> Nat]
    BY DEF TypeOK
  <2>4. paying[q] \in Nat
    <3>1. paying[q] \in Amounts \cup {0}
      BY DEF TypeOK
    <3> QED BY <3>1, PaymentsAreNat
  <2>3. received'[e] >= received[e]
    BY <1>1
  <2> QED BY <1>1, <2>1, <2>2, <2>3, <2>4
<1>4. /\ credits[c] \in Nat
      /\ credits'[c] \in Nat
      /\ credits'[c] >= credits[c]
      /\ penalties[c] \in Nat
      /\ penalties'[c] \in Nat
      /\ penalties'[c] >= penalties[c]
      /\ StartScore[c] \in Int
      /\ scoreRead[q] \in Int
  <2>1. credits \in [Consumers -> Nat] /\ penalties \in [Consumers -> Nat]
    BY DEF TypeOK
  <2>2. credits' \in [Consumers -> Nat] /\ penalties' \in [Consumers -> Nat]
    BY DEF TypeOK
  <2>3. credits'[c] >= credits[c] /\ penalties'[c] >= penalties[c]
    BY <1>2
  <2>4. StartScore[c] \in Int
    BY <1>2, StartScoresAreInt
  <2>5. scoreRead[q] \in 0 .. 1000
    BY DEF TypeOK
  <2>6. scoreRead[q] \in Int
    BY <2>5
  <2> HIDE DEF c
  <2> QED BY <1>2, <2>1, <2>2, <2>3, <2>4, <2>6
<1>5. /\ doc[q].repaid <= received'[e]
      /\ edit[q].repaid <= received'[e] + paying[q]
  <2>1. /\ doc[q].repaid <= received[e]
        /\ edit[q].repaid <= received[e] + paying[q]
    BY DEF Snapshot
  <2> QED BY <2>1, <1>2, <1>3
<1>6. pc[q] = "saveScore" =>
        /\ scoreRead[q] <= StartScore[c] + 5 * credits'[c]
        /\ scoreRead[q] >= StartScore[c] - 15 * penalties'[c]
  <2> SUFFICES ASSUME pc[q] = "saveScore"
               PROVE  /\ scoreRead[q] <= StartScore[c] + 5 * credits'[c]
                      /\ scoreRead[q] >= StartScore[c] - 15 * penalties'[c]
    OBVIOUS
  <2>1. /\ scoreRead[q] <= StartScore[c] + 5 * credits[c]
        /\ scoreRead[q] >= StartScore[c] - 15 * penalties[c]
    BY DEF Snapshot
  <2> QED BY <2>1, <1>4
<1> QED BY <1>1, <1>5, <1>6 DEF Snapshot

\* Only a new entry changes the collection without touching an old entry.
LEMMA CreateDueInv ==
    ASSUME LedgerInv, NEW e \in Entries, NEW c \in Consumers, NEW a \in Amounts,
           CreateDue(e, c, a)
    PROVE  LedgerInv'
<1> DEFINE new == [consumer |-> c, amount |-> a, repaid |-> 0,
                   status |-> "due", impact |-> 0]
<1>1. new \in LedgerEntry /\ new # NoEntry
  BY AmountsAssumption, NoEntryAssumption DEF LedgerEntry, Status, Impacts
<1>2. /\ ledger' = [ledger EXCEPT ![e] = new]
      /\ ledger[e] = NoEntry
      /\ UNCHANGED <<score, pc, overdue, target, paying, doc, edit, scoreRead,
                     received, scored, credits, penalties, contended,
                     contested>>
  BY DEF CreateDue, locals, history
<1>3. TypeOK'
  BY <1>1, <1>2 DEF LedgerInv, TypeOK, EntryOrNone
<1>4. \A f \in Entries : ledger'[f] = IF f = e THEN new ELSE ledger[f]
  BY <1>2 DEF LedgerInv, TypeOK
<1>5. RepaidWithinReceived'
  <2>1. 0 <= received[e] /\ 0 <= a
    BY AmountsAssumption DEF LedgerInv, TypeOK
  <2> QED BY <1>2, <1>4, <2>1 DEF LedgerInv, RepaidWithinReceived
<1>6. PaidEntryWasScored'
  BY <1>2, <1>4 DEF LedgerInv, PaidEntryWasScored
<1>7. ScoreWithinImpacts'
  BY <1>2 DEF LedgerInv, ScoreWithinImpacts
<1>8. SnapshotsBounded'
  <2> SUFFICES ASSUME NEW q \in Requests, pc[q] \in Running PROVE Snapshot(q)'
    BY <1>2 DEF SnapshotsBounded
  <2>1. TypeOK /\ Snapshot(q)
    BY DEF LedgerInv, SnapshotsBounded
  <2>2. \A f \in Entries : Opened(f) =>
            Opened(f)' /\ ledger'[f].amount = ledger[f].amount
    BY <1>2, <1>4
  <2>3. /\ \A f \in Entries : received'[f] >= received[f]
        /\ \A d \in Consumers : credits'[d] >= credits[d]
                                /\ penalties'[d] >= penalties[d]
    BY <1>2 DEF LedgerInv, TypeOK
  <2> QED BY <1>2, <1>3, <2>1, <2>2, <2>3, SnapshotKept
<1> QED BY <1>3, <1>5, <1>6, <1>7, <1>8 DEF LedgerInv

\* A step that leaves the ledger, the scores and the history alone, and moves
\* the locals of one request at most, has to re-establish only the types and
\* the bounds of that request.
LEMMA LocalStep ==
    ASSUME LedgerInv, NEW r \in Requests,
           UNCHANGED <<ledger, score, received, scored, credits, penalties>>,
           TypeOK',
           \A q \in Requests \ {r} :
                /\ pc'[q] = pc[q]
                /\ target'[q] = target[q]
                /\ paying'[q] = paying[q]
                /\ doc'[q] = doc[q]
                /\ edit'[q] = edit[q]
                /\ scoreRead'[q] = scoreRead[q],
           pc'[r] \in Running => Snapshot(r)'
    PROVE  LedgerInv'
<1>1. RepaidWithinReceived' /\ PaidEntryWasScored' /\ ScoreWithinImpacts'
  BY DEF LedgerInv, RepaidWithinReceived, PaidEntryWasScored,
         ScoreWithinImpacts
<1>2. SnapshotsBounded'
  <2> SUFFICES ASSUME NEW q \in Requests, pc'[q] \in Running
               PROVE  Snapshot(q)'
    BY DEF SnapshotsBounded
  <2>1. CASE q = r
    BY <2>1
  <2>2. CASE q # r
    <3>1. TypeOK /\ Snapshot(q)
      BY <2>2 DEF LedgerInv, SnapshotsBounded
    <3>2. /\ \A f \in Entries : received'[f] >= received[f]
          /\ \A d \in Consumers : credits'[d] >= credits[d]
                                  /\ penalties'[d] >= penalties[d]
      BY DEF LedgerInv, TypeOK
    <3> QED BY <2>2, <3>1, <3>2, SnapshotKept
  <2> QED BY <2>1, <2>2
<1> QED BY <1>1, <1>2 DEF LedgerInv

\* The clock touches nothing the invariant is about.
LEMMA DueDatePassesInv ==
    ASSUME LedgerInv, NEW e \in Entries, DueDatePasses(e)
    PROVE  LedgerInv'
<1>1. TypeOK'
  BY DEF LedgerInv, TypeOK, DueDatePasses, stored, locals, history
<1>2. CASE Requests = {}
  BY <1>1, <1>2 DEF LedgerInv, DueDatePasses, stored, locals, history,
     RepaidWithinReceived, PaidEntryWasScored, ScoreWithinImpacts,
     SnapshotsBounded
<1>3. CASE Requests # {}
  <2>1. PICK r \in Requests : TRUE
    BY <1>3
  <2>2. /\ UNCHANGED <<pc, target, paying, doc, edit, scoreRead>>
        /\ UNCHANGED <<ledger, score, received, scored, credits, penalties>>
    BY DEF DueDatePasses, stored, locals, history
  <2>3. pc[r] \in Running => Snapshot(r)
    BY DEF LedgerInv, SnapshotsBounded
  <2>4. Snapshot(r) => Snapshot(r)'
    BY <2>2 DEF Snapshot
  <2> QED BY <1>1, <2>2, <2>3, <2>4, LocalStep
<1> QED BY <1>2, <1>3

\* A request that ends without writing leaves no local behind.
LEMMA ReturnInv ==
    ASSUME LedgerInv, NEW r \in Requests, NEW outcome \in {"done", "failed"},
           Return(r, outcome),
           UNCHANGED <<stored, overdue, history>>
    PROVE  LedgerInv'
<1>1. TypeOK'
  BY DEF LedgerInv, TypeOK, Return, stored, history, PC, EntryOrNone
<1>2. pc'[r] \notin Running
  BY DEF LedgerInv, TypeOK, Return, Running
<1>3. \A q \in Requests \ {r} :
            /\ pc'[q] = pc[q]
            /\ target'[q] = target[q]
            /\ paying'[q] = paying[q]
            /\ doc'[q] = doc[q]
            /\ edit'[q] = edit[q]
            /\ scoreRead'[q] = scoreRead[q]
  BY DEF LedgerInv, TypeOK, Return
<1>4. UNCHANGED <<ledger, score, received, scored, credits, penalties>>
  BY DEF stored, history
<1> QED BY <1>1, <1>2, <1>3, <1>4, LocalStep

\* The entry a request reads satisfies the invariant on the ledger.
LEMMA FindEntryInv ==
    ASSUME LedgerInv, NEW r \in Requests, NEW e \in Entries,
           NEW p \in Amounts, FindEntry(r, e, p)
    PROVE  LedgerInv'
<1>1. /\ ledger[e] \in LedgerEntry
      /\ ledger[e] # NoEntry
  BY DEF FindEntry, LedgerInv, TypeOK, EntryOrNone
<1>2. TypeOK'
  BY <1>1 DEF LedgerInv, TypeOK, FindEntry, stored, history, PC, Running,
              EntryOrNone
<1>3. /\ pc'[r] = "compute"
      /\ target'[r] = e
      /\ paying'[r] = p
      /\ doc'[r] = ledger[e]
      /\ edit'[r] = ledger[e]
      /\ UNCHANGED <<ledger, score, received, scored, credits, penalties>>
  BY DEF FindEntry, LedgerInv, TypeOK, stored, history
<1>4. /\ ledger[e].repaid <= received[e]
      /\ ledger[e].repaid <= ledger[e].amount
      /\ (ledger[e].status = "paid" \/ ledger[e].impact # 0) => e \in scored
  BY <1>1 DEF LedgerInv, RepaidWithinReceived, PaidEntryWasScored
<1>5. /\ ledger[e].repaid \in Nat
      /\ received[e] \in Nat
      /\ p \in Nat
  BY <1>1, PaymentsAreNat DEF LedgerInv, TypeOK, LedgerEntry
<1>6. ledger[e].repaid <= received[e] + p
  BY <1>4, <1>5
<1>7. Snapshot(r)'
  BY <1>1, <1>3, <1>4, <1>6 DEF Snapshot
<1>8. \A q \in Requests \ {r} :
            /\ pc'[q] = pc[q]
            /\ target'[q] = target[q]
            /\ paying'[q] = paying[q]
            /\ doc'[q] = doc[q]
            /\ edit'[q] = edit[q]
            /\ scoreRead'[q] = scoreRead[q]
  BY DEF LedgerInv, TypeOK, FindEntry
<1> QED BY <1>2, <1>3, <1>7, <1>8, LocalStep

\* The edited document is repaid by the payment at most, and is saved next
\* only when it is unpaid and shows the impact that was read.
LEMMA ComputeRepaymentInv ==
    ASSUME LedgerInv, NEW r \in Requests, ComputeRepayment(r)
    PROVE  LedgerInv'
<1> DEFINE e == target[r]
           late == e \in overdue
           new == WithRepayment(edit[r], paying[r], late)
<1>1. /\ Snapshot(r)
      /\ pc[r] = "compute"
  BY DEF ComputeRepayment, LedgerInv, SnapshotsBounded, Running
<1>2. /\ e \in Entries
      /\ Opened(e)
      /\ edit[r] = doc[r]
      /\ doc[r] \in LedgerEntry
      /\ doc[r].amount = ledger[e].amount
      /\ doc[r].repaid <= received[e]
      /\ doc[r].repaid <= doc[r].amount
      /\ (doc[r].status = "paid" \/ doc[r].impact # 0) => e \in scored
  BY <1>1 DEF Snapshot
<1>3. paying[r] \in Nat
  <2>1. paying[r] \in Amounts \cup {0}
    BY DEF LedgerInv, TypeOK
  <2> QED BY <2>1, PaymentsAreNat
<1>4. late \in BOOLEAN
  OBVIOUS
<1>5. /\ new \in LedgerEntry
      /\ new.amount = doc[r].amount
      /\ new.repaid <= doc[r].repaid + paying[r]
      /\ new.repaid <= doc[r].amount
      /\ new.status # "paid" => new.impact = doc[r].impact
  <2> HIDE DEF late
  <2> QED BY <1>2, <1>3, <1>4, WithRepaymentFacts
<1>6. /\ edit' = [edit EXCEPT ![r] = new]
      /\ edit'[r] = new
      /\ pc' = [pc EXCEPT ![r] = IF new.status = "paid"
                                 THEN "findConsumer" ELSE "saveEntry"]
      /\ UNCHANGED <<overdue, target, paying, doc, scoreRead, contended,
                     contested>>
      /\ UNCHANGED <<ledger, score, received, scored, credits, penalties>>
  <2>1. edit' = [edit EXCEPT ![r] = new]
    BY DEF ComputeRepayment
  <2>2. edit'[r] = new
    BY <2>1 DEF LedgerInv, TypeOK
  <2> HIDE DEF new
  <2> QED BY <2>1, <2>2 DEF ComputeRepayment, stored, history
<1> HIDE DEF new, late
<1>7. TypeOK'
  BY <1>5, <1>6 DEF LedgerInv, TypeOK, PC, Running, EntryOrNone
<1>8. new.repaid <= received[e] + paying[r]
  <2>1. /\ new.repaid \in Nat
        /\ doc[r].repaid \in Nat
        /\ received[e] \in Nat
    BY <1>2, <1>5 DEF LedgerInv, TypeOK, LedgerEntry
  <2> QED BY <2>1, <1>2, <1>3, <1>5
<1>9. /\ pc'[r] \in {"findConsumer", "saveEntry"}
      /\ pc'[r] = "saveEntry" => new.status # "paid"
  BY <1>6 DEF LedgerInv, TypeOK
<1>10. Snapshot(r)'
  BY <1>2, <1>5, <1>6, <1>8, <1>9 DEF Snapshot
<1>11. \A q \in Requests \ {r} : pc'[q] = pc[q] /\ edit'[q] = edit[q]
  BY <1>6 DEF LedgerInv, TypeOK
<1> QED BY <1>6, <1>7, <1>10, <1>11, LocalStep

\* The score a request reads is within the impacts counted so far.
LEMMA FindConsumerInv ==
    ASSUME LedgerInv, NEW r \in Requests, FindConsumer(r)
    PROVE  LedgerInv'
<1> DEFINE c == edit[r].consumer
<1>1. /\ Snapshot(r)
      /\ pc[r] = "findConsumer"
  BY DEF FindConsumer, LedgerInv, SnapshotsBounded, Running
<1>2. c \in Consumers
  BY <1>1 DEF Snapshot, LedgerEntry
<1>3. /\ scoreRead' = [scoreRead EXCEPT ![r] = score[c]]
      /\ pc' = [pc EXCEPT ![r] = "saveScore"]
      /\ UNCHANGED <<overdue, target, paying, doc, edit, contended>>
      /\ UNCHANGED <<ledger, score, received, scored, credits, penalties>>
      /\ contested' \in {contested, contested \cup {c}}
  BY DEF FindConsumer, stored
<1>4. pc'[r] = "saveScore" /\ scoreRead'[r] = score[c]
  BY <1>3 DEF LedgerInv, TypeOK
<1>5. score[c] \in 0 .. 1000
  BY <1>2 DEF LedgerInv, TypeOK
<1>6. TypeOK'
  <2>1. contested' \subseteq Consumers
    BY <1>2, <1>3 DEF LedgerInv, TypeOK
  <2> QED BY <1>3, <1>5, <2>1 DEF LedgerInv, TypeOK, PC, Running
<1>7. /\ score[c] <= StartScore[c] + 5 * credits[c]
      /\ score[c] >= StartScore[c] - 15 * penalties[c]
  BY <1>2 DEF LedgerInv, ScoreWithinImpacts
<1>8. Snapshot(r)'
  BY <1>1, <1>3, <1>4, <1>7 DEF Snapshot
<1>9. \A q \in Requests \ {r} : pc'[q] = pc[q] /\ scoreRead'[q] = scoreRead[q]
  BY <1>3 DEF LedgerInv, TypeOK
<1> QED BY <1>3, <1>6, <1>8, <1>9, LocalStep

\* The score written is within the impacts counted with this one: it comes
\* from a score within those counted before, moved by this impact or less.
LEMMA SaveScoreInv ==
    ASSUME LedgerInv, NEW r \in Requests, SaveScore(r)
    PROVE  LedgerInv'
<1> DEFINE c == edit[r].consumer
           impact == edit[r].impact
           e == target[r]
           new == NewScore(scoreRead[r], impact)
<1>1. /\ Snapshot(r)
      /\ pc[r] = "saveScore"
  BY DEF SaveScore, LedgerInv, SnapshotsBounded, Running
<1>2. /\ c \in Consumers
      /\ impact \in Impacts
      /\ e \in Entries
  BY <1>1 DEF Snapshot, LedgerEntry
<1>3. /\ scoreRead[r] \in 0 .. 1000
      /\ scoreRead[r] \in Int
      /\ score[c] \in 0 .. 1000
  <2>1. scoreRead[r] \in 0 .. 1000
    BY DEF LedgerInv, TypeOK
  <2>2. score[c] \in 0 .. 1000
    BY <1>2 DEF LedgerInv, TypeOK
  <2> QED BY <2>1, <2>2
<1>4. /\ new \in 0 .. 1000
      /\ impact >= 0 => new >= scoreRead[r] /\ new <= scoreRead[r] + impact
      /\ impact < 0 => new <= scoreRead[r] /\ new >= scoreRead[r] + impact
  BY <1>2, <1>3, NewScoreFacts
<1> HIDE DEF new
<1>5. /\ score' = [score EXCEPT ![c] = Modified(score[c], scoreRead[r], new)]
      /\ pc' = [pc EXCEPT ![r] = "saveEntry"]
      /\ scored' = scored \cup {e}
      /\ credits' = [credits EXCEPT ![c] =
                        IF impact = 5 THEN credits[c] + 1 ELSE credits[c]]
      /\ penalties' = [penalties EXCEPT ![c] =
                        IF impact = -15 THEN penalties[c] + 1
                        ELSE penalties[c]]
      /\ UNCHANGED <<ledger, received, overdue, target, paying, doc, edit,
                     scoreRead, contended, contested>>
  BY DEF SaveScore, locals, new
<1> HIDE DEF c, impact, e
<1>6. /\ credits \in [Consumers -> Nat]
      /\ penalties \in [Consumers -> Nat]
      /\ StartScore[c] \in Int
  BY <1>2, StartScoresAreInt DEF LedgerInv, TypeOK
<1>7. score'[c] \in {score[c], new}
  BY <1>2, <1>5 DEF LedgerInv, TypeOK, Modified
<1>8. /\ \A d \in Consumers : d # c => /\ score'[d] = score[d]
                                       /\ credits'[d] = credits[d]
                                       /\ penalties'[d] = penalties[d]
      /\ credits'[c] = IF impact = 5 THEN credits[c] + 1 ELSE credits[c]
      /\ penalties'[c] = IF impact = -15 THEN penalties[c] + 1
                         ELSE penalties[c]
  BY <1>2, <1>5, <1>6 DEF LedgerInv, TypeOK
<1>9. \A d \in Consumers : /\ credits'[d] >= credits[d]
                           /\ penalties'[d] >= penalties[d]
  BY <1>2, <1>6, <1>8
<1>10. TypeOK'
  <2>1. score' \in [Consumers -> 0 .. 1000]
    BY <1>2, <1>3, <1>4, <1>5 DEF LedgerInv, TypeOK, Modified
  <2>2. credits' \in [Consumers -> Nat] /\ penalties' \in [Consumers -> Nat]
    BY <1>2, <1>5, <1>6
  <2>3. scored' \subseteq Entries /\ pc' \in [Requests -> PC]
    BY <1>2, <1>5 DEF LedgerInv, TypeOK, PC, Running
  <2> QED BY <1>5, <2>1, <2>2, <2>3 DEF LedgerInv, TypeOK
<1>11. ScoreWithinImpacts'
  <2> SUFFICES ASSUME NEW d \in Consumers
               PROVE  /\ score'[d] <= StartScore[d] + 5 * credits'[d]
                      /\ score'[d] >= StartScore[d] - 15 * penalties'[d]
    BY <1>10 DEF ScoreWithinImpacts, TypeOK
  <2>1. CASE d # c
    BY <2>1, <1>8 DEF LedgerInv, ScoreWithinImpacts
  <2>2. CASE d = c
    <3>1. /\ scoreRead[r] <= StartScore[c] + 5 * credits[c]
          /\ scoreRead[r] >= StartScore[c] - 15 * penalties[c]
      BY <1>1 DEF Snapshot, c
    <3>2. /\ score[c] <= StartScore[c] + 5 * credits[c]
          /\ score[c] >= StartScore[c] - 15 * penalties[c]
      BY <1>2 DEF LedgerInv, ScoreWithinImpacts
    <3>3. /\ credits[c] \in Nat
          /\ penalties[c] \in Nat
          /\ credits'[c] \in Nat
          /\ penalties'[c] \in Nat
          /\ score[c] \in Int
          /\ new \in Int
      <4>1. credits[c] \in Nat /\ penalties[c] \in Nat
        BY <1>2, <1>6
      <4>2. credits'[c] \in Nat /\ penalties'[c] \in Nat
        BY <1>8, <4>1
      <4>3. score[c] \in Int /\ new \in Int
        BY <1>3, <1>4
      <4> QED BY <4>1, <4>2, <4>3
    <3>4. impact = -15 \/ impact = 0 \/ impact = 5
      BY <1>2 DEF Impacts
    <3>5. /\ new <= StartScore[c] + 5 * credits'[c]
          /\ new >= StartScore[c] - 15 * penalties'[c]
      BY <1>3, <1>4, <1>6, <1>8, <3>1, <3>3, <3>4
    <3>6. /\ score[c] <= StartScore[c] + 5 * credits'[c]
          /\ score[c] >= StartScore[c] - 15 * penalties'[c]
      BY <1>2, <1>6, <1>9, <3>2, <3>3
    <3> QED BY <2>2, <1>7, <3>5, <3>6
  <2> QED BY <2>1, <2>2
<1>12. RepaidWithinReceived' /\ PaidEntryWasScored'
  BY <1>5 DEF LedgerInv, RepaidWithinReceived, PaidEntryWasScored
<1>13. SnapshotsBounded'
  <2> SUFFICES ASSUME NEW q \in Requests, pc'[q] \in Running
               PROVE  Snapshot(q)'
    BY DEF SnapshotsBounded
  <2>1. CASE q = r
    <3>1. pc'[r] = "saveEntry" /\ e \in scored'
      BY <1>5 DEF LedgerInv, TypeOK
    <3> QED BY <2>1, <3>1, <1>1, <1>5 DEF Snapshot, e
  <2>2. CASE q # r
    <3>1. TypeOK /\ pc'[q] = pc[q]
      BY <2>2, <1>5 DEF LedgerInv, TypeOK
    <3>2. Snapshot(q)
      BY <3>1 DEF LedgerInv, SnapshotsBounded
    <3>3. \A f \in Entries : received'[f] >= received[f]
      BY <1>5 DEF LedgerInv, TypeOK
    <3>4. scored \subseteq scored'
      BY <1>5
    <3> QED BY <1>5, <1>9, <1>10, <3>1, <3>2, <3>3, <3>4, SnapshotKept
  <2> QED BY <2>1, <2>2
<1> QED BY <1>10, <1>11, <1>12, <1>13 DEF LedgerInv

\* The saved entry is repaid by what was stored or by the edited copy, each
\* within what has been received; and either shows an impact only if scored.
LEMMA SaveEntryInv ==
    ASSUME LedgerInv, NEW r \in Requests, SaveEntry(r)
    PROVE  LedgerInv'
<1> DEFINE e == target[r]
           new == Saved(ledger[e], doc[r], edit[r])
<1>1. /\ Snapshot(r)
      /\ pc[r] = "saveEntry"
  BY DEF SaveEntry, LedgerInv, SnapshotsBounded, Running
<1>2. /\ e \in Entries
      /\ ledger[e] # NoEntry
      /\ doc[r] \in LedgerEntry
      /\ edit[r] \in LedgerEntry
      /\ edit[r].amount = ledger[e].amount
      /\ edit[r].repaid <= received[e] + paying[r]
      /\ edit[r].repaid <= edit[r].amount
      /\ (edit[r].status = "paid" \/ edit[r].impact # 0) => e \in scored
  BY <1>1 DEF Snapshot
<1>3. ledger[e] \in LedgerEntry
  BY <1>2 DEF LedgerInv, TypeOK, EntryOrNone
<1>4. /\ new \in LedgerEntry
      /\ new.amount = ledger[e].amount
      /\ new.repaid \in {ledger[e].repaid, edit[r].repaid}
      /\ new.status \in {ledger[e].status, edit[r].status}
      /\ new.impact \in {ledger[e].impact, edit[r].impact}
  BY <1>2, <1>3, SavedFacts
<1>5. /\ ledger' = [ledger EXCEPT ![e] = new]
      /\ received' = [received EXCEPT ![e] = received[e] + paying[r]]
      /\ UNCHANGED <<score, overdue, scored, credits, penalties, contended,
                     contested>>
      /\ Return(r, "done")
  BY DEF SaveEntry
<1> HIDE DEF new
<1>6. paying[r] \in Nat
  <2>1. paying[r] \in Amounts \cup {0}
    BY DEF LedgerInv, TypeOK
  <2> QED BY <2>1, PaymentsAreNat
<1>7. /\ received[e] \in Nat
      /\ received'[e] = received[e] + paying[r]
      /\ \A f \in Entries \ {e} : received'[f] = received[f]
      /\ \A f \in Entries : received[f] \in Nat
  BY <1>2, <1>5 DEF LedgerInv, TypeOK
<1>8. /\ ledger'[e] = new
      /\ \A f \in Entries \ {e} : ledger'[f] = ledger[f]
  BY <1>2, <1>5 DEF LedgerInv, TypeOK
<1>9. TypeOK'
  <2>1. ledger' \in [Entries -> EntryOrNone]
    BY <1>2, <1>4, <1>5 DEF LedgerInv, TypeOK, EntryOrNone
  <2>2. received' \in [Entries -> Nat]
    BY <1>2, <1>5, <1>6, <1>7 DEF LedgerInv, TypeOK
  <2>3. /\ pc' \in [Requests -> PC]
        /\ target' \in [Requests -> Entries \cup {NoEntry}]
        /\ paying' \in [Requests -> Amounts \cup {0}]
        /\ doc' \in [Requests -> EntryOrNone]
        /\ edit' \in [Requests -> EntryOrNone]
        /\ scoreRead' \in [Requests -> 0 .. 1000]
    BY <1>5 DEF LedgerInv, TypeOK, Return, PC, EntryOrNone
  <2> QED BY <1>5, <2>1, <2>2, <2>3 DEF LedgerInv, TypeOK
<1>10. RepaidWithinReceived'
  <2>1. /\ ledger[e].repaid <= received[e]
        /\ ledger[e].repaid <= ledger[e].amount
    BY <1>2 DEF LedgerInv, RepaidWithinReceived
  <2>2. ledger[e].repaid \in Nat /\ edit[r].repaid \in Nat
    BY <1>2, <1>3 DEF LedgerEntry
  <2>3. new.repaid <= received'[e] /\ new.repaid <= new.amount
    BY <1>2, <1>4, <1>6, <1>7, <2>1, <2>2
  <2>4. \A f \in Entries \ {e} : ledger'[f] # NoEntry =>
            ledger'[f].repaid <= received'[f]
            /\ ledger'[f].repaid <= ledger'[f].amount
    BY <1>7, <1>8 DEF LedgerInv, RepaidWithinReceived
  <2> QED BY <1>8, <2>3, <2>4 DEF RepaidWithinReceived
<1>11. PaidEntryWasScored'
  <2>1. (new.status = "paid" \/ new.impact # 0) => e \in scored
    BY <1>2, <1>4 DEF LedgerInv, PaidEntryWasScored
  <2> QED BY <1>5, <1>8, <2>1 DEF LedgerInv, PaidEntryWasScored
<1>12. ScoreWithinImpacts'
  BY <1>5 DEF LedgerInv, ScoreWithinImpacts
<1>13. SnapshotsBounded'
  <2> SUFFICES ASSUME NEW q \in Requests, pc'[q] \in Running
               PROVE  Snapshot(q)'
    BY DEF SnapshotsBounded
  <2>1. q # r
    BY <1>5 DEF Return, LedgerInv, TypeOK, Running
  <2>2. /\ pc'[q] = pc[q]
        /\ target'[q] = target[q]
        /\ paying'[q] = paying[q]
        /\ doc'[q] = doc[q]
        /\ edit'[q] = edit[q]
        /\ scoreRead'[q] = scoreRead[q]
    BY <1>5, <2>1 DEF Return, LedgerInv, TypeOK
  <2>3. TypeOK /\ Snapshot(q)
    BY <2>2 DEF LedgerInv, SnapshotsBounded
  <2>4. \A f \in Entries : received'[f] >= received[f]
    BY <1>6, <1>7
  <2>5. new # NoEntry
    BY <1>4, NoEntryAssumption
  <2>6. \A f \in Entries : Opened(f) =>
            Opened(f)' /\ ledger'[f].amount = ledger[f].amount
    BY <1>4, <1>8, <2>5
  <2>7. \A d \in Consumers : credits'[d] >= credits[d]
                             /\ penalties'[d] >= penalties[d]
    BY <1>5 DEF LedgerInv, TypeOK
  <2> QED BY <1>5, <1>9, <2>2, <2>3, <2>4, <2>6, <2>7, SnapshotKept
<1> QED BY <1>9, <1>10, <1>11, <1>12, <1>13 DEF LedgerInv

-----------------------------------------------------------------------------
(* The specification.                                                      *)

\* Every step preserves the inductive invariant.
LEMMA NextInv == LedgerInv /\ [Next]_vars => LedgerInv'
<1> SUFFICES ASSUME LedgerInv, [Next]_vars PROVE LedgerInv'
  OBVIOUS
<1>1. CASE \E e \in Entries, c \in Consumers, a \in Amounts : CreateDue(e, c, a)
  BY <1>1, CreateDueInv
<1>2. CASE \E e \in Entries : DueDatePasses(e)
  BY <1>2, DueDatePassesInv
<1>3. CASE \E r \in Requests, e \in Entries : RejectUnknownEntry(r, e)
  BY <1>3, ReturnInv DEF RejectUnknownEntry
<1>4. CASE \E r \in Requests, e \in Entries, p \in Amounts : FindEntry(r, e, p)
  BY <1>4, FindEntryInv
<1>5. CASE \E r \in Requests : Handle(r)
  BY <1>5, ComputeRepaymentInv, FindConsumerInv, SaveScoreInv, SaveEntryInv
     DEF Handle
<1>6. CASE \E r \in Requests : Abort(r)
  BY <1>6, ReturnInv DEF Abort
<1>7. CASE UNCHANGED vars
  BY <1>7 DEF vars, LedgerInv, TypeOK, RepaidWithinReceived,
     PaidEntryWasScored, ScoreWithinImpacts, SnapshotsBounded, Snapshot
<1> QED BY <1>1, <1>2, <1>3, <1>4, <1>5, <1>6, <1>7 DEF Next

\* The inductive invariant holds in every reachable state.
THEOREM LedgerInvariant == Spec => []LedgerInv
<1>1. Init => LedgerInv
  BY InitInv
<1>2. LedgerInv /\ [Next]_vars => LedgerInv'
  BY NextInv
<1> QED BY <1>1, <1>2, PTL DEF Spec

\* Every field keeps its type; in particular no interleaving of score updates
\* takes bakiScore out of 0..1000 (user.schema.ts, lines 159 and 160).
THEOREM TypesHold == Spec => []TypeOK
<1>1. LedgerInv => TypeOK
  BY DEF LedgerInv
<1> QED BY <1>1, LedgerInvariant, PTL

\* No interleaving of repayments credits an entry with money nobody recorded,
\* nor with more than it is worth.
THEOREM RepaidNeverExceedsReceived == Spec => []RepaidWithinReceived
<1>1. LedgerInv => RepaidWithinReceived
  BY DEF LedgerInv
<1> QED BY <1>1, LedgerInvariant, PTL

\* No interleaving and no failure leaves an entry paid, or showing an impact,
\* whose settlement did not move the score.
THEOREM PaidEntriesWereScored == Spec => []PaidEntryWasScored
<1>1. LedgerInv => PaidEntryWasScored
  BY DEF LedgerInv
<1> QED BY <1>1, LedgerInvariant, PTL

\* Lost updates of the score may forget impacts but never invent one.
THEOREM ScoreStaysWithinImpacts == Spec => []ScoreWithinImpacts
<1>1. LedgerInv => ScoreWithinImpacts
  BY DEF LedgerInv
<1> QED BY <1>1, LedgerInvariant, PTL

-----------------------------------------------------------------------------
(* Exactness where no two repayments met.                                  *)

\* A copy edited by recordRepayment carries its result.
Edited(r) ==
    /\ edit[r].amount = doc[r].amount
    /\ edit[r].repaid = Repaid(doc[r], paying[r])
    /\ edit[r].status = StatusOf(doc[r].amount, edit[r].repaid)

\* Nothing is received on an entry that is not open, amounts are positive, a
\* running request carries its result once computed, and one whose entry is
\* not contended holds that entry as it is stored, alone.
RepaymentsAlone ==
    /\ \A e \in Entries : ~Opened(e) => received[e] = 0
    /\ \A e \in Entries : Opened(e) => ledger[e].amount > 0
    /\ \A r \in Requests : pc[r] \in Running =>
            /\ paying[r] > 0
            /\ (pc[r] # "compute") => Edited(r)
    /\ \A r \in Requests :
            (pc[r] \in Running /\ target[r] \notin contended) =>
                /\ doc[r] = ledger[target[r]]
                /\ \A q \in Requests : Repaying(q, target[r]) => q = r

Exact == BalanceIsExact /\ StatusMatchesBalance

ExactInv == RepaymentsAlone /\ Exact

\* The result of recordRepayment on the copy it read.
LEMMA WithRepaymentExactly ==
    ASSUME NEW entry \in LedgerEntry, NEW payment, NEW late
    PROVE  LET new == WithRepayment(entry, payment, late)
           IN  /\ new.amount = entry.amount
               /\ new.repaid = Repaid(entry, payment)
               /\ new.status = StatusOf(entry.amount, new.repaid)
<1> DEFINE repaid == Repaid(entry, payment)
           status == StatusOf(entry.amount, repaid)
           impact == IF status # "paid" THEN entry.impact
                     ELSE IF late THEN -15 ELSE 5
<1>1. WithRepayment(entry, payment, late) =
        [entry EXCEPT !.repaid = repaid, !.status = status, !.impact = impact]
  BY DEF WithRepayment
<1> HIDE DEF repaid, status, impact
<1>2. WithRepayment(entry, payment, late) =
        [consumer |-> entry.consumer, amount |-> entry.amount,
         repaid |-> repaid, status |-> status, impact |-> impact]
  BY <1>1 DEF LedgerEntry
<1> QED BY <1>2 DEF repaid, status

\* Saving a copy of what is stored writes every path as edited.
LEMMA SavedExactly ==
    ASSUME NEW current \in LedgerEntry, NEW edited
    PROVE  LET new == Saved(current, current, edited)
           IN  /\ new.amount = current.amount
               /\ new.repaid = edited.repaid
               /\ new.status = edited.status
BY DEF Saved, Modified, LedgerEntry

\* One more payment on an exact balance leaves an exact balance.
LEMMA PaymentKeepsBalance ==
    ASSUME NEW amount \in Nat, NEW got \in Nat, NEW payment \in Nat,
           amount > 0, payment > 0, NEW entry,
           entry.amount = amount,
           entry.repaid = IF got <= amount THEN got ELSE amount
    PROVE  LET repaid == Repaid(entry, payment)
               status == StatusOf(amount, repaid)
           IN  /\ repaid = IF got + payment <= amount THEN got + payment
                           ELSE amount
               /\ (status = "paid") <=> (repaid = amount)
               /\ (status = "due") <=> (repaid = 0)
BY DEF Repaid, StatusOf

LEMMA ExactInit == Init => ExactInv
<1> SUFFICES ASSUME Init PROVE ExactInv
  OBVIOUS
<1>1. \A e \in Entries : ledger[e] = NoEntry /\ received[e] = 0
  BY DEF Init
<1>2. \A r \in Requests : pc[r] \notin Running
  BY DEF Init, Running
<1> QED BY <1>1, <1>2
        DEF ExactInv, Exact, RepaymentsAlone, BalanceIsExact,
            StatusMatchesBalance

\* A step that leaves the ledger alone and at most moves request r, which
\* keeps its entry or ends, keeps everything exact.
LEMMA LocalExact ==
    ASSUME TypeOK, ExactInv, NEW r \in Requests,
           UNCHANGED <<ledger, received, contended>>,
           \A q \in Requests \ {r} :
                /\ pc'[q] = pc[q]
                /\ target'[q] = target[q]
                /\ paying'[q] = paying[q]
                /\ doc'[q] = doc[q]
                /\ edit'[q] = edit[q],
           pc'[r] \in Running =>
                /\ pc[r] \in Running
                /\ target'[r] = target[r]
                /\ paying'[r] = paying[r]
                /\ doc'[r] = doc[r]
                /\ (pc'[r] # "compute") => Edited(r)'
    PROVE  ExactInv'
<1>1. Exact'
  BY DEF ExactInv, Exact, BalanceIsExact, StatusMatchesBalance
<1>2. ASSUME NEW q \in Requests, pc'[q] \in Running
      PROVE  /\ pc[q] \in Running
             /\ target'[q] = target[q]
             /\ paying'[q] = paying[q]
             /\ doc'[q] = doc[q]
  BY <1>2
<1>3. ASSUME NEW q \in Requests, pc'[q] \in Running, pc'[q] # "compute"
      PROVE  Edited(q)'
  <2>1. CASE q = r
    BY <1>3, <2>1
  <2>2. CASE q # r
    <3>1. Edited(q)
      BY <1>3, <2>2 DEF ExactInv, RepaymentsAlone
    <3> QED BY <3>1, <2>2 DEF Edited
  <2> QED BY <2>1, <2>2
<1>4. RepaymentsAlone'
  BY <1>2, <1>3 DEF ExactInv, RepaymentsAlone, Repaying
<1> QED BY <1>1, <1>4 DEF ExactInv

LEMMA CreateDueExact ==
    ASSUME LedgerInv, ExactInv, NEW e \in Entries, NEW c \in Consumers,
           NEW a \in Amounts, CreateDue(e, c, a)
    PROVE  ExactInv'
<1> DEFINE new == [consumer |-> c, amount |-> a, repaid |-> 0,
                   status |-> "due", impact |-> 0]
<1>1. /\ ledger' = [ledger EXCEPT ![e] = new]
      /\ ledger[e] = NoEntry
      /\ UNCHANGED <<pc, target, paying, doc, edit, received, contended>>
  BY DEF CreateDue, locals, history
<1>2. \A f \in Entries : ledger'[f] = IF f = e THEN new ELSE ledger[f]
  BY <1>1 DEF LedgerInv, TypeOK
<1>3. a \in Nat /\ a > 0 /\ received[e] = 0
  BY <1>1, AmountsAssumption DEF ExactInv, RepaymentsAlone
<1>4. Exact'
  BY <1>1, <1>2, <1>3 DEF ExactInv, Exact, BalanceIsExact, StatusMatchesBalance
<1>5. \A r \in Requests : pc[r] \in Running => ledger[target[r]] # NoEntry
                                                /\ target[r] \in Entries
  BY DEF LedgerInv, SnapshotsBounded, Snapshot
<1>6. new # NoEntry
  <2>1. new \in LedgerEntry
    BY <1>3 DEF LedgerEntry, Status, Impacts
  <2> QED BY <2>1, NoEntryAssumption
<1>7. RepaymentsAlone'
  <2>1. /\ \A f \in Entries : ~Opened(f)' => received'[f] = 0
        /\ \A f \in Entries : Opened(f)' => ledger'[f].amount > 0
    BY <1>1, <1>2, <1>3, <1>6 DEF ExactInv, RepaymentsAlone
  <2>2. \A r \in Requests : Edited(r)' <=> Edited(r)
    BY <1>1 DEF Edited
  <2>3. \A r \in Requests, f \in Entries : Repaying(r, f)' <=> Repaying(r, f)
    BY <1>1 DEF Repaying
  <2>4. \A r \in Requests : pc[r] \in Running =>
            ledger'[target[r]] = ledger[target[r]]
    BY <1>1, <1>2, <1>5
  <2> HIDE DEF new
  <2> QED BY <1>1, <1>5, <2>1, <2>2, <2>3, <2>4
          DEF ExactInv, RepaymentsAlone
<1> QED BY <1>4, <1>7 DEF ExactInv

LEMMA FindEntryExact ==
    ASSUME LedgerInv, ExactInv, NEW r \in Requests, NEW e \in Entries,
           NEW p \in Amounts, FindEntry(r, e, p)
    PROVE  ExactInv'
<1>1. /\ pc[r] = "idle"
      /\ pc'[r] = "compute"
      /\ target'[r] = e
      /\ paying'[r] = p
      /\ doc'[r] = ledger[e]
      /\ \A q \in Requests \ {r} :
                /\ pc'[q] = pc[q]
                /\ target'[q] = target[q]
                /\ paying'[q] = paying[q]
                /\ doc'[q] = doc[q]
                /\ edit'[q] = edit[q]
      /\ UNCHANGED <<ledger, received>>
      /\ contended' = IF \E q \in Requests : Repaying(q, e)
                      THEN contended \cup {e} ELSE contended
  BY DEF FindEntry, LedgerInv, TypeOK, stored
<1>2. p > 0
  BY AmountsAssumption
<1>3. contended \subseteq contended'
  BY <1>1
<1>4. Exact'
  BY <1>1, <1>3 DEF ExactInv, Exact, BalanceIsExact, StatusMatchesBalance
<1>5. e \notin contended' => \A q \in Requests : ~Repaying(q, e)
  BY <1>1
<1>6. pc[r] \notin Running
  BY <1>1 DEF Running
<1>7. \A q \in Requests \ {r} : Edited(q) => Edited(q)'
  BY <1>1 DEF Edited
<1>8. RepaymentsAlone'
  <2>1. /\ \A f \in Entries : ~Opened(f)' => received'[f] = 0
        /\ \A f \in Entries : Opened(f)' => ledger'[f].amount > 0
    BY <1>1 DEF ExactInv, RepaymentsAlone
  <2>2. \A q \in Requests : pc'[q] \in Running =>
            /\ paying'[q] > 0
            /\ (pc'[q] # "compute") => Edited(q)'
    BY <1>1, <1>2, <1>7 DEF ExactInv, RepaymentsAlone
  <2>3. ASSUME NEW q \in Requests, pc'[q] \in Running,
               target'[q] \notin contended'
        PROVE  /\ doc'[q] = ledger'[target'[q]]
               /\ \A w \in Requests : Repaying(w, target[q])' => w = q
    <3>1. CASE q = r
      BY <1>1, <1>5, <2>3, <3>1 DEF Repaying
    <3>2. CASE q # r
      <4>1. /\ pc[q] \in Running
            /\ target'[q] = target[q]
            /\ target[q] \notin contended
        BY <1>1, <1>3, <2>3, <3>2
      <4>2. target[q] # e
        BY <1>1, <1>5, <2>3, <3>2, <4>1 DEF Repaying
      <4> QED BY <1>1, <3>2, <4>1, <4>2 DEF ExactInv, RepaymentsAlone, Repaying
    <3> QED BY <3>1, <3>2
  <2> QED BY <2>1, <2>2, <2>3 DEF RepaymentsAlone
<1> QED BY <1>4, <1>8 DEF ExactInv

\* On an entry that is not contended, a save writes the result of one more
\* payment on what is stored.
LEMMA SaveEntryExact ==
    ASSUME LedgerInv, ExactInv, NEW r \in Requests, SaveEntry(r)
    PROVE  ExactInv'
<1> DEFINE e == target[r]
           new == Saved(ledger[e], doc[r], edit[r])
<1>1. /\ pc[r] = "saveEntry"
      /\ pc[r] \in Running
      /\ e \in Entries
      /\ ledger[e] # NoEntry
      /\ doc[r] \in LedgerEntry
      /\ edit[r] \in LedgerEntry
      /\ doc[r].amount = ledger[e].amount
  BY DEF SaveEntry, LedgerInv, SnapshotsBounded, Snapshot, Running
<1>2. ledger[e] \in LedgerEntry
  BY <1>1 DEF LedgerInv, TypeOK, EntryOrNone
<1>3. /\ new \in LedgerEntry
      /\ new.amount = ledger[e].amount
      /\ new # NoEntry
  BY <1>1, <1>2, SavedFacts, NoEntryAssumption
<1>4. /\ ledger' = [ledger EXCEPT ![e] = new]
      /\ received' = [received EXCEPT ![e] = received[e] + paying[r]]
      /\ UNCHANGED contended
      /\ Return(r, "done")
  BY DEF SaveEntry
<1>5. /\ paying[r] \in Nat
      /\ paying[r] > 0
      /\ ledger[e].amount \in Nat
      /\ ledger[e].amount > 0
      /\ received[e] \in Nat
      /\ Edited(r)
  <2>1. paying[r] \in Amounts \cup {0}
    BY DEF LedgerInv, TypeOK
  <2>2. paying[r] \in Nat
    BY <2>1, PaymentsAreNat
  <2>3. ledger[e].amount \in Nat
    BY <1>2 DEF LedgerEntry
  <2>4. received[e] \in Nat
    BY <1>1 DEF LedgerInv, TypeOK
  <2>5. paying[r] > 0 /\ Edited(r)
    BY <1>1 DEF ExactInv, RepaymentsAlone
  <2>6. ledger[e].amount > 0
    BY <1>1 DEF ExactInv, RepaymentsAlone
  <2> QED BY <2>2, <2>3, <2>4, <2>5, <2>6
<1>6. e \notin contended =>
        /\ doc[r] = ledger[e]
        /\ \A q \in Requests : Repaying(q, e) => q = r
  BY <1>1 DEF ExactInv, RepaymentsAlone
<1> HIDE DEF new
<1>7. /\ ledger'[e] = new
      /\ received'[e] = received[e] + paying[r]
      /\ \A f \in Entries \ {e} : /\ ledger'[f] = ledger[f]
                                  /\ received'[f] = received[f]
  BY <1>1, <1>4 DEF LedgerInv, TypeOK
<1>8. \A q \in Requests : pc'[q] \in Running =>
            /\ q # r
            /\ pc'[q] = pc[q]
            /\ pc[q] \in Running
            /\ target'[q] = target[q]
            /\ paying'[q] = paying[q]
            /\ doc'[q] = doc[q]
            /\ edit'[q] = edit[q]
  BY <1>4 DEF Return, LedgerInv, TypeOK, Running
<1>9. ASSUME e \notin contended
      PROVE  /\ new.repaid = IF received'[e] <= new.amount
                             THEN received'[e] ELSE new.amount
             /\ (new.status = "paid") <=> (new.repaid = new.amount)
             /\ (new.status = "due") <=> (new.repaid = 0)
  <2>1. doc[r] = ledger[e]
    BY <1>6, <1>9
  <2>2. ledger[e].repaid = IF received[e] <= ledger[e].amount
                           THEN received[e] ELSE ledger[e].amount
    BY <1>1, <1>9 DEF ExactInv, Exact, BalanceIsExact
  <2>3. new = Saved(ledger[e], ledger[e], edit[r])
    BY <2>1 DEF new
  <2>4. new.repaid = edit[r].repaid /\ new.status = edit[r].status
    BY <1>2, <2>3, SavedExactly
  <2>5. /\ new.repaid = Repaid(ledger[e], paying[r])
        /\ new.status = StatusOf(ledger[e].amount, new.repaid)
    BY <1>5, <2>1, <2>4 DEF Edited
  <2>6. /\ Repaid(ledger[e], paying[r]) =
                IF received[e] + paying[r] <= ledger[e].amount
                THEN received[e] + paying[r] ELSE ledger[e].amount
        /\ (StatusOf(ledger[e].amount, Repaid(ledger[e], paying[r])) = "paid")
                <=> (Repaid(ledger[e], paying[r]) = ledger[e].amount)
        /\ (StatusOf(ledger[e].amount, Repaid(ledger[e], paying[r])) = "due")
                <=> (Repaid(ledger[e], paying[r]) = 0)
    BY <1>5, <2>2, PaymentKeepsBalance
  <2> QED BY <1>3, <1>7, <2>5, <2>6
<1>10. Exact'
  <2>1. ASSUME NEW f \in Entries \ contended, ledger'[f] # NoEntry
        PROVE  /\ ledger'[f].repaid = IF received'[f] <= ledger'[f].amount
                                      THEN received'[f] ELSE ledger'[f].amount
               /\ (ledger'[f].status = "paid")
                        <=> (ledger'[f].repaid = ledger'[f].amount)
               /\ (ledger'[f].status = "due") <=> (ledger'[f].repaid = 0)
    <3>1. CASE f = e
      BY <1>7, <1>9, <2>1, <3>1
    <3>2. CASE f # e
      BY <1>7, <2>1, <3>2
         DEF ExactInv, Exact, BalanceIsExact, StatusMatchesBalance
    <3> QED BY <3>1, <3>2
  <2> QED BY <1>4, <2>1 DEF Exact, BalanceIsExact, StatusMatchesBalance
<1>11. RepaymentsAlone'
  <2>1. /\ \A f \in Entries : ~Opened(f)' => received'[f] = 0
        /\ \A f \in Entries : Opened(f)' => ledger'[f].amount > 0
    BY <1>3, <1>5, <1>7 DEF ExactInv, RepaymentsAlone
  <2>2. \A q \in Requests : pc'[q] \in Running =>
            /\ paying'[q] > 0
            /\ (pc'[q] # "compute") => Edited(q)'
    BY <1>8 DEF ExactInv, RepaymentsAlone, Edited
  <2>3. ASSUME NEW q \in Requests, pc'[q] \in Running,
               target'[q] \notin contended'
        PROVE  /\ doc'[q] = ledger'[target'[q]]
               /\ \A w \in Requests : Repaying(w, target[q])' => w = q
    <3>1. /\ q # r
          /\ pc[q] \in Running
          /\ target'[q] = target[q]
          /\ doc'[q] = doc[q]
          /\ target[q] \notin contended
      BY <1>4, <1>8, <2>3
    <3>2. /\ target[q] \in Entries
          /\ doc[q] = ledger[target[q]]
          /\ \A w \in Requests : Repaying(w, target[q]) => w = q
      BY <3>1 DEF ExactInv, RepaymentsAlone, LedgerInv, SnapshotsBounded,
                  Snapshot
    <3>3. target[q] # e
      BY <1>1, <3>1, <3>2 DEF Repaying
    <3>4. \A w \in Requests : Repaying(w, target[q])' => Repaying(w, target[q])
      BY <1>8, <3>1 DEF Repaying
    <3> QED BY <1>7, <3>1, <3>2, <3>3, <3>4
  <2> QED BY <2>1, <2>2, <2>3 DEF RepaymentsAlone
<1> QED BY <1>10, <1>11 DEF ExactInv

\* Every step keeps what is not contended exact.
LEMMA ExactNext == LedgerInv /\ ExactInv /\ [Next]_vars => ExactInv'
<1> SUFFICES ASSUME LedgerInv, ExactInv, [Next]_vars PROVE ExactInv'
  OBVIOUS
<1>0. TypeOK
  BY DEF LedgerInv
<1>1. CASE \E e \in Entries, c \in Consumers, a \in Amounts : CreateDue(e, c, a)
  BY <1>1, CreateDueExact
<1>2. CASE \E r \in Requests, e \in Entries, p \in Amounts : FindEntry(r, e, p)
  BY <1>2, FindEntryExact
<1>3. ASSUME NEW r \in Requests, NEW outcome \in {"done", "failed"},
             Return(r, outcome), UNCHANGED <<stored, history>>
      PROVE  ExactInv'
  <2>1. /\ \A q \in Requests \ {r} :
                /\ pc'[q] = pc[q]
                /\ target'[q] = target[q]
                /\ paying'[q] = paying[q]
                /\ doc'[q] = doc[q]
                /\ edit'[q] = edit[q]
        /\ pc'[r] \notin Running
        /\ UNCHANGED <<ledger, received, contended>>
    BY <1>0, <1>3 DEF Return, TypeOK, Running, stored, history
  <2> QED BY <1>0, <2>1, LocalExact
<1>4. ASSUME NEW r \in Requests, ComputeRepayment(r)
      PROVE  ExactInv'
  <2> DEFINE new == WithRepayment(edit[r], paying[r], target[r] \in overdue)
  <2>1. /\ pc[r] = "compute"
        /\ edit' = [edit EXCEPT ![r] = new]
        /\ \A q \in Requests \ {r} : pc'[q] = pc[q]
        /\ UNCHANGED <<ledger, received, contended, target, paying, doc>>
    BY <1>0, <1>4 DEF ComputeRepayment, stored, history, TypeOK
  <2>2. pc[r] \in Running
    BY <2>1 DEF Running
  <2>3. doc[r] \in LedgerEntry /\ edit[r] = doc[r]
    BY <2>1, <2>2 DEF LedgerInv, SnapshotsBounded, Snapshot
  <2>4. /\ new.amount = doc[r].amount
        /\ new.repaid = Repaid(doc[r], paying[r])
        /\ new.status = StatusOf(doc[r].amount, new.repaid)
    BY <2>3, WithRepaymentExactly
  <2> HIDE DEF new
  <2>5. /\ edit'[r] = new
        /\ \A q \in Requests \ {r} : edit'[q] = edit[q]
    BY <1>0, <2>1 DEF TypeOK
  <2>6. Edited(r)'
    BY <2>1, <2>4, <2>5 DEF Edited
  <2> QED BY <1>0, <2>1, <2>2, <2>5, <2>6, LocalExact
<1>5. ASSUME NEW r \in Requests, FindConsumer(r) \/ SaveScore(r)
      PROVE  ExactInv'
  <2>1. /\ pc[r] \in Running
        /\ pc[r] # "compute"
        /\ \A q \in Requests \ {r} : pc'[q] = pc[q]
        /\ UNCHANGED <<ledger, received, contended, target, paying, doc, edit>>
    BY <1>0, <1>5
       DEF FindConsumer, SaveScore, Running, stored, locals, TypeOK
  <2>2. Edited(r)
    BY <2>1 DEF ExactInv, RepaymentsAlone
  <2>3. Edited(r)'
    BY <2>1, <2>2 DEF Edited
  <2> QED BY <1>0, <2>1, <2>3, LocalExact
<1>6. ASSUME NEW r \in Requests, SaveEntry(r)
      PROVE  ExactInv'
  BY <1>6, SaveEntryExact
<1>7. CASE \E r \in Requests, e \in Entries : RejectUnknownEntry(r, e)
  BY <1>3, <1>7 DEF RejectUnknownEntry
<1>8. CASE \E r \in Requests : Abort(r)
  BY <1>3, <1>8 DEF Abort
<1>9. CASE (\E e \in Entries : DueDatePasses(e)) \/ UNCHANGED vars
  <2>1. UNCHANGED <<ledger, received, contended, pc, target, paying, doc, edit>>
    BY <1>9 DEF DueDatePasses, vars, stored, locals, history
  <2> QED BY <2>1 DEF ExactInv, Exact, BalanceIsExact, StatusMatchesBalance,
                      RepaymentsAlone, Edited, Repaying
<1> QED BY <1>1, <1>2, <1>4, <1>5, <1>6, <1>7, <1>8, <1>9 DEF Next, Handle

LEMMA ExactInvariant == Spec => []ExactInv
<1>1. Init => ExactInv
  BY ExactInit
<1>2. LedgerInv /\ ExactInv /\ [Next]_vars => ExactInv'
  BY ExactNext
<1> QED BY <1>1, <1>2, LedgerInvariant, PTL DEF Spec

\* The balance of an entry that no two requests repaid at once is the money
\* recorded on it, up to its amount, whatever failed and was tried again.
THEOREM BalanceExactUnlessContended == Spec => []BalanceIsExact
<1>1. ExactInv => BalanceIsExact
  BY DEF ExactInv, Exact
<1> QED BY <1>1, ExactInvariant, PTL

\* Such an entry reads "paid" exactly when it is settled.
THEOREM StatusExactUnlessContended == Spec => []StatusMatchesBalance
<1>1. ExactInv => StatusMatchesBalance
  BY DEF ExactInv, Exact
<1> QED BY <1>1, ExactInvariant, PTL

\* A step either leaves the ledger alone, or adds an entry, or saves an entry
\* of the same amount on which no less is received.
LEMMA LedgerGrows ==
    ASSUME LedgerInv, Next, NEW e \in Entries, ledger[e] # NoEntry
    PROVE  \/ ledger'[e] = ledger[e]
           \/ /\ ledger'[e] \in LedgerEntry
              /\ ledger'[e].amount = ledger[e].amount
              /\ received'[e] >= received[e]
              /\ contended' = contended
<1>1. ASSUME NEW f \in Entries, NEW c \in Consumers, NEW a \in Amounts,
             CreateDue(f, c, a)
      PROVE  ledger'[e] = ledger[e]
  BY <1>1 DEF CreateDue, LedgerInv, TypeOK
<1>2. ASSUME NEW r \in Requests, SaveEntry(r)
      PROVE  \/ ledger'[e] = ledger[e]
             \/ /\ ledger'[e] \in LedgerEntry
                /\ ledger'[e].amount = ledger[e].amount
                /\ received'[e] >= received[e]
                /\ contended' = contended
  <2> DEFINE f == target[r]
             new == Saved(ledger[f], doc[r], edit[r])
  <2>1. /\ f \in Entries
        /\ ledger[f] # NoEntry
        /\ doc[r] \in LedgerEntry
        /\ edit[r] \in LedgerEntry
    BY <1>2 DEF SaveEntry, LedgerInv, SnapshotsBounded, Snapshot, Running
  <2>2. ledger[f] \in LedgerEntry
    BY <2>1 DEF LedgerInv, TypeOK, EntryOrNone
  <2>3. new \in LedgerEntry /\ new.amount = ledger[f].amount
    BY <2>1, <2>2, SavedFacts
  <2>4. /\ ledger' = [ledger EXCEPT ![f] = new]
        /\ received' = [received EXCEPT ![f] = received[f] + paying[r]]
        /\ contended' = contended
    BY <1>2 DEF SaveEntry
  <2> HIDE DEF new
  <2>5. /\ ledger'[f] = new
        /\ received'[f] = received[f] + paying[r]
        /\ received[f] \in Nat
        /\ e # f => ledger'[e] = ledger[e]
    BY <2>1, <2>4 DEF LedgerInv, TypeOK
  <2>6. paying[r] \in Nat
    <3>1. paying[r] \in Amounts \cup {0}
      BY DEF LedgerInv, TypeOK
    <3> QED BY <3>1, PaymentsAreNat
  <2>7. received'[f] >= received[f]
    BY <2>5, <2>6
  <2> QED BY <2>3, <2>4, <2>5, <2>7
<1>3. CASE ledger' = ledger
  BY <1>3
<1> QED BY <1>1, <1>2, <1>3
        DEF Next, Handle, DueDatePasses, RejectUnknownEntry, FindEntry,
            ComputeRepayment, FindConsumer, SaveScore, Abort, stored

\* An entry that no two requests repaid at once, once paid, stays paid.
THEOREM PaidStaysPaidUnlessContended == Spec => PaidIsForever
<1>1. LedgerInv /\ LedgerInv' /\ ExactInv /\ ExactInv' /\ [Next]_vars
        => [\A e \in Entries \ contended :
                IsPaid(e) => ledger'[e].status = "paid"]_vars
  <2> SUFFICES ASSUME LedgerInv, LedgerInv', ExactInv, ExactInv', Next,
                      NEW e \in Entries \ contended, IsPaid(e)
               PROVE  ledger'[e].status = "paid"
    OBVIOUS
  <2>1. ledger[e] # NoEntry /\ ledger[e].status = "paid"
    BY DEF IsPaid
  <2>2. CASE ledger'[e] = ledger[e]
    BY <2>1, <2>2
  <2>3. CASE /\ ledger'[e] \in LedgerEntry
             /\ ledger'[e].amount = ledger[e].amount
             /\ received'[e] >= received[e]
             /\ contended' = contended
    <3>1. /\ ledger[e].repaid = ledger[e].amount
          /\ ledger[e].repaid = IF received[e] <= ledger[e].amount
                                THEN received[e] ELSE ledger[e].amount
      BY <2>1 DEF ExactInv, Exact, BalanceIsExact, StatusMatchesBalance
    <3>2. ledger'[e] # NoEntry
      BY <2>3, NoEntryAssumption
    <3>3. /\ ledger'[e].repaid = IF received'[e] <= ledger'[e].amount
                                 THEN received'[e] ELSE ledger'[e].amount
          /\ (ledger'[e].status = "paid")
                <=> (ledger'[e].repaid = ledger'[e].amount)
      BY <2>3, <3>2 DEF ExactInv, Exact, BalanceIsExact, StatusMatchesBalance
    <3>4. received[e] \in Nat /\ received'[e] \in Int /\ ledger'[e].amount \in Nat
      BY <2>3 DEF LedgerInv, TypeOK, LedgerEntry
    <3>5. received[e] >= ledger[e].amount
      BY <2>3, <3>1, <3>4
    <3>6. received'[e] >= ledger'[e].amount
      BY <2>3, <3>4, <3>5
    <3>7. ledger'[e].repaid = ledger'[e].amount
      BY <3>3, <3>4, <3>6
    <3> QED BY <3>3, <3>7
  <2> QED BY <2>1, <2>2, <2>3, LedgerGrows
<1> QED BY <1>1, LedgerInvariant, ExactInvariant, PTL DEF Spec, PaidIsForever

-----------------------------------------------------------------------------
(* Consumers whose score no two requests moved at once.                    *)

\* The one request that is about to write such a score read what is stored.
ScoringAlone ==
    \A r \in Requests, c \in Consumers \ contested : Scoring(r, c) =>
        /\ scoreRead[r] = score[c]
        /\ \A q \in Requests : Scoring(q, c) => q = r

\* The third invariant.
ScoreInv == ScoreIsExact /\ ScoringAlone

LEMMA ScoreInit == Init => ScoreInv
<1> SUFFICES ASSUME Init PROVE ScoreInv
  OBVIOUS
<1>1. ScoreIsExact
  <2> SUFFICES ASSUME NEW c \in Consumers
               PROVE  score[c] = StartScore[c] + 5 * credits[c]
                                    - 15 * penalties[c]
    BY DEF ScoreIsExact
  <2>1. score[c] = StartScore[c] /\ credits[c] = 0 /\ penalties[c] = 0
    BY DEF Init
  <2> QED BY <2>1, StartScoresAreInt
<1>2. ScoringAlone
  BY DEF Init, ScoringAlone, Scoring
<1> QED BY <1>1, <1>2 DEF ScoreInv

\* A step that writes no score and takes no request up to writing one.
LEMMA ScoreKept ==
    ASSUME ScoreInv, UNCHANGED <<score, credits, penalties>>,
           contested \subseteq contested',
           \A q \in Requests : pc'[q] = "saveScore" =>
                /\ pc[q] = "saveScore"
                /\ edit'[q] = edit[q]
                /\ scoreRead'[q] = scoreRead[q]
    PROVE  ScoreInv'
<1>1. ScoreIsExact'
  BY DEF ScoreInv, ScoreIsExact
<1>2. ScoringAlone'
  BY DEF ScoreInv, ScoringAlone, Scoring
<1> QED BY <1>1, <1>2 DEF ScoreInv

\* A request reads a score that no other one is about to write, or the score
\* is contested.
LEMMA FindConsumerScore ==
    ASSUME LedgerInv, ScoreInv, NEW r \in Requests, FindConsumer(r)
    PROVE  ScoreInv'
<1> PICK c : c = edit[r].consumer
  OBVIOUS
<1>1. /\ UNCHANGED <<score, credits, penalties, edit>>
      /\ pc'[r] = "saveScore" /\ scoreRead'[r] = score[c]
      /\ \A q \in Requests \ {r} :
            pc'[q] = pc[q] /\ scoreRead'[q] = scoreRead[q]
      /\ contested \subseteq contested'
      /\ (\E q \in Requests : Scoring(q, c)) => c \in contested'
  BY DEF FindConsumer, LedgerInv, TypeOK, stored
<1>2. ScoreIsExact'
  BY <1>1 DEF ScoreInv, ScoreIsExact
<1>3. ASSUME NEW q \in Requests, NEW d \in Consumers \ contested',
             Scoring(q, d)'
      PROVE  /\ scoreRead'[q] = score'[d]
             /\ \A w \in Requests : Scoring(w, d)' => w = q
  <2>1. CASE d = c
    <3>1. \A w \in Requests : ~Scoring(w, c)
      BY <1>1, <1>3, <2>1
    <3>2. \A w \in Requests : Scoring(w, d)' => w = r
      BY <1>1, <2>1, <3>1 DEF Scoring
    <3> QED BY <1>1, <1>3, <2>1, <3>2
  <2>2. CASE d # c
    <3>1. \A w \in Requests : Scoring(w, d)' => w # r /\ Scoring(w, d)
      BY <1>1, <2>2 DEF Scoring
    <3> QED BY <1>1, <1>3, <3>1 DEF ScoreInv, ScoringAlone
  <2> QED BY <2>1, <2>2
<1> QED BY <1>2, <1>3 DEF ScoreInv, ScoringAlone

\* The one request that writes a score moves it by its impact.
LEMMA SaveScoreScore ==
    ASSUME LedgerInv, ScoreInv, NEW r \in Requests, SaveScore(r)
    PROVE  ScoreInv'
<1> PICK c, impact : c = edit[r].consumer /\ impact = edit[r].impact
  OBVIOUS
<1>1. pc[r] = "saveScore" /\ c \in Consumers /\ impact \in Impacts
  BY DEF SaveScore, LedgerInv, SnapshotsBounded, Snapshot, Running, LedgerEntry
<1>2. /\ UNCHANGED <<edit, scoreRead, contested>>
      /\ pc'[r] = "saveEntry" /\ \A q \in Requests \ {r} : pc'[q] = pc[q]
  BY DEF SaveScore, LedgerInv, TypeOK, locals
<1>3. /\ score'[c] = Modified(score[c], scoreRead[r],
                              NewScore(scoreRead[r], impact))
      /\ credits'[c] = IF impact = 5 THEN credits[c] + 1 ELSE credits[c]
      /\ penalties'[c] = IF impact = -15 THEN penalties[c] + 1
                         ELSE penalties[c]
      /\ \A d \in Consumers \ {c} : /\ score'[d] = score[d]
                                    /\ credits'[d] = credits[d]
                                    /\ penalties'[d] = penalties[d]
  BY <1>1 DEF SaveScore, LedgerInv, TypeOK
<1>4. ASSUME c \notin contested
      PROVE  /\ scoreRead[r] = score[c]
             /\ \A q \in Requests : Scoring(q, c) => q = r
  BY <1>1, <1>4 DEF ScoreInv, ScoringAlone, Scoring
<1>5. ASSUME c \notin contested,
             StartScore[c] + 5 * credits'[c] <= 1000,
             StartScore[c] - 15 * penalties'[c] >= 0
      PROVE  score'[c] = StartScore[c] + 5 * credits'[c] - 15 * penalties'[c]
  <2>1. score'[c] = NewScore(score[c], impact)
    BY <1>3, <1>4, <1>5 DEF Modified
  <2>2. /\ credits[c] \in Nat /\ penalties[c] \in Nat
        /\ StartScore[c] \in Int /\ impact \in {-15, 0, 5}
    BY <1>1, StartScoresAreInt DEF LedgerInv, TypeOK, Impacts
  <2>3. /\ StartScore[c] + 5 * credits[c] <= 1000
        /\ StartScore[c] - 15 * penalties[c] >= 0
    BY <1>3, <1>5, <2>2
  <2>4. score[c] = StartScore[c] + 5 * credits[c] - 15 * penalties[c]
    BY <1>1, <1>5, <2>3 DEF ScoreInv, ScoreIsExact
  <2> QED BY <1>3, <1>5, <2>1, <2>2, <2>3, <2>4 DEF NewScore
<1>6. ScoreIsExact'
  <2> SUFFICES ASSUME NEW d \in Consumers \ contested',
                      StartScore[d] + 5 * credits'[d] <= 1000,
                      StartScore[d] - 15 * penalties'[d] >= 0
               PROVE  score'[d] = StartScore[d] + 5 * credits'[d]
                                    - 15 * penalties'[d]
    BY DEF ScoreIsExact
  <2>1. CASE d = c
    BY <1>2, <1>5, <2>1
  <2>2. CASE d # c
    BY <1>2, <1>3, <2>2 DEF ScoreInv, ScoreIsExact
  <2> QED BY <2>1, <2>2
<1>7. ScoringAlone'
  <2> SUFFICES ASSUME NEW q \in Requests, NEW d \in Consumers \ contested',
                      Scoring(q, d)'
               PROVE  /\ scoreRead'[q] = score'[d]
                      /\ \A w \in Requests : Scoring(w, d)' => w = q
    BY DEF ScoringAlone
  <2>1. \A w \in Requests : Scoring(w, d)' => Scoring(w, d) /\ w # r
    BY <1>2 DEF Scoring
  <2>2. d # c
    BY <1>2, <1>4, <2>1
  <2> QED BY <1>2, <1>3, <2>1, <2>2 DEF ScoreInv, ScoringAlone
<1> QED BY <1>6, <1>7 DEF ScoreInv

\* Every step keeps the scores that are not contested exact.
LEMMA ScoreNext == LedgerInv /\ ScoreInv /\ [Next]_vars => ScoreInv'
<1> SUFFICES ASSUME LedgerInv, ScoreInv, [Next]_vars PROVE ScoreInv'
  OBVIOUS
<1>0. TypeOK
  BY DEF LedgerInv
<1>1. ASSUME NEW r \in Requests, NEW outcome \in {"done", "failed"},
             Return(r, outcome),
             UNCHANGED <<score, credits, penalties, contested>>
      PROVE  ScoreInv'
  <2>1. \A q \in Requests : pc'[q] = "saveScore" =>
            /\ pc[q] = "saveScore" /\ edit'[q] = edit[q]
            /\ scoreRead'[q] = scoreRead[q]
    BY <1>0, <1>1 DEF Return, TypeOK
  <2> QED BY <1>1, <2>1, ScoreKept
<1>2. CASE \E r \in Requests, e \in Entries : RejectUnknownEntry(r, e)
  BY <1>1, <1>2 DEF RejectUnknownEntry, stored, history
<1>3. CASE \E r \in Requests : Abort(r)
  BY <1>1, <1>3 DEF Abort, stored, history
<1>4. CASE \E r \in Requests : SaveEntry(r)
  BY <1>1, <1>4 DEF SaveEntry
<1>5. ASSUME NEW r \in Requests, NEW e \in Entries, NEW p \in Amounts,
             FindEntry(r, e, p)
      PROVE  ScoreInv'
  <2>1. UNCHANGED <<score, credits, penalties, contested>>
    BY <1>5 DEF FindEntry, stored
  <2>2. \A q \in Requests : pc'[q] = "saveScore" =>
            /\ pc[q] = "saveScore" /\ edit'[q] = edit[q]
            /\ scoreRead'[q] = scoreRead[q]
    BY <1>0, <1>5 DEF FindEntry, TypeOK
  <2> QED BY <2>1, <2>2, ScoreKept
<1>6. ASSUME NEW r \in Requests, ComputeRepayment(r)
      PROVE  ScoreInv'
  <2>1. UNCHANGED <<score, credits, penalties, contested, scoreRead>>
    BY <1>6 DEF ComputeRepayment, stored, history
  <2>2. /\ pc'[r] # "saveScore"
        /\ \A q \in Requests \ {r} : pc'[q] = pc[q] /\ edit'[q] = edit[q]
    BY <1>0, <1>6 DEF ComputeRepayment, TypeOK
  <2> QED BY <2>1, <2>2, ScoreKept
<1>7. CASE \E r \in Requests : FindConsumer(r)
  BY <1>7, FindConsumerScore
<1>8. CASE \E r \in Requests : SaveScore(r)
  BY <1>8, SaveScoreScore
<1>9. CASE \/ \E e \in Entries, c \in Consumers, a \in Amounts :
                CreateDue(e, c, a)
           \/ \E e \in Entries : DueDatePasses(e)
           \/ UNCHANGED vars
  <2>1. /\ UNCHANGED <<score, credits, penalties, contested>>
        /\ UNCHANGED <<pc, edit, scoreRead>>
    BY <1>9 DEF CreateDue, DueDatePasses, vars, stored, locals, history
  <2> QED BY <2>1, ScoreKept
<1> QED BY <1>2, <1>3, <1>4, <1>5, <1>6, <1>7, <1>8, <1>9 DEF Next, Handle

LEMMA ScoreInvariant == Spec => []ScoreInv
<1>1. Init => ScoreInv
  BY ScoreInit
<1>2. LedgerInv /\ ScoreInv /\ [Next]_vars => ScoreInv'
  BY ScoreNext
<1> QED BY <1>1, <1>2, LedgerInvariant, PTL DEF Spec

\* The score of a consumer whom no two requests scored at once counts every
\* settlement, as long as the start and the impacts leave no room for a clamp.
THEOREM ScoreExactUnlessContested == Spec => []ScoreIsExact
<1>1. ScoreInv => ScoreIsExact
  BY DEF ScoreInv
<1> QED BY <1>1, ScoreInvariant, PTL

=============================================================================

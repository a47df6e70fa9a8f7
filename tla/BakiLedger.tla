----------------------------- MODULE BakiLedger -----------------------------
(***************************************************************************)
(* The Baki ledger of src/ledger and the credit score of src/users:        *)
(* merchants open dues (LedgerService.createDue) and record repayments on  *)
(* them (LedgerService.recordRepayment), and a repayment that settles an   *)
(* entry moves the consumer's score (UsersService.updateBakiScore).        *)
(*                                                                         *)
(* recordRepayment awaits the database four times.  Requests run on one    *)
(* event loop, or on several serverless instances, and interleave at every *)
(* await, so each request is a process with a program counter; its locals  *)
(* are the document it read (doc), the same document as edited in memory   *)
(* (edit) and the score it read (scoreRead).                               *)
(***************************************************************************)
EXTENDS Integers, Mongoose

CONSTANTS
    Entries,        \* identifiers of the ledger entries
    Consumers,      \* the consumers who owe
    Requests,       \* identifiers of the repayment requests, one call each
    Amounts,        \* amounts of dues and of repayments
    StartScore,     \* the score each consumer starts with
    NoEntry         \* the absent document

Status == {"due", "partially_paid", "paid", "overdue"}

Impacts == {-15, 0, 5}

\* A ledger document: the fields that recordRepayment reads or writes.  The
\* due date is the set overdue below; merchant and notes are not read.
LedgerEntry ==
    [consumer : Consumers, amount : Nat, repaid : Nat, status : Status,
     impact : Impacts]

ASSUME AmountsAssumption == Amounts \subseteq Nat \ {0}
ASSUME StartScoreAssumption == StartScore \in [Consumers -> 0 .. 1000]
ASSUME NoEntryAssumption == NoEntry \notin LedgerEntry

VARIABLES
    ledger,         \* the ledger collection
    score,          \* bakiScore of every consumer's user document
    overdue,        \* entries whose dueDate the clock has passed
    pc,             \* where each request is
    target,         \* the entry a request repays
    paying,         \* the amount a request repays
    doc,            \* the entry as a request read it
    edit,           \* the entry as a request edited it, in memory
    scoreRead,      \* the score as a request read it
    received,       \* history: sum of the repayments saved on each entry
    scored,         \* history: entries whose settlement moved the score
    credits,        \* history: number of on-time impacts on each consumer
    penalties,      \* history: number of late impacts on each consumer
    contended,      \* history: entries two requests repaid at once
    contested       \* history: consumers two requests scored at once

stored == <<ledger, score>>
locals == <<target, paying, doc, edit, scoreRead>>
history == <<received, scored, credits, penalties, contended, contested>>
vars == <<ledger, score, overdue, pc, target, paying, doc, edit, scoreRead,
          received, scored, credits, penalties, contended, contested>>

Running == {"compute", "findConsumer", "saveScore", "saveEntry"}
PC == {"idle", "done", "failed"} \cup Running

-----------------------------------------------------------------------------
(* The assignments of recordRepayment.                                     *)

\* MUTANT: a repayment that is not capped at the amount of the entry.
RepaidUncapped(entry, payment) == entry.repaid + payment

\* MUTANT: a repayment replaces the previous ones.
RepaidOverwritten(entry, payment) ==
    IF entry.amount <= payment THEN entry.amount ELSE payment

\* repaidAmount after a repayment.
Repaid(entry, payment) ==
    IF entry.amount <= entry.repaid + payment
    THEN entry.amount
    ELSE entry.repaid + payment

\* MUTANT: an entry counts as paid as soon as anything is repaid.
StatusAnyPayment(amount, repaid) ==
    IF repaid > 0 THEN "paid" ELSE "partially_paid"

\* MUTANT: an entry is paid only when more than its amount is repaid.
StatusBeyondAmount(amount, repaid) ==
    IF repaid > amount THEN "paid" ELSE "partially_paid"

\* status after a repayment.
StatusOf(amount, repaid) ==
    IF repaid >= amount THEN "paid" ELSE "partially_paid"

\* The document as recordRepayment edits it in memory.
WithRepayment(entry, payment, late) ==
    LET repaid == Repaid(entry, payment)
        status == StatusOf(entry.amount, repaid)
    IN  [entry EXCEPT
            !.repaid = repaid,
            !.status = status,
            !.impact = IF status # "paid" THEN @
                       ELSE IF late THEN -15 ELSE 5]

\* MUTANT: a score that would leave 0..1000 falls back to the default.
NewScoreReset(current, delta) ==
    IF current + delta \in 0 .. 1000 THEN current + delta ELSE 500

\* MUTANT: the impact is added to the default score.
NewScoreFromDefault(current, delta) == 500 + delta

\* bakiScore after updateBakiScore.
NewScore(current, delta) ==
    IF current + delta > 1000 THEN 1000
    ELSE IF current + delta < 0 THEN 0
    ELSE current + delta

\* The entry in the database after entry.save().
Saved(current, read, edited) ==
    [current EXCEPT
        !.repaid = Modified(@, read.repaid, edited.repaid),
        !.status = Modified(@, read.status, edited.status),
        !.impact = Modified(@, read.impact, edited.impact)]

-----------------------------------------------------------------------------
Init ==
    /\ ledger = [e \in Entries |-> NoEntry]
    /\ score = StartScore
    /\ overdue = {}
    /\ pc = [r \in Requests |-> "idle"]
    /\ target = [r \in Requests |-> NoEntry]
    /\ paying = [r \in Requests |-> 0]
    /\ doc = [r \in Requests |-> NoEntry]
    /\ edit = [r \in Requests |-> NoEntry]
    /\ scoreRead = [r \in Requests |-> 0]
    /\ received = [e \in Entries |-> 0]
    /\ scored = {}
    /\ credits = [c \in Consumers |-> 0]
    /\ penalties = [c \in Consumers |-> 0]
    /\ contended = {}
    /\ contested = {}

\* createDue: the consumer exists (users are never deleted), so the check
\* before the insert cannot change its answer and the two are one step.
CreateDue(e, c, a) ==
    /\ ledger[e] = NoEntry
    /\ ledger' = [ledger EXCEPT ![e] =
                    [consumer |-> c, amount |-> a, repaid |-> 0,
                     status |-> "due", impact |-> 0]]
    /\ UNCHANGED <<score, overdue, pc, locals, history>>

\* The clock passes an entry's due date, which may also lie in the past
\* when the entry is created.  No code runs at that moment.
DueDatePasses(e) ==
    /\ ledger[e] # NoEntry
    /\ e \notin overdue
    /\ overdue' = overdue \cup {e}
    /\ UNCHANGED <<stored, pc, locals, history>>

\* The handler is over: its locals are gone.
Return(r, outcome) ==
    /\ pc' = [pc EXCEPT ![r] = outcome]
    /\ target' = [target EXCEPT ![r] = NoEntry]
    /\ paying' = [paying EXCEPT ![r] = 0]
    /\ doc' = [doc EXCEPT ![r] = NoEntry]
    /\ edit' = [edit EXCEPT ![r] = NoEntry]
    /\ scoreRead' = [scoreRead EXCEPT ![r] = 0]

\* findById finds nothing: 404 and no effect.
RejectUnknownEntry(r, e) ==
    /\ pc[r] = "idle"
    /\ ledger[e] = NoEntry
    /\ Return(r, "failed")
    /\ UNCHANGED <<stored, overdue, history>>

\* Request q is repaying entry e.
Repaying(q, e) == pc[q] \in Running /\ target[q] = e

\* findById returns the entry.
FindEntry(r, e, payment) ==
    /\ pc[r] = "idle"
    /\ ledger[e] # NoEntry
    /\ pc' = [pc EXCEPT ![r] = "compute"]
    /\ target' = [target EXCEPT ![r] = e]
    /\ paying' = [paying EXCEPT ![r] = payment]
    /\ doc' = [doc EXCEPT ![r] = ledger[e]]
    /\ edit' = [edit EXCEPT ![r] = ledger[e]]
    /\ contended' = IF \E q \in Requests : Repaying(q, e)
                    THEN contended \cup {e} ELSE contended
    /\ UNCHANGED <<stored, overdue, scoreRead, received, scored, credits,
                   penalties, contested>>

\* MUTANT: the entry is saved without updating the score first.
ComputeRepaymentUnscored(r) ==
    /\ pc[r] = "compute"
    /\ edit' = [edit EXCEPT ![r] =
                    WithRepayment(@, paying[r], target[r] \in overdue)]
    /\ pc' = [pc EXCEPT ![r] = "saveEntry"]
    /\ UNCHANGED <<stored, overdue, target, paying, doc, scoreRead, history>>

\* The assignments to the document, against the clock, up to the next await:
\* the read of the consumer when the entry is now paid, else the save.
ComputeRepayment(r) ==
    /\ pc[r] = "compute"
    /\ edit' = [edit EXCEPT ![r] =
                    WithRepayment(@, paying[r], target[r] \in overdue)]
    /\ pc' = [pc EXCEPT ![r] = IF edit'[r].status = "paid"
                               THEN "findConsumer" ELSE "saveEntry"]
    /\ UNCHANGED <<stored, overdue, target, paying, doc, scoreRead, history>>

\* Request q has read the score of consumer c and not written it yet.
Scoring(q, c) == pc[q] = "saveScore" /\ edit[q].consumer = c

\* updateBakiScore reads the consumer.
FindConsumer(r) ==
    LET c == edit[r].consumer
    IN  /\ pc[r] = "findConsumer"
        /\ scoreRead' = [scoreRead EXCEPT ![r] = score[c]]
        /\ pc' = [pc EXCEPT ![r] = "saveScore"]
        /\ contested' = IF \E q \in Requests : Scoring(q, c)
                        THEN contested \cup {c} ELSE contested
        /\ UNCHANGED <<stored, overdue, target, paying, doc, edit, received,
                       scored, credits, penalties, contended>>

\* updateBakiScore saves the consumer.
SaveScore(r) ==
    LET c == edit[r].consumer
        impact == edit[r].impact
    IN  /\ pc[r] = "saveScore"
        /\ score' = [score EXCEPT ![c] =
                        Modified(@, scoreRead[r],
                                 NewScore(scoreRead[r], impact))]
        /\ pc' = [pc EXCEPT ![r] = "saveEntry"]
        /\ scored' = scored \cup {target[r]}
        /\ credits' = [credits EXCEPT ![c] =
                        IF impact = 5 THEN @ + 1 ELSE @]
        /\ penalties' = [penalties EXCEPT ![c] =
                        IF impact = -15 THEN @ + 1 ELSE @]
        /\ UNCHANGED <<ledger, overdue, locals, received, contended, contested>>

\* entry.save(), and the handler returns the entry.
SaveEntry(r) ==
    LET e == target[r]
    IN  /\ pc[r] = "saveEntry"
        /\ ledger' = [ledger EXCEPT ![e] = Saved(@, doc[r], edit[r])]
        /\ received' = [received EXCEPT ![e] = @ + paying[r]]
        /\ Return(r, "done")
        /\ UNCHANGED <<score, overdue, scored, credits, penalties, contended,
                       contested>>

\* A database call fails, or the serverless instance running the handler is
\* stopped: the steps taken so far stay, the rest never happens.
Abort(r) ==
    /\ pc[r] \in Running
    /\ Return(r, "failed")
    /\ UNCHANGED <<stored, overdue, history>>

\* What the server does by itself once a request is under way.
Handle(r) ==
    \/ ComputeRepayment(r)
    \/ FindConsumer(r)
    \/ SaveScore(r)
    \/ SaveEntry(r)

Next ==
    \/ \E e \in Entries, c \in Consumers, a \in Amounts : CreateDue(e, c, a)
    \/ \E e \in Entries : DueDatePasses(e)
    \/ \E r \in Requests, e \in Entries : RejectUnknownEntry(r, e)
    \/ \E r \in Requests, e \in Entries, p \in Amounts : FindEntry(r, e, p)
    \/ \E r \in Requests : Handle(r)
    \/ \E r \in Requests : Abort(r)

Spec == Init /\ [][Next]_vars

\* The event loop runs every continuation whose await has resolved.  Nothing
\* obliges a client to call, a clock to pass a date or a request to fail.
FairSpec == Spec /\ \A r \in Requests : WF_vars(Handle(r))

-----------------------------------------------------------------------------
(* Properties of every interleaving, with failures at any await.           *)

EntryOrNone == LedgerEntry \cup {NoEntry}

Opened(e) == ledger[e] # NoEntry
IsPaid(e) == Opened(e) /\ ledger[e].status = "paid"

TypeOK ==
    /\ ledger \in [Entries -> EntryOrNone]
    /\ score \in [Consumers -> 0 .. 1000]
    /\ overdue \subseteq Entries
    /\ pc \in [Requests -> PC]
    /\ target \in [Requests -> Entries \cup {NoEntry}]
    /\ paying \in [Requests -> Amounts \cup {0}]
    /\ doc \in [Requests -> EntryOrNone]
    /\ edit \in [Requests -> EntryOrNone]
    /\ scoreRead \in [Requests -> 0 .. 1000]
    /\ received \in [Entries -> Nat]
    /\ scored \subseteq Entries
    /\ credits \in [Consumers -> Nat]
    /\ penalties \in [Consumers -> Nat]
    /\ contended \subseteq Entries
    /\ contested \subseteq Consumers

\* The ledger never credits an entry with more than the repayments recorded
\* on it, nor with more than its amount, whatever stale document a request
\* writes back (recordRepayment, lines 50 and 61).
RepaidWithinReceived ==
    \A e \in Entries : Opened(e) =>
        /\ ledger[e].repaid <= received[e]
        /\ ledger[e].repaid <= ledger[e].amount

\* An entry that reads "paid", or that shows a score impact, has moved its
\* consumer's score: the score is saved first (lines 55 to 61), so no failure
\* leaves an entry paid whose impact was not applied.
PaidEntryWasScored ==
    \A e \in Entries :
        (/\ Opened(e)
         /\ ledger[e].status = "paid" \/ ledger[e].impact # 0) => e \in scored

\* Lost updates may drop an impact on the score but never invent one, and no
\* stale score leads out of its range: the score stays in 0..1000, and between
\* the start minus every penalty and the start plus every credit
\* (updateBakiScore).
ScoreWithinImpacts ==
    \A c \in Consumers :
        /\ score[c] \in 0 .. 1000
        /\ score[c] <= StartScore[c] + 5 * credits[c]
        /\ score[c] >= StartScore[c] - 15 * penalties[c]

\* What the copies held by a running request may be, however old they are:
\* the copy that was read is bounded by what has been saved since, the edited
\* copy by that plus its own payment; an entry seen as paid was scored, and
\* so was one about to be saved as paid; a score about to be written comes
\* from one within the impacts counted so far.
Snapshot(r) ==
    LET e == target[r]
        c == edit[r].consumer
    IN  /\ e \in Entries
        /\ Opened(e)
        /\ doc[r] \in LedgerEntry
        /\ edit[r] \in LedgerEntry
        /\ doc[r].amount = ledger[e].amount
        /\ edit[r].amount = ledger[e].amount
        /\ doc[r].repaid <= received[e]
        /\ doc[r].repaid <= doc[r].amount
        /\ edit[r].repaid <= received[e] + paying[r]
        /\ edit[r].repaid <= edit[r].amount
        /\ (doc[r].status = "paid" \/ doc[r].impact # 0) => e \in scored
        /\ (pc[r] = "compute") => (edit[r] = doc[r])
        /\ (/\ pc[r] = "saveEntry"
            /\ edit[r].status = "paid" \/ edit[r].impact # 0) => e \in scored
        /\ (pc[r] = "saveScore") =>
            /\ scoreRead[r] <= StartScore[c] + 5 * credits[c]
            /\ scoreRead[r] >= StartScore[c] - 15 * penalties[c]

SnapshotsBounded == \A r \in Requests : pc[r] \in Running => Snapshot(r)

-----------------------------------------------------------------------------
(* Exactness, where no two requests met.                                   *)

\* Of an entry that no two requests repaid at once, every recorded repayment
\* is in the balance, up to the amount owed, whatever failed in between.
BalanceIsExact ==
    \A e \in Entries \ contended : Opened(e) =>
        ledger[e].repaid = IF received[e] <= ledger[e].amount
                           THEN received[e] ELSE ledger[e].amount

\* Such an entry reads "paid" exactly when its whole amount is repaid, and
\* "due" exactly when nothing is.
StatusMatchesBalance ==
    \A e \in Entries \ contended : Opened(e) =>
        /\ (ledger[e].status = "paid") <=> (ledger[e].repaid = ledger[e].amount)
        /\ (ledger[e].status = "due") <=> (ledger[e].repaid = 0)

\* Such an entry, once paid, stays paid.
PaidIsForever ==
    [][\A e \in Entries \ contended :
        IsPaid(e) => ledger'[e].status = "paid"]_vars

\* The score of a consumer that no two requests scored at once is the start
\* plus 5 for each on-time settlement minus 15 for each late one, as long as
\* no clamp can have applied.
ScoreIsExact ==
    \A c \in Consumers \ contested :
        (/\ StartScore[c] + 5 * credits[c] <= 1000
         /\ StartScore[c] - 15 * penalties[c] >= 0) =>
            score[c] = StartScore[c] + 5 * credits[c] - 15 * penalties[c]

\* A repayment that covers what is left of its entry marks the entry paid,
\* unless the request fails or meets another one on the same entry.
CoveringRepaymentSettles ==
    \A r \in Requests, e \in Entries :
        (/\ pc[r] = "compute"
         /\ target[r] = e
         /\ doc[r].repaid + paying[r] >= doc[r].amount)
            ~> (IsPaid(e) \/ pc[r] = "failed" \/ e \in contended)

=============================================================================

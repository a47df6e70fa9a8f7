------------------------- MODULE MerchantOnboarding -------------------------
(***************************************************************************)
(* The merchant application: RegistrationService lets a merchant save      *)
(* drafts and submit, AdminService lets administrators approve and reject, *)
(* and UsersService keeps the application inside the user document.        *)
(*                                                                         *)
(* Every write is one findByIdAndUpdate, so it is atomic; but a review     *)
(* reads the application, checks that it is under review and then writes   *)
(* without a condition, and anything may happen in between.                *)
(***************************************************************************)
EXTENDS Integers

CONSTANTS
    Merchants,      \* users with the merchant role
    Admins,         \* users with the admin role
    Reviews,        \* calls of the approve and reject endpoints
    NoAdmin, NoMerchant

ASSUME NoAdminAssumption == NoAdmin \notin Admins
ASSUME NoMerchantAssumption == NoMerchant \notin Merchants

\* applicationStatus; "none" is a user without a merchantProfile.  The enum
\* also has setupRequired, which no code writes.
Status == {"none", "draft", "underReview", "approved", "rejected"}
Decided == {"approved", "rejected"}

\* The merchantProfile of a user, its dates and its rejection as set or unset.
\* What the setup form says is left out: no decision of the code reads it.
Profile ==
    [status : Status, submittedAt : BOOLEAN, reviewedAt : BOOLEAN,
     reviewedBy : Admins \cup {NoAdmin}, approvedAt : BOOLEAN,
     rejectedAt : BOOLEAN, rejection : BOOLEAN]

VARIABLES
    profile,        \* merchantProfile of every merchant
    pc,             \* where each review is
    subject,        \* the merchant under review
    reviewer,       \* the administrator who called
    verdict,        \* what the call is to decide
    contested       \* history: applications several reviews hold at once

vars == <<profile, pc, subject, reviewer, verdict, contested>>
locals == <<subject, reviewer, verdict>>

PC == {"idle", "write", "done", "failed"}

-----------------------------------------------------------------------------
(* The updates of UsersService.                                            *)

\* MUTANT: submitting again keeps the verdict on the previous submission.
SubmittedKeepingVerdict(p) ==
    [p EXCEPT !.status = "underReview", !.submittedAt = TRUE]

\* updateMerchantProfile with a status: the submission clears every trace of
\* an earlier review.
Submitted(p) ==
    [p EXCEPT !.status = "underReview",
              !.submittedAt = TRUE, !.reviewedAt = FALSE,
              !.reviewedBy = NoAdmin, !.approvedAt = FALSE,
              !.rejectedAt = FALSE, !.rejection = FALSE]

\* MUTANT: the first draft gets the other initial status of the enum.
DraftedAsSetup(p) ==
    [p EXCEPT !.status = IF @ = "none" THEN "setupRequired" ELSE @]

\* updateMerchantProfile without a status.  Saving into a user without a
\* profile creates one without applicationStatus, which reads as draft.
Drafted(p) ==
    [p EXCEPT !.status = IF @ = "none" THEN "draft" ELSE @]

\* MUTANT: approving leaves the date of an earlier rejection.
ReviewedKeepingDates(p, admin, decision) ==
    [p EXCEPT !.status = decision, !.reviewedAt = TRUE, !.reviewedBy = admin,
              !.approvedAt = (decision = "approved"),
              !.rejectedAt = (decision = "rejected") \/ @,
              !.rejection = (decision = "rejected")]

\* updateMerchantApplicationReview: each verdict clears the other's fields.
Reviewed(p, admin, decision) ==
    [p EXCEPT !.status = decision, !.reviewedAt = TRUE, !.reviewedBy = admin,
              !.approvedAt = (decision = "approved"),
              !.rejectedAt = (decision = "rejected"),
              !.rejection = (decision = "rejected")]

-----------------------------------------------------------------------------
\* A merchant registered with a profile has a draft (UsersService.create).
Registered(status) ==
    [status |-> status, submittedAt |-> FALSE, reviewedAt |-> FALSE,
     reviewedBy |-> NoAdmin, approvedAt |-> FALSE, rejectedAt |-> FALSE,
     rejection |-> FALSE]

Init ==
    /\ profile \in [Merchants -> {Registered("none"), Registered("draft")}]
    /\ pc = [v \in Reviews |-> "idle"]
    /\ subject = [v \in Reviews |-> NoMerchant]
    /\ reviewer = [v \in Reviews |-> NoAdmin]
    /\ verdict = [v \in Reviews |-> "approved"]
    /\ contested = {}

\* assertMerchant reads the roles, which never change, so check and update
\* are one step.  A draft may be saved whatever the status.
SaveMerchantSetupDraft(m) ==
    /\ profile' = [profile EXCEPT ![m] = Drafted(@)]
    /\ UNCHANGED <<pc, locals, contested>>

\* Submitting and resubmitting are the same handler, whatever the status.
SubmitMerchantApplication(m) ==
    /\ profile' = [profile EXCEPT ![m] = Submitted(@)]
    /\ UNCHANGED <<pc, locals, contested>>

\* getMerchantApplicationForAdmin finds no application (404), or one that is
\* not under review (400), or a rejection that names nothing (400).
RefuseReview(v, m, decision, namesSomething) ==
    /\ pc[v] = "idle"
    /\ \/ profile[m].status # "underReview"
       \/ decision = "rejected" /\ ~namesSomething
    /\ pc' = [pc EXCEPT ![v] = "failed"]
    /\ UNCHANGED <<profile, locals, contested>>

\* Review w has found the application of m under review and not written yet.
Reviewing(w, m) == pc[w] = "write" /\ subject[w] = m

\* MUTANT: an application may be decided before it is submitted.
BeginReviewOfDraft(v, m, admin, decision) ==
    /\ pc[v] = "idle"
    /\ profile[m].status \notin {"none", "approved", "rejected"}
    /\ pc' = [pc EXCEPT ![v] = "write"]
    /\ subject' = [subject EXCEPT ![v] = m]
    /\ reviewer' = [reviewer EXCEPT ![v] = admin]
    /\ verdict' = [verdict EXCEPT ![v] = decision]
    /\ contested' = IF \E w \in Reviews : Reviewing(w, m)
                    THEN contested \cup {m} ELSE contested
    /\ UNCHANGED profile

\* The application is read and is under review.
BeginReview(v, m, admin, decision) ==
    /\ pc[v] = "idle"
    /\ profile[m].status = "underReview"
    /\ pc' = [pc EXCEPT ![v] = "write"]
    /\ subject' = [subject EXCEPT ![v] = m]
    /\ reviewer' = [reviewer EXCEPT ![v] = admin]
    /\ verdict' = [verdict EXCEPT ![v] = decision]
    /\ contested' = IF \E w \in Reviews : Reviewing(w, m)
                    THEN contested \cup {m} ELSE contested
    /\ UNCHANGED profile

\* Review v lets go of its application, which stays contested while another
\* holds it.
LetGo(v) ==
    contested' = IF \E w \in Reviews \ {v} : Reviewing(w, subject[v])
                 THEN contested ELSE contested \ {subject[v]}

\* The verdict is written, on whatever the application is by now.
WriteReview(v) ==
    LET m == subject[v]
    IN  /\ pc[v] = "write"
        /\ profile' = [profile EXCEPT ![m] =
                            Reviewed(@, reviewer[v], verdict[v])]
        /\ pc' = [pc EXCEPT ![v] = "done"]
        /\ LetGo(v)
        /\ UNCHANGED locals

\* A database call fails or the instance stops.
Abort(v) ==
    /\ pc[v] = "write"
    /\ pc' = [pc EXCEPT ![v] = "failed"]
    /\ LetGo(v)
    /\ UNCHANGED <<profile, locals>>

Next ==
    \/ \E m \in Merchants :
            SaveMerchantSetupDraft(m) \/ SubmitMerchantApplication(m)
    \/ \E v \in Reviews, m \in Merchants, decision \in Decided,
          namesSomething \in BOOLEAN :
            RefuseReview(v, m, decision, namesSomething)
    \/ \E v \in Reviews, m \in Merchants, admin \in Admins, d \in Decided :
            BeginReview(v, m, admin, d)
    \/ \E v \in Reviews : WriteReview(v) \/ Abort(v)

Spec == Init /\ [][Next]_vars

\* The event loop finishes a review whose read has returned.
FairSpec == Spec /\ \A v \in Reviews : WF_vars(WriteReview(v))

-----------------------------------------------------------------------------
(* Properties of every interleaving, with failures at any await.           *)

TypeOK ==
    /\ profile \in [Merchants -> Profile]
    /\ pc \in [Reviews -> PC]
    /\ subject \in [Reviews -> Merchants \cup {NoMerchant}]
    /\ reviewer \in [Reviews -> Admins \cup {NoAdmin}]
    /\ verdict \in [Reviews -> Decided]
    /\ contested \subseteq Merchants

Coherent(p) ==
    /\ p.submittedAt <=> p.status \in {"underReview", "approved", "rejected"}
    /\ p.reviewedAt <=> p.status \in Decided
    /\ (p.reviewedBy # NoAdmin) <=> p.status \in Decided
    /\ p.approvedAt <=> p.status = "approved"
    /\ p.rejectedAt <=> p.status = "rejected"
    /\ p.rejection <=> p.status = "rejected"

\* The dates, the reviewer and the rejection always tell the same story as
\* the status, even when two administrators decide at once or the merchant
\* submits again in between (users.service.ts, lines 187 to 231 and 328 to
\* 372).
FieldsMatchStatus == \A m \in Merchants : Coherent(profile[m])

\* A review that is about to write is about an application that has been
\* submitted, and a submitted application never becomes a draft again.
WritesFollowSubmission ==
    \A v \in Reviews : pc[v] = "write" =>
        /\ subject[v] \in Merchants
        /\ reviewer[v] \in Admins
        /\ profile[subject[v]].submittedAt

\* The abstract lifecycle this module implements.
Lifecycle ==
    INSTANCE ApplicationLifecycle
        WITH status <- [m \in Merchants |-> profile[m].status]

\* The application moves only along the lifecycle: no draft is decided, and a
\* verdict replaces another only when the two reviews held the application at
\* once (admin.service.ts, lines 18 to 54).
ImplementsLifecycle == Lifecycle!Spec

-----------------------------------------------------------------------------
(* What the code says of itself, which a run refutes.                      *)

\* "Only applications under review can be approved" (admin.service.ts:22),
\* and the same of rejections (line 41): a verdict lands on an application
\* that is under review.
OnlyUnderReviewDecided ==
    [][\A v \in Reviews :
        (pc[v] = "write" /\ pc'[v] = "done") =>
            profile[subject[v]].status = "underReview"]_vars

=============================================================================

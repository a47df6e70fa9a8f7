------------------------- MODULE ApplicationProofs --------------------------
(***************************************************************************)
(* Proofs about merchant applications for any merchants, administrators,   *)
(* reviews and number of requests.  Of MerchantOnboarding: the invariants  *)
(* of every interleaving, and the refinement of ApplicationLifecycle.  Of  *)
(* AdminConsole, which puts the administrator's page on top of it: what    *)
(* the page shows at rest, and the refinement of MerchantOnboarding.       *)
(***************************************************************************)
EXTENDS AdminConsole, SequenceTheorems, TLAPS

\* A review about to write on an application that is not contested holds it
\* alone, and the application is still under review: drafts keep the status,
\* submissions set it again.
ReviewsExclude ==
    \A v \in Reviews : (pc[v] = "write" /\ subject[v] \notin contested) =>
        /\ profile[subject[v]].status = "underReview"
        /\ \A w \in Reviews : Reviewing(w, subject[v]) => w = v

\* The inductive invariant.
ReviewInv ==
    /\ TypeOK
    /\ FieldsMatchStatus
    /\ WritesFollowSubmission
    /\ ReviewsExclude

-----------------------------------------------------------------------------
(* The updates.                                                            *)

\* A submission yields a coherent application under review.
LEMMA SubmittedFacts ==
    ASSUME NEW p \in Profile
    PROVE  LET new == Submitted(p)
           IN  /\ new \in Profile
               /\ new.status = "underReview"
               /\ new.submittedAt
               /\ Coherent(new)
<1> DEFINE yes == TRUE
           no == FALSE
<1>1. Submitted(p) =
        [status |-> "underReview", submittedAt |-> yes,
         reviewedAt |-> no, reviewedBy |-> NoAdmin, approvedAt |-> no,
         rejectedAt |-> no, rejection |-> no]
  <2>1. Submitted(p) =
            [p EXCEPT !.status = "underReview",
                      !.submittedAt = yes, !.reviewedAt = no,
                      !.reviewedBy = NoAdmin, !.approvedAt = no,
                      !.rejectedAt = no, !.rejection = no]
    BY DEF Submitted
  <2> HIDE DEF yes, no
  <2> QED BY <2>1 DEF Profile
<1> QED BY <1>1 DEF Profile, Status, Decided, Coherent

\* Saving a draft keeps a coherent application coherent and its status what
\* it was, unless there was no application.
LEMMA DraftedFacts ==
    ASSUME NEW p \in Profile, Coherent(p)
    PROVE  LET new == Drafted(p)
           IN  /\ new \in Profile
               /\ new.status = IF p.status = "none" THEN "draft" ELSE p.status
               /\ new.submittedAt = p.submittedAt
               /\ Coherent(new)
<1> DEFINE status == IF p.status = "none" THEN "draft" ELSE p.status
<1>1. /\ status \in Status
      /\ p.submittedAt \in BOOLEAN
      /\ p.reviewedAt \in BOOLEAN
      /\ p.reviewedBy \in Admins \cup {NoAdmin}
      /\ p.approvedAt \in BOOLEAN
      /\ p.rejectedAt \in BOOLEAN
      /\ p.rejection \in BOOLEAN
  BY DEF Profile, Status
<1>2. Drafted(p) = [p EXCEPT !.status = status]
  BY DEF Drafted
<1>3. /\ (status = "underReview") <=> (p.status = "underReview")
      /\ (status = "approved") <=> (p.status = "approved")
      /\ (status = "rejected") <=> (p.status = "rejected")
  OBVIOUS
<1> HIDE DEF status
<1>4. Drafted(p) =
        [status |-> status,
         submittedAt |-> p.submittedAt, reviewedAt |-> p.reviewedAt,
         reviewedBy |-> p.reviewedBy, approvedAt |-> p.approvedAt,
         rejectedAt |-> p.rejectedAt, rejection |-> p.rejection]
  BY <1>2 DEF Profile
<1>5. Drafted(p) \in Profile
  BY <1>1, <1>4 DEF Profile
<1>6. Coherent(Drafted(p))
  BY <1>3, <1>4 DEF Coherent, Decided
<1> QED BY <1>4, <1>5, <1>6 DEF status

\* A verdict on a submitted application yields a coherent one.
LEMMA ReviewedFacts ==
    ASSUME NEW p \in Profile, NEW admin \in Admins, NEW decision \in Decided,
           p.submittedAt
    PROVE  LET new == Reviewed(p, admin, decision)
           IN  /\ new \in Profile
               /\ new.status = decision
               /\ new.submittedAt
               /\ Coherent(new)
<1> DEFINE yes == TRUE
           approved == decision = "approved"
           rejected == decision = "rejected"
<1>1. Reviewed(p, admin, decision) =
        [status |-> decision,
         submittedAt |-> p.submittedAt, reviewedAt |-> yes,
         reviewedBy |-> admin, approvedAt |-> approved,
         rejectedAt |-> rejected, rejection |-> rejected]
  <2>1. Reviewed(p, admin, decision) =
            [p EXCEPT !.status = decision, !.reviewedAt = yes,
                      !.reviewedBy = admin, !.approvedAt = approved,
                      !.rejectedAt = rejected, !.rejection = rejected]
    BY DEF Reviewed
  <2> HIDE DEF yes, approved, rejected
  <2> QED BY <2>1 DEF Profile
<1>2. /\ p.submittedAt \in BOOLEAN
      /\ admin # NoAdmin
  BY NoAdminAssumption DEF Profile
<1>3. decision = "approved" \/ decision = "rejected"
  BY DEF Decided
<1>4. Reviewed(p, admin, decision) \in Profile
  BY <1>1, <1>2, <1>3 DEF Profile, Status
<1>5. Coherent(Reviewed(p, admin, decision))
  <2> DEFINE new == Reviewed(p, admin, decision)
  <2>1. /\ new.status = decision
        /\ new.submittedAt = p.submittedAt
        /\ new.reviewedAt = yes
        /\ new.reviewedBy = admin
        /\ new.approvedAt = approved
        /\ new.rejectedAt = rejected
        /\ new.rejection = rejected
    <3> HIDE DEF yes, approved, rejected
    <3> QED BY <1>1
  <2> HIDE DEF new
  <2>2. Coherent(new)
    BY <2>1, <1>2, <1>3 DEF Coherent, Decided
  <2> QED BY <2>2 DEF new
<1> QED BY <1>1, <1>4, <1>5

-----------------------------------------------------------------------------
(* Steps.                                                                  *)

LEMMA InitReview == Init => ReviewInv
<1> SUFFICES ASSUME Init PROVE ReviewInv
  OBVIOUS
<1>1. \A s \in {"none", "draft"} :
            Registered(s) \in Profile /\ Coherent(Registered(s))
  BY DEF Registered, Profile, Status, Coherent, Decided
<1>2. \A m \in Merchants : profile[m] \in Profile /\ Coherent(profile[m])
  <2> SUFFICES ASSUME NEW m \in Merchants
               PROVE  profile[m] \in Profile /\ Coherent(profile[m])
    OBVIOUS
  <2>1. profile[m] = Registered("none") \/ profile[m] = Registered("draft")
    BY DEF Init
  <2> QED BY <2>1, <1>1
<1>3. profile \in [Merchants -> Profile]
  BY <1>1 DEF Init
<1>4. TypeOK
  BY <1>3 DEF Init, TypeOK, PC, Decided
<1>5. FieldsMatchStatus
  BY <1>2 DEF FieldsMatchStatus
<1>6. WritesFollowSubmission /\ ReviewsExclude
  BY DEF Init, WritesFollowSubmission, ReviewsExclude
<1> QED BY <1>4, <1>5, <1>6 DEF ReviewInv

\* A change of one application that keeps it well-formed, coherent and, when
\* submitted, submitted, and under review when it was.
LEMMA ProfileStep ==
    ASSUME ReviewInv, NEW m \in Merchants, NEW new \in Profile, Coherent(new),
           profile' = [profile EXCEPT ![m] = new],
           UNCHANGED <<pc, subject, reviewer, verdict, contested>>,
           profile[m].submittedAt => new.submittedAt,
           profile[m].status = "underReview" => new.status = "underReview"
    PROVE  ReviewInv'
<1>1. /\ profile'[m] = new
      /\ \A n \in Merchants \ {m} : profile'[n] = profile[n]
  BY DEF ReviewInv, TypeOK
<1>2. TypeOK'
  BY DEF ReviewInv, TypeOK
<1>3. FieldsMatchStatus'
  BY <1>1 DEF ReviewInv, FieldsMatchStatus
<1>4. WritesFollowSubmission'
  BY <1>1 DEF ReviewInv, WritesFollowSubmission
<1>5. ReviewsExclude'
  BY <1>1 DEF ReviewInv, ReviewsExclude, WritesFollowSubmission, Reviewing
<1> QED BY <1>2, <1>3, <1>4, <1>5 DEF ReviewInv

LEMMA DraftInv ==
    ASSUME ReviewInv, NEW m \in Merchants,
           SaveMerchantSetupDraft(m)
    PROVE  ReviewInv'
<1>1. profile[m] \in Profile /\ Coherent(profile[m])
  BY DEF ReviewInv, TypeOK, FieldsMatchStatus
<1> DEFINE new == Drafted(profile[m])
<1>2. /\ new \in Profile
      /\ Coherent(new)
      /\ new.submittedAt = profile[m].submittedAt
      /\ profile[m].status = "underReview" => new.status = "underReview"
  BY <1>1, DraftedFacts
<1>3. /\ profile' = [profile EXCEPT ![m] = new]
      /\ UNCHANGED <<pc, subject, reviewer, verdict, contested>>
  BY DEF SaveMerchantSetupDraft, locals
<1> HIDE DEF new
<1> QED BY <1>2, <1>3, ProfileStep

LEMMA SubmitInv ==
    ASSUME ReviewInv, NEW m \in Merchants,
           SubmitMerchantApplication(m)
    PROVE  ReviewInv'
<1>1. profile[m] \in Profile
  BY DEF ReviewInv, TypeOK
<1> DEFINE new == Submitted(profile[m])
<1>2. /\ new \in Profile
      /\ Coherent(new)
      /\ new.submittedAt
      /\ new.status = "underReview"
  BY <1>1, SubmittedFacts
<1>3. /\ profile' = [profile EXCEPT ![m] = new]
      /\ UNCHANGED <<pc, subject, reviewer, verdict, contested>>
  BY DEF SubmitMerchantApplication, locals
<1> HIDE DEF new
<1> QED BY <1>2, <1>3, ProfileStep

\* An application stops being contested only when nobody else holds it.
LEMMA LetGoFacts ==
    ASSUME NEW v \in Reviews, LetGo(v)
    PROVE  /\ contested' \subseteq contested
           /\ \A w \in Reviews \ {v} : pc[w] = "write" =>
                (subject[w] \notin contested' => subject[w] \notin contested)
BY DEF LetGo, Reviewing

\* A review refused before it begins, or one that ends without writing.
LEMMA EndReviewInv ==
    ASSUME ReviewInv, NEW v \in Reviews, pc' = [pc EXCEPT ![v] = "failed"],
           UNCHANGED <<profile, locals>>,
           LetGo(v) \/ UNCHANGED contested
    PROVE  ReviewInv'
<1>1. \A w \in Reviews : pc'[w] = "write" => w # v /\ pc[w] = "write"
  BY DEF ReviewInv, TypeOK
<1>2. /\ contested' \subseteq contested
      /\ \A w \in Reviews \ {v} : pc[w] = "write" =>
            (subject[w] \notin contested' => subject[w] \notin contested)
  BY LetGoFacts
<1>3. TypeOK' /\ FieldsMatchStatus'
  BY <1>2 DEF ReviewInv, TypeOK, FieldsMatchStatus, locals, PC
<1>4. WritesFollowSubmission'
  BY <1>1 DEF ReviewInv, WritesFollowSubmission, locals
<1>5. ReviewsExclude'
  BY <1>1, <1>2 DEF ReviewInv, ReviewsExclude, Reviewing, locals
<1> QED BY <1>3, <1>4, <1>5 DEF ReviewInv

LEMMA BeginReviewInv ==
    ASSUME ReviewInv, NEW v \in Reviews, NEW m \in Merchants,
           NEW admin \in Admins, NEW d \in Decided,
           BeginReview(v, m, admin, d)
    PROVE  ReviewInv'
<1>1. /\ profile[m].status = "underReview"
      /\ profile[m].submittedAt
  BY DEF BeginReview, ReviewInv, FieldsMatchStatus, Coherent
<1>2. /\ pc'[v] = "write"
      /\ subject'[v] = m
      /\ reviewer'[v] = admin
      /\ \A w \in Reviews \ {v} : /\ pc'[w] = pc[w]
                                  /\ subject'[w] = subject[w]
                                  /\ reviewer'[w] = reviewer[w]
      /\ profile' = profile
      /\ contested' = IF \E w \in Reviews : Reviewing(w, m)
                      THEN contested \cup {m} ELSE contested
      /\ pc[v] = "idle"
  BY DEF BeginReview, ReviewInv, TypeOK
<1>3. TypeOK' /\ FieldsMatchStatus'
  BY <1>2 DEF BeginReview, ReviewInv, TypeOK, FieldsMatchStatus, PC
<1>4. WritesFollowSubmission'
  BY <1>1, <1>2 DEF ReviewInv, WritesFollowSubmission
<1>5. ReviewsExclude'
  <2>1. m \notin contested' => \A w \in Reviews : ~Reviewing(w, m)
    BY <1>2
  <2>2. contested \subseteq contested'
    BY <1>2
  <2> QED BY <1>1, <1>2, <2>1, <2>2
          DEF ReviewInv, ReviewsExclude, Reviewing
<1> QED BY <1>3, <1>4, <1>5 DEF ReviewInv

LEMMA WriteReviewInv ==
    ASSUME ReviewInv, NEW v \in Reviews, WriteReview(v)
    PROVE  ReviewInv'
<1> DEFINE m == subject[v]
           new == Reviewed(profile[m], reviewer[v], verdict[v])
<1>1. /\ pc[v] = "write"
      /\ m \in Merchants
      /\ reviewer[v] \in Admins
      /\ profile[m].submittedAt
  BY DEF WriteReview, ReviewInv, WritesFollowSubmission
<1>2. profile[m] \in Profile /\ verdict[v] \in Decided
  BY <1>1 DEF ReviewInv, TypeOK
<1>3. /\ new \in Profile
      /\ new.submittedAt
      /\ Coherent(new)
  BY <1>1, <1>2, ReviewedFacts
<1>4. /\ profile' = [profile EXCEPT ![m] = new]
      /\ pc' = [pc EXCEPT ![v] = "done"]
      /\ UNCHANGED <<subject, reviewer, verdict>>
      /\ LetGo(v)
  BY DEF WriteReview, locals
<1> HIDE DEF new
<1>5. /\ profile'[m] = new
      /\ \A n \in Merchants \ {m} : profile'[n] = profile[n]
      /\ \A w \in Reviews : pc'[w] = "write" => w # v /\ pc[w] = "write"
  BY <1>1, <1>4 DEF ReviewInv, TypeOK
<1>6. TypeOK'
  <2>1. contested' \subseteq contested
    BY <1>4, LetGoFacts
  <2> QED BY <1>1, <1>3, <1>4, <2>1 DEF ReviewInv, TypeOK, PC
<1>7. FieldsMatchStatus'
  BY <1>3, <1>5 DEF ReviewInv, FieldsMatchStatus
<1>8. WritesFollowSubmission'
  BY <1>3, <1>4, <1>5 DEF ReviewInv, WritesFollowSubmission
<1>9. ReviewsExclude'
  <2>1. \A w \in Reviews \ {v} : pc[w] = "write" =>
            (subject[w] \notin contested' => subject[w] \notin contested)
    BY <1>4, LetGoFacts
  <2> QED BY <1>1, <1>4, <1>5, <2>1
          DEF ReviewInv, ReviewsExclude, WritesFollowSubmission, Reviewing
<1> QED BY <1>6, <1>7, <1>8, <1>9 DEF ReviewInv

\* Every step preserves the inductive invariant.
LEMMA NextReview == ReviewInv /\ [Next]_vars => ReviewInv'
<1> SUFFICES ASSUME ReviewInv, [Next]_vars PROVE ReviewInv'
  OBVIOUS
<1>1. CASE \E m \in Merchants :
                \/ SaveMerchantSetupDraft(m)
                \/ SubmitMerchantApplication(m)
  BY <1>1, DraftInv, SubmitInv
<1>2. CASE \E v \in Reviews, m \in Merchants, decision \in Decided,
              namesSomething \in BOOLEAN :
                RefuseReview(v, m, decision, namesSomething)
  BY <1>2, EndReviewInv DEF RefuseReview
<1>3. CASE \E v \in Reviews, m \in Merchants, admin \in Admins, d \in Decided :
                BeginReview(v, m, admin, d)
  BY <1>3, BeginReviewInv
<1>4. CASE \E v \in Reviews : WriteReview(v)
  BY <1>4, WriteReviewInv
<1>5. CASE \E v \in Reviews : Abort(v)
  BY <1>5, EndReviewInv DEF Abort
<1>6. CASE UNCHANGED vars
  BY <1>6 DEF vars, locals, ReviewInv, TypeOK, FieldsMatchStatus, Coherent,
     WritesFollowSubmission, ReviewsExclude, Reviewing
<1> QED BY <1>1, <1>2, <1>3, <1>4, <1>5, <1>6 DEF Next

-----------------------------------------------------------------------------
\* The inductive invariant holds in every reachable state.
THEOREM ReviewInvariant == Spec => []ReviewInv
<1>1. Init => ReviewInv
  BY InitReview
<1>2. ReviewInv /\ [Next]_vars => ReviewInv'
  BY NextReview
<1> QED BY <1>1, <1>2, PTL DEF Spec

\* Whatever reviews and submissions interleave, the dates, the reviewer and
\* the rejection of an application agree with its status.
THEOREM ApplicationsAreCoherent == Spec => []FieldsMatchStatus
<1>1. ReviewInv => FieldsMatchStatus
  BY DEF ReviewInv
<1> QED BY <1>1, ReviewInvariant, PTL

\* A verdict is only ever written on an application that was submitted, in any
\* order of drafts, submissions and reviews.
THEOREM VerdictsFollowSubmission == Spec => []WritesFollowSubmission
<1>1. ReviewInv => WritesFollowSubmission
  BY DEF ReviewInv
<1> QED BY <1>1, ReviewInvariant, PTL

-----------------------------------------------------------------------------
(* Refinement.                                                             *)

StatusMap == [m \in Merchants |-> profile[m].status]

\* Updating one application updates one abstract status.
LEMMA StatusMapStep ==
    ASSUME TypeOK, NEW m \in Merchants, NEW new,
           profile' = [profile EXCEPT ![m] = new]
    PROVE  StatusMap' = [StatusMap EXCEPT ![m] = new.status]
<1>1. profile \in [Merchants -> Profile]
  BY DEF TypeOK
<1> QED BY <1>1 DEF StatusMap

\* A step that leaves the applications alone is an abstract stutter.
LEMMA StatusMapStutter ==
    ASSUME UNCHANGED profile PROVE StatusMap' = StatusMap
BY DEF StatusMap

\* Initial states are initial states of the lifecycle.
LEMMA InitRefines == Init => Lifecycle!Init
<1> SUFFICES ASSUME Init PROVE Lifecycle!Init
  OBVIOUS
<1>1. \A m \in Merchants : profile[m].status \in {"none", "draft"}
  <2> SUFFICES ASSUME NEW m \in Merchants
               PROVE  profile[m].status \in {"none", "draft"}
    OBVIOUS
  <2>1. profile[m] = Registered("none") \/ profile[m] = Registered("draft")
    BY DEF Init
  <2> QED BY <2>1 DEF Registered
<1> QED BY <1>1 DEF Init, Lifecycle!Init, Lifecycle!Undecided

\* A step of a handler is a step of the lifecycle, or a stutter.
LEMMA NextRefines ==
    ASSUME ReviewInv, Next
    PROVE  Lifecycle!Next \/ UNCHANGED <<StatusMap, contested>>
<1>1. TypeOK
  BY DEF ReviewInv
<1>2. ASSUME NEW m \in Merchants,
             SaveMerchantSetupDraft(m)
      PROVE  Lifecycle!StartDraft(m) \/ UNCHANGED <<StatusMap, contested>>
  <2> DEFINE new == Drafted(profile[m])
  <2>1. profile[m] \in Profile /\ Coherent(profile[m])
    BY DEF ReviewInv, TypeOK, FieldsMatchStatus
  <2>2. new.status = IF profile[m].status = "none" THEN "draft"
                     ELSE profile[m].status
    BY <2>1, DraftedFacts
  <2>3. profile' = [profile EXCEPT ![m] = new] /\ UNCHANGED contested
    BY <1>2 DEF SaveMerchantSetupDraft
  <2> HIDE DEF new
  <2>4. StatusMap' = [StatusMap EXCEPT ![m] = new.status]
    BY <1>1, <2>3, StatusMapStep
  <2>5. StatusMap[m] = profile[m].status
    BY DEF StatusMap
  <2>6. CASE profile[m].status = "none"
    BY <2>2, <2>3, <2>4, <2>5, <2>6 DEF Lifecycle!StartDraft, StatusMap
  <2>7. CASE profile[m].status # "none"
    BY <2>2, <2>3, <2>4, <2>5, <2>7 DEF StatusMap
  <2> QED BY <2>6, <2>7
<1>3. ASSUME NEW m \in Merchants,
             SubmitMerchantApplication(m)
      PROVE  Lifecycle!Submit(m)
  <2> DEFINE new == Submitted(profile[m])
  <2>1. new.status = "underReview"
    BY SubmittedFacts DEF ReviewInv, TypeOK
  <2>2. profile' = [profile EXCEPT ![m] = new] /\ UNCHANGED contested
    BY <1>3 DEF SubmitMerchantApplication
  <2> HIDE DEF new
  <2>3. StatusMap' = [StatusMap EXCEPT ![m] = new.status]
    BY <1>1, <2>2, StatusMapStep
  <2> QED BY <2>1, <2>2, <2>3 DEF Lifecycle!Submit, StatusMap
<1>4. ASSUME NEW v \in Reviews, WriteReview(v)
      PROVE  \E m \in Merchants : Lifecycle!Decide(m)
  <2>1. /\ pc[v] = "write"
        /\ subject[v] \in Merchants
        /\ reviewer[v] \in Admins
        /\ profile[subject[v]].submittedAt
    BY <1>4 DEF WriteReview, ReviewInv, WritesFollowSubmission
  <2>2. PICK m \in Merchants : m = subject[v]
    BY <2>1
  <2> DEFINE new == Reviewed(profile[m], reviewer[v], verdict[v])
  <2>3. /\ profile[m] \in Profile
        /\ Coherent(profile[m])
        /\ profile[m].submittedAt
        /\ verdict[v] \in Decided
    BY <2>1, <2>2 DEF ReviewInv, TypeOK, FieldsMatchStatus
  <2>4. new.status = verdict[v]
    BY <2>1, <2>3, ReviewedFacts
  <2>5. profile' = [profile EXCEPT ![m] = new]
    BY <1>4, <2>2 DEF WriteReview
  <2> HIDE DEF new
  <2>6. StatusMap' = [StatusMap EXCEPT ![m] = new.status]
    BY <1>1, <2>5, StatusMapStep
  <2>7. StatusMap' = [StatusMap EXCEPT ![m] = verdict[v]]
    BY <2>4, <2>6
  <2>8. profile[m].status \in {"underReview", "approved", "rejected"}
    BY <2>3 DEF Coherent
  <2>9. m \notin contested => profile[m].status = "underReview"
    BY <2>1, <2>2 DEF ReviewInv, ReviewsExclude
  <2>10. StatusMap[m] = profile[m].status
    BY DEF StatusMap
  <2>11. contested' \in {contested, contested \ {m}}
    BY <1>4, <2>2 DEF WriteReview, LetGo
  <2>12. Lifecycle!Decide(m)
    BY <2>3, <2>7, <2>8, <2>9, <2>10, <2>11
       DEF Lifecycle!Decide, Lifecycle!Decided, Decided, StatusMap
  <2> QED BY <2>12
<1>5. CASE \E v \in Reviews, m \in Merchants, decision \in Decided,
              namesSomething \in BOOLEAN :
                RefuseReview(v, m, decision, namesSomething)
  BY <1>5, StatusMapStutter DEF RefuseReview
<1>6. ASSUME NEW v \in Reviews, NEW m \in Merchants, NEW admin \in Admins,
             NEW d \in Decided, BeginReview(v, m, admin, d)
      PROVE  Lifecycle!Contest(m) \/ UNCHANGED <<StatusMap, contested>>
  <2>1. UNCHANGED StatusMap
    BY <1>6, StatusMapStutter DEF BeginReview
  <2>2. StatusMap[m] = "underReview"
    BY <1>6 DEF BeginReview, StatusMap
  <2>3. contested' = contested \cup {m} \/ UNCHANGED contested
    BY <1>6 DEF BeginReview
  <2> QED BY <2>1, <2>2, <2>3 DEF Lifecycle!Contest, StatusMap
<1>7. ASSUME NEW v \in Reviews, Abort(v)
      PROVE  \/ \E m \in Merchants : Lifecycle!Settle(m)
             \/ UNCHANGED <<StatusMap, contested>>
  <2>1. PICK m \in Merchants : m = subject[v]
    BY <1>7 DEF Abort, ReviewInv, WritesFollowSubmission
  <2>2. UNCHANGED StatusMap
    BY <1>7, StatusMapStutter DEF Abort
  <2>3. contested' = contested \ {m} \/ UNCHANGED contested
    BY <1>7, <2>1 DEF Abort, LetGo
  <2> QED BY <2>2, <2>3 DEF Lifecycle!Settle, StatusMap
<1> QED BY <1>2, <1>3, <1>4, <1>5, <1>6, <1>7 DEF Next, Lifecycle!Next

\* The handlers implement the lifecycle: a draft is never decided, and a
\* verdict replaces another only while several reviews hold the application.
THEOREM OnboardingRefinesLifecycle == Spec => ImplementsLifecycle
<1>1. Init => Lifecycle!Init
  BY InitRefines
<1>2. ReviewInv /\ [Next]_vars => [Lifecycle!Next]_<<StatusMap, contested>>
  <2> SUFFICES ASSUME ReviewInv, [Next]_vars
               PROVE  Lifecycle!Next \/ UNCHANGED <<StatusMap, contested>>
    OBVIOUS
  <2>1. CASE Next
    BY <2>1, NextRefines
  <2>2. CASE UNCHANGED vars
    BY <2>2, StatusMapStutter DEF vars
  <2> QED BY <2>1, <2>2
<1>3. ReviewInv /\ [Next]_vars
        => [Lifecycle!Next]_<<[m \in Merchants |-> profile[m].status],
                              contested>>
  BY <1>2 DEF StatusMap
<1> QED BY <1>1, <1>3, ReviewInvariant, PTL
        DEF Spec, ImplementsLifecycle, Lifecycle!Spec

-----------------------------------------------------------------------------
(* The page.                                                               *)

\* Requests i of one kind, and those after which none of that kind was sent.
OfKind(kind) == {i \in DOMAIN http : http[i].kind = kind}

Latest(kind, i) == i \in OfKind(kind) /\ \A j \in OfKind(kind) : j <= i

\* A list that ListIsCurrent lets the page show.
ListFits(listing) ==
    /\ \A m \in listing : since[m] \cap Through(filter) # {}
    /\ \A m \in Merchants \ listing : ~(since[m] \subseteq Through(filter))

\* Requests are served in the order sent.
ServedInOrder ==
    \A i, j \in DOMAIN http :
        i < j /\ http[i].answer = None => http[j].answer = None

\* The list that was asked for last is the one of the chosen filter, and once
\* it is the last to arrive the page shows it.
ListsFit ==
    /\ loading => OfKind("list") # {}
    /\ \A i \in OfKind("list") : Latest("list", i) =>
            /\ http[i].about = filter
            /\ http[i].answer # None => ListFits(http[i].answer)
    /\ OfKind("list") = {} => ListFits(merchants)

\* Unless the list is still to arrive, the details asked for last are those of
\* the selected merchant, and they are as read since the list was asked for.
DetailsFit ==
    /\ \A i \in OfKind("detail") :
            http[i].answer # None /\ (\A j \in OfKind("list") : j < i) =>
                http[i].answer \in since[http[i].about]
    /\ OfKind("list") = {} /\ selectedId # NoMerchant =>
        /\ \A i \in OfKind("detail") :
                Latest("detail", i) => http[i].about = selectedId
        /\ OfKind("detail") = {} =>
            /\ detail # NoMerchant
            /\ detail.merchant = selectedId
            /\ detail.status \in since[selectedId]

\* Each status of an application since the list was asked for is remembered.
StatusesKept == \A m \in Merchants : profile[m].status \in since[m]

\* What holds while the requests keep their order.
InOrder == ServedInOrder /\ StatusesKept /\ ListsFit /\ DetailsFit

\* The inductive invariant of the page.
PageInv ==
    /\ ReviewInv
    /\ ConsoleTypeOK
    /\ ~disturbed => InOrder

-----------------------------------------------------------------------------
(* The page's requests.                                                    *)

\* What RemoveAt leaves of a sequence.
LEMMA RestFacts ==
    ASSUME NEW S, NEW s \in Seq(S), NEW i \in 1 .. Len(s)
    PROVE  /\ RemoveAt(s, i) \in Seq(S)
           /\ Len(RemoveAt(s, i)) = Len(s) - 1
           /\ \A k \in 1 .. (Len(s) - 1) :
                RemoveAt(s, i)[k] = IF k < i THEN s[k] ELSE s[k + 1]
<1> DEFINE a == SubSeq(s, 1, i - 1)
           b == SubSeq(s, i + 1, Len(s))
<1>0. Len(s) \in Nat /\ i \in Nat /\ i >= 1 /\ i <= Len(s)
  OBVIOUS
<1>1. /\ a \in Seq(S) /\ Len(a) = i - 1
      /\ \A k \in 1 .. (i - 1) : a[k] = s[k]
  OBVIOUS
<1>2. /\ b \in Seq(S) /\ Len(b) = Len(s) - i
      /\ \A k \in 1 .. (Len(s) - i) : b[k] = s[i + k]
  OBVIOUS
<1> HIDE DEF a, b
<1> DEFINE r == RemoveAt(s, i)
<1>3. /\ r \in Seq(S) /\ Len(r) = Len(a) + Len(b)
      /\ \A k \in 1 .. Len(a) + Len(b) :
            r[k] = IF k <= Len(a) THEN a[k] ELSE b[k - Len(a)]
  <2>1. r = a \o b
    BY DEF RemoveAt, a, b
  <2> HIDE DEF r
  <2> QED BY <1>1, <1>2, <2>1, ConcatProperties
<1> HIDE DEF r
<1>4. ASSUME NEW k \in 1 .. (Len(s) - 1)
      PROVE  r[k] = IF k < i THEN s[k] ELSE s[k + 1]
  <2>1. k \in 1 .. Len(a) + Len(b)
    BY <1>0, <1>1, <1>2
  <2>2. CASE k < i
    BY <1>0, <1>1, <1>3, <2>1, <2>2
  <2>3. CASE k >= i
    <3>1. k - Len(a) = k - i + 1
      BY <1>0, <1>1, <2>3
    <3>4. r[k] = b[k - Len(a)]
      <4>1. ~(k <= Len(a))
        BY <1>0, <1>1, <2>3
      <4> QED BY <1>3, <2>1, <4>1
    <3>2. k - i + 1 \in 1 .. (Len(s) - i) /\ i + (k - i + 1) = k + 1
      BY <1>0, <2>3
    <3>3. b[k - i + 1] = s[i + (k - i + 1)]
      BY <1>2, <3>2
    <3> QED BY <1>0, <2>3, <3>1, <3>2, <3>3, <3>4
  <2> QED BY <1>0, <2>2, <2>3
<1>5. Len(r) = Len(s) - 1
  BY <1>0, <1>1, <1>2, <1>3
<1> QED BY <1>3, <1>4, <1>5 DEF r

LEMMA RestOfHttp ==
    ASSUME http \in Seq(Request), NEW i \in DOMAIN http
    PROVE  /\ Rest(i) \in Seq(Request)
           /\ Len(Rest(i)) = Len(http) - 1
           /\ i = 1 => \A k \in 1 .. (Len(http) - 1) :
                            Rest(i)[k] = http[k + 1]
<1>1. i \in 1 .. Len(http)
  OBVIOUS
<1>2. /\ RemoveAt(http, i) \in Seq(Request)
      /\ Len(RemoveAt(http, i)) = Len(http) - 1
      /\ \A k \in 1 .. (Len(http) - 1) :
            RemoveAt(http, i)[k] = IF k < i THEN http[k] ELSE http[k + 1]
  BY <1>1, RestFacts
<1> QED BY <1>2 DEF Rest

\* A request is sent after those that are pending.
LEMMA SendFacts ==
    ASSUME NEW pending \in Seq(Request), NEW kind, NEW about,
           New(kind, about) \in Request, Send(kind, about, pending)
    PROVE  /\ http' \in Seq(Request)
           /\ Len(http') = Len(pending) + 1
           /\ Len(http') <= MaxInFlight
           /\ \A k \in 1 .. Len(pending) : http'[k] = pending[k]
           /\ http'[Len(pending) + 1].kind = kind
           /\ http'[Len(pending) + 1].about = about
           /\ http'[Len(pending) + 1].answer = None
<1> DEFINE r == New(kind, about)
<1>1. r.kind = kind /\ r.about = about /\ r.answer = None
  BY DEF New
<1>2. Len(pending) < MaxInFlight /\ http' = Append(pending, r)
  BY DEF Send
<1>3. r \in Request
  OBVIOUS
<1> HIDE DEF r
<1>4. Len(pending) + 1 <= MaxInFlight
  BY <1>2, MaxInFlightAssumption
<1> QED BY <1>1, <1>2, <1>3, <1>4

\* What the page may ask for.
LEMMA NewRequests ==
    /\ \A option \in Filters : New("list", option) \in Request
    /\ \A m \in Merchants : New("detail", m) \in Request
    /\ \A decision \in Decided, m \in Merchants : New(decision, m) \in Request
<1>1. \A option \in Filters : New("list", option) \in Request
  BY DEF New, Request
<1>2. \A m \in Merchants : New("detail", m) \in Request
  BY DEF New, Request
<1>3. \A decision \in Decided, m \in Merchants : New(decision, m) \in Request
  BY DEF New, Request
<1> QED BY <1>1, <1>2, <1>3

\* An answer stays with its request.
LEMMA AnswerFacts ==
    ASSUME http \in Seq(Request), NEW i \in DOMAIN http, NEW answer,
           [http[i] EXCEPT !.answer = answer] \in Request, Answer(i, answer)
    PROVE  /\ http' \in Seq(Request)
           /\ Len(http') = Len(http)
           /\ \A k \in DOMAIN http :
                /\ http'[k].kind = http[k].kind
                /\ http'[k].about = http[k].about
                /\ http'[k].answer = IF k = i THEN answer ELSE http[k].answer
<1> DEFINE r == [http[i] EXCEPT !.answer = answer]
<1>1. http[i] \in Request
  OBVIOUS
<1>2. r.kind = http[i].kind /\ r.about = http[i].about /\ r.answer = answer
  BY <1>1 DEF Request
<1>3. http' = [http EXCEPT ![i] = r]
  BY DEF Answer
<1>4. r \in Request
  OBVIOUS
<1> HIDE DEF r
<1>5. /\ http' \in Seq(Request)
      /\ Len(http') = Len(http)
      /\ \A k \in DOMAIN http : http'[k] = IF k = i THEN r ELSE http[k]
  BY <1>3, <1>4, ExceptSeq
<1> QED BY <1>2, <1>5

\* Which answer a request may get.
LEMMA AnswersFit ==
    ASSUME NEW r \in Request, NEW answer,
           \/ r.kind = "list" /\ answer \in SUBSET Merchants
           \/ r.kind = "detail" /\ answer \in Status
           \/ r.kind \in Decided /\ answer \in Reviews
    PROVE  [r EXCEPT !.answer = answer] \in Request
<1> DEFINE a == answer
           new == [kind |-> r.kind, about |-> r.about, answer |-> answer]
<1>1. [r EXCEPT !.answer = answer] = new
  BY DEF Request
<1>2. CASE r.kind = "list" /\ answer \in SUBSET Merchants
  <2>1. r.about \in Filters
    BY <1>2 DEF Request, Decided
  <2> QED BY <1>1, <1>2, <2>1 DEF Request
<1>3. CASE r.kind = "detail" /\ answer \in Status
  <2>1. r.about \in Merchants
    BY <1>3 DEF Request, Decided
  <2> QED BY <1>1, <1>3, <2>1 DEF Request
<1>4. CASE r.kind \in Decided /\ answer \in Reviews
  <2>1. r.about \in Merchants
    BY <1>4 DEF Request, Decided
  <2> QED BY <1>1, <1>4, <2>1 DEF Request
<1> QED BY <1>2, <1>3, <1>4

\* What the requests of each kind are about, and their answers.
LEMMA RequestFacts ==
    ASSUME NEW r \in Request
    PROVE  /\ r.kind \in {"list", "detail"} \cup Decided
           /\ r.kind = "list" => /\ r.about \in Filters
                                 /\ r.answer \in (SUBSET Merchants) \cup {None}
           /\ r.kind = "detail" => /\ r.about \in Merchants
                                   /\ r.answer \in Status \cup {None}
           /\ r.kind \in Decided => /\ r.about \in Merchants
                                    /\ r.answer \in Reviews \cup {None}
BY DEF Request, Decided

-----------------------------------------------------------------------------
(* Types.                                                                  *)

LEMMA StatusesFacts ==
    ASSUME TypeOK
    PROVE  /\ Statuses \in [Merchants -> SUBSET Status]
           /\ \A m \in Merchants : /\ profile[m].status \in Status
                                   /\ Statuses[m] = {profile[m].status}
BY DEF Statuses, TypeOK, Profile

LEMMA InitConsoleType == ConsoleInit => ConsoleTypeOK
<1> SUFFICES ASSUME ConsoleInit PROVE ConsoleTypeOK
  OBVIOUS
<1>1. TypeOK
  BY InitReview DEF ConsoleInit, ReviewInv
<1>2. since \in [Merchants -> SUBSET Status]
  BY <1>1, StatusesFacts DEF ConsoleInit
<1>3. http \in Seq(Request) /\ Len(http) = 1
  BY FiltersAssumption, NewRequests DEF ConsoleInit
<1>4. filter \in Filters /\ merchants \subseteq Merchants
  BY FiltersAssumption DEF ConsoleInit
<1>5. /\ loading \in BOOLEAN /\ disturbed \in BOOLEAN
      /\ selectedId = NoMerchant /\ detail = NoMerchant
  BY DEF ConsoleInit
<1>6. Len(http) <= MaxInFlight
  BY <1>3, MaxInFlightAssumption
<1> QED BY <1>1, <1>2, <1>3, <1>4, <1>5, <1>6 DEF ConsoleTypeOK

\* What the network steps do to the page's own state, but for ListArrives.
LEMMA RecordType ==
    ASSUME ConsoleTypeOK, NEW disturbs \in BOOLEAN,
           NEW statuses \in [Merchants -> SUBSET Status],
           Record(disturbs, statuses)
    PROVE  disturbed' \in BOOLEAN /\ since' \in [Merchants -> SUBSET Status]
BY DEF Record

LEMMA OperateType ==
    ASSUME ConsoleTypeOK, Operate
    PROVE  ConsoleTypeOK'
<1>1. /\ http \in Seq(Request) /\ Len(http) <= MaxInFlight
      /\ TypeOK /\ disturbed \in BOOLEAN
      /\ since \in [Merchants -> SUBSET Status]
  BY DEF ConsoleTypeOK
<1>2. ASSUME NEW option \in Filters, ChooseFilter(option)
      PROVE  ConsoleTypeOK'
  <2>1. http' \in Seq(Request) /\ Len(http') <= MaxInFlight
    BY <1>1, <1>2, NewRequests, SendFacts DEF ChooseFilter, LoadMerchants
  <2>2. disturbed' \in BOOLEAN /\ since' \in [Merchants -> SUBSET Status]
    BY <1>1, <1>2, StatusesFacts, RecordType DEF ChooseFilter
  <2> QED BY <1>2, <2>1, <2>2
          DEF ConsoleTypeOK, ChooseFilter, LoadMerchants, vars, TypeOK
<1>3. ASSUME NEW m \in Merchants, Click(m)
      PROVE  ConsoleTypeOK'
  <2>1. http' \in Seq(Request) /\ Len(http') <= MaxInFlight
    BY <1>1, <1>3, NewRequests, SendFacts DEF Click, SelectMerchant
  <2> QED BY <1>1, <1>3, <2>1
          DEF ConsoleTypeOK, Click, SelectMerchant, vars, TypeOK
<1>4. ASSUME NEW decision \in Decided, Decide(decision)
      PROVE  ConsoleTypeOK'
  <2>1. detail.merchant \in Merchants
    BY <1>4 DEF Decide, ConsoleTypeOK, Detail
  <2>2. http' \in Seq(Request) /\ Len(http') <= MaxInFlight
    BY <1>1, <1>4, <2>1, NewRequests, SendFacts DEF Decide
  <2> QED BY <1>1, <1>4, <2>2 DEF ConsoleTypeOK, Decide, vars, view, TypeOK
<1> QED BY <1>2, <1>3, <1>4 DEF Operate

\* A review taken up for the page, or refused to it, is one of the handlers'.
LEMMA VerdictIsStep ==
    ASSUME ConsoleTypeOK, NEW i \in DOMAIN http, NEW v \in Reviews,
           ServeVerdict(i, v)
    PROVE  Next
<1> DEFINE m == http[i].about
           decision == http[i].kind
<1>1. decision \in Decided
  BY DEF ServeVerdict
<1>2. m \in Merchants
  <2>1. http[i] \in Request
    BY DEF ConsoleTypeOK
  <2> QED BY <1>1, <2>1, RequestFacts
<1>3. \/ RefuseReview(v, m, decision, TRUE)
      \/ BeginReview(v, m, Operator, decision)
  BY DEF ServeVerdict
<1> HIDE DEF m, decision
<1>4. CASE RefuseReview(v, m, decision, TRUE)
  BY <1>1, <1>2, <1>4 DEF Next
<1>5. CASE BeginReview(v, m, Operator, decision)
  BY <1>1, <1>2, <1>5, OperatorAssumption DEF Next
<1> QED BY <1>3, <1>4, <1>5

\* A step of the handlers, of the page or of its requests is one of the
\* handlers, or leaves the applications and the reviews alone.
LEMMA ConsoleStepIsStep ==
    ASSUME ConsoleTypeOK, [ConsoleNext]_consoleVars
    PROVE  [Next]_vars
<1>1. CASE Others
  BY <1>1 DEF Others
<1>2. CASE Operate
  BY <1>2 DEF Operate, ChooseFilter, Click, Decide
<1>3. ASSUME NEW i \in DOMAIN http,
             \/ ServeRead(i) \/ ListArrives(i) \/ DetailArrives(i)
             \/ VerdictArrives(i) \/ VerdictRefused(i) \/ RequestFails(i)
      PROVE  UNCHANGED vars
  BY <1>3 DEF ServeRead, ListArrives, DetailArrives, VerdictArrives,
              VerdictRefused, RequestFails
<1>4. ASSUME NEW i \in DOMAIN http, NEW v \in Reviews, ServeVerdict(i, v)
      PROVE  Next
  BY <1>4, VerdictIsStep
<1>5. CASE UNCHANGED consoleVars
  BY <1>5 DEF consoleVars
<1> QED BY <1>1, <1>2, <1>3, <1>4, <1>5 DEF ConsoleNext, Network

\* The page's requests, when they are served.
LEMMA ServeType ==
    ASSUME ConsoleTypeOK, TypeOK', NEW i \in DOMAIN http,
           ServeRead(i) \/ \E v \in Reviews : ServeVerdict(i, v)
    PROVE  ConsoleTypeOK'
<1>1. /\ http \in Seq(Request) /\ Len(http) <= MaxInFlight
      /\ http[i] \in Request
      /\ TypeOK /\ disturbed \in BOOLEAN
      /\ since \in [Merchants -> SUBSET Status]
  BY DEF ConsoleTypeOK
<1>2. ASSUME NEW answer, Answer(i, answer), UNCHANGED view,
             \/ http[i].kind = "list" /\ answer \in SUBSET Merchants
             \/ http[i].kind = "detail" /\ answer \in Status
             \/ http[i].kind \in Decided /\ answer \in Reviews
      PROVE  ConsoleTypeOK'
  <2>1. [http[i] EXCEPT !.answer = answer] \in Request
    BY <1>1, <1>2, AnswersFit
  <2>2. http' \in Seq(Request) /\ Len(http') <= MaxInFlight
    BY <1>1, <1>2, <2>1, AnswerFacts
  <2>3. disturbed' \in BOOLEAN /\ since' \in [Merchants -> SUBSET Status]
    <3>1. Record(disturbed \/ Overtakes(i), since)
      BY <1>2 DEF Answer
    <3>2. (disturbed \/ Overtakes(i)) \in BOOLEAN
      BY DEF Overtakes
    <3> QED BY <1>1, <3>1, <3>2, RecordType
  <2> QED BY <1>2, <2>2, <2>3 DEF ConsoleTypeOK, view
<1>3. CASE ServeRead(i)
  <2>1. UNCHANGED view
    BY <1>3 DEF ServeRead
  <2>2. CASE http[i].kind = "list" /\ Answer(i, {m \in Merchants :
                                                Listed(http[i].about, m)})
    BY <1>2, <2>1, <2>2
  <2>3. CASE http[i].kind = "detail" /\ Answer(i, profile[http[i].about].status)
    <3>1. profile[http[i].about].status \in Status
      BY <1>1, <2>3, RequestFacts, StatusesFacts
    <3> QED BY <1>2, <2>1, <2>3, <3>1
  <2> QED BY <1>3, <2>2, <2>3 DEF ServeRead
<1>4. ASSUME NEW v \in Reviews, ServeVerdict(i, v)
      PROVE  ConsoleTypeOK'
  BY <1>2, <1>4 DEF ServeVerdict
<1> QED BY <1>3, <1>4

\* The page's requests, when they arrive or fail.
LEMMA ArriveType ==
    ASSUME ConsoleTypeOK, NEW i \in DOMAIN http,
           \/ ListArrives(i) \/ DetailArrives(i) \/ VerdictArrives(i)
           \/ VerdictRefused(i) \/ RequestFails(i)
    PROVE  ConsoleTypeOK'
<1>1. /\ http \in Seq(Request) /\ Len(http) <= MaxInFlight
      /\ http[i] \in Request
      /\ TypeOK /\ disturbed \in BOOLEAN
      /\ since \in [Merchants -> SUBSET Status]
      /\ filter \in Filters
      /\ i \in 1 .. Len(http)
  BY DEF ConsoleTypeOK
<1>2. /\ Rest(i) \in Seq(Request)
      /\ Len(Rest(i)) <= MaxInFlight
  BY <1>1, RestOfHttp, MaxInFlightAssumption
<1>3. disturbed' \in BOOLEAN /\ since' \in [Merchants -> SUBSET Status]
  <2>1. \E disturbs \in BOOLEAN, statuses \in {since, Statuses} :
            Record(disturbs, statuses)
    <3>1. (disturbed \/ i > 1) \in BOOLEAN /\ TRUE \in BOOLEAN
      OBVIOUS
    <3>2. CASE RequestFails(i)
      BY <3>1, <3>2 DEF RequestFails
    <3>3. CASE ~RequestFails(i)
      <4>1. \/ Record(disturbed \/ i > 1, since)
            \/ Record(disturbed \/ i > 1, Statuses)
        BY <3>3 DEF ListArrives, DetailArrives, VerdictArrives, VerdictRefused
      <4> QED BY <3>1, <4>1
    <3> QED BY <3>2, <3>3
  <2> QED BY <1>1, <2>1, StatusesFacts, RecordType
<1>4. TypeOK'
  <2>1. UNCHANGED vars
    BY DEF ListArrives, DetailArrives, VerdictArrives, VerdictRefused,
           RequestFails
  <2> QED BY <1>1, <2>1 DEF TypeOK, vars
<1>5. CASE ListArrives(i)
  <2> DEFINE listing == http[i].answer
  <2>1. listing \in SUBSET Merchants
    BY <1>1, <1>5, RequestFacts DEF ListArrives
  <2>2. CASE listing = {}
    BY <1>2, <1>3, <1>4, <1>5, <2>2 DEF ListArrives, ConsoleTypeOK
  <2>3. CASE listing # {}
    <3>1. PICK m \in listing : SelectMerchant(m, Rest(i))
      BY <1>5, <2>3 DEF ListArrives
    <3>2. http' \in Seq(Request) /\ Len(http') <= MaxInFlight
      BY <1>2, <2>1, <3>1, NewRequests, SendFacts DEF SelectMerchant
    <3>3. /\ merchants' = listing /\ filter' = filter
          /\ selectedId' = m /\ loading' = FALSE /\ detail' = NoMerchant
      BY <1>5, <3>1 DEF ListArrives, SelectMerchant
    <3> HIDE DEF listing
    <3> QED BY <1>1, <1>3, <1>4, <2>1, <3>2, <3>3 DEF ConsoleTypeOK
  <2> QED BY <2>2, <2>3
<1>6. CASE DetailArrives(i)
  <2>1. detail' \in Detail
    BY <1>1, <1>6, RequestFacts DEF DetailArrives, Detail
  <2> QED BY <1>2, <1>3, <1>4, <1>6, <2>1 DEF DetailArrives, ConsoleTypeOK
<1>7. CASE VerdictArrives(i)
  <2>1. http' \in Seq(Request) /\ Len(http') <= MaxInFlight
    BY <1>1, <1>2, <1>7, NewRequests, SendFacts DEF VerdictArrives, LoadMerchants
  <2> QED BY <1>3, <1>4, <1>7, <2>1
          DEF VerdictArrives, LoadMerchants, ConsoleTypeOK
<1>8. CASE VerdictRefused(i) \/ RequestFails(i)
  BY <1>2, <1>3, <1>4, <1>8
     DEF VerdictRefused, RequestFails, view, ConsoleTypeOK
<1> QED BY <1>5, <1>6, <1>7, <1>8

\* The handlers move the statuses on.
LEMMA OthersType ==
    ASSUME ConsoleTypeOK, TypeOK', Others
    PROVE  ConsoleTypeOK'
<1> DEFINE grown == [m \in Merchants |-> since[m] \cup {profile'[m].status}]
<1>1. grown \in [Merchants -> SUBSET Status]
  <2>1. \A m \in Merchants : profile'[m].status \in Status
    BY DEF TypeOK, Profile
  <2> QED BY <2>1 DEF ConsoleTypeOK
<1>2. Record(disturbed, grown) /\ UNCHANGED <<view, http>>
  BY DEF Others
<1> HIDE DEF grown
<1>3. disturbed' \in BOOLEAN /\ since' \in [Merchants -> SUBSET Status]
  <2>1. disturbed \in BOOLEAN
    BY DEF ConsoleTypeOK
  <2> QED BY <1>1, <1>2, <2>1, RecordType
<1> QED BY <1>2, <1>3 DEF ConsoleTypeOK, view

LEMMA ConsoleStepType ==
    ASSUME ConsoleTypeOK, TypeOK', [ConsoleNext]_consoleVars
    PROVE  ConsoleTypeOK'
<1>1. CASE UNCHANGED consoleVars
  BY <1>1 DEF consoleVars, page, view, ConsoleTypeOK
<1> QED BY <1>1, OthersType, OperateType, ServeType, ArriveType
        DEF ConsoleNext, Network

-----------------------------------------------------------------------------
(* While the requests keep their order.                                    *)

\* Only what disturbs forgets the statuses.
LEMMA RecordFacts ==
    ASSUME NEW disturbs \in BOOLEAN, NEW statuses,
           Record(disturbs, statuses), ~disturbed'
    PROVE  ~disturbs /\ since' = statuses
BY DEF Record

\* When the last request asks for the list of the chosen filter, all else is
\* about to be replaced.
LEMMA ListAskedFor ==
    ASSUME http' \in Seq(Request), NEW n \in Nat, Len(http') = n + 1,
           http'[n + 1].kind = "list", http'[n + 1].about = filter',
           http'[n + 1].answer = None
    PROVE  ListsFit' /\ DetailsFit'
<1>1. n + 1 \in OfKind("list")' /\ \A i \in DOMAIN http' : i <= n + 1
  BY DEF OfKind
<1>2. \A i \in DOMAIN http' : Latest("list", i)' => i = n + 1
  BY <1>1 DEF Latest, OfKind
<1>3. ListsFit'
  BY <1>1, <1>2 DEF ListsFit, OfKind
<1>4. \A i \in OfKind("detail")' : ~(\A j \in OfKind("list")' : j < i)
  BY <1>1 DEF OfKind
<1>5. DetailsFit'
  BY <1>1, <1>4 DEF DetailsFit
<1> QED BY <1>3, <1>5

\* When the last request asks for the details of the merchant then selected,
\* the details shown do not matter, and the other requests are as before.
LEMMA DetailAskedFor ==
    ASSUME http' \in Seq(Request), NEW n \in Nat, Len(http') = n + 1,
           http'[n + 1].kind = "detail", http'[n + 1].about = selectedId',
           http'[n + 1].answer = None,
           \A i \in 1 .. n :
                /\ http'[i].kind = "detail"
                /\ http'[i].answer # None
                /\ \A j \in 1 .. n : http'[j].kind = "list" => j < i
                => http'[i].answer \in since'[http'[i].about]
    PROVE  DetailsFit'
<1>1. n + 1 \in OfKind("detail")' /\ \A i \in DOMAIN http' : i <= n + 1
  BY DEF OfKind
<1>2. \A i \in DOMAIN http' : Latest("detail", i)' => i = n + 1
  BY <1>1 DEF Latest, OfKind
<1>3. ASSUME NEW i \in OfKind("detail")', http'[i].answer # None,
             \A j \in OfKind("list")' : j < i
      PROVE  http'[i].answer \in since'[http'[i].about]
  <2>1. i \in 1 .. n /\ http'[i].kind = "detail"
    BY <1>3 DEF OfKind
  <2>2. \A j \in 1 .. n : http'[j].kind = "list" => j < i
    BY <1>3 DEF OfKind
  <2> QED BY <1>3, <2>1, <2>2
<1>4. \A i \in OfKind("detail")' : Latest("detail", i)' =>
            http'[i].about = selectedId'
  BY <1>2 DEF OfKind
<1>5. OfKind("detail")' # {}
  BY <1>1
<1> QED BY <1>3, <1>4, <1>5 DEF DetailsFit

LEMMA ChooseFilterInOrder ==
    ASSUME PageInv, NEW option \in Filters, ChooseFilter(option), ~disturbed'
    PROVE  InOrder'
<1>1. http \in Seq(Request) /\ TypeOK /\ disturbed \in BOOLEAN
  BY DEF PageInv, ConsoleTypeOK
<1>2. /\ http' \in Seq(Request)
      /\ Len(http') = Len(http) + 1
      /\ \A k \in 1 .. Len(http) : http'[k] = http[k]
      /\ http'[Len(http) + 1].kind = "list"
      /\ http'[Len(http) + 1].about = option
      /\ http'[Len(http) + 1].answer = None
  BY <1>1, NewRequests, SendFacts DEF ChooseFilter, LoadMerchants
<1>3. ~(disturbed /\ http # <<>>) /\ since' = Statuses
  BY <1>1, RecordFacts DEF ChooseFilter
<1>4. ServedInOrder'
  <2>1. CASE http = <<>>
    BY <1>2, <2>1 DEF ServedInOrder
  <2>2. CASE ~disturbed
    <3>1. ServedInOrder
      BY <2>2 DEF PageInv, InOrder
    <3> QED BY <1>1, <1>2, <3>1 DEF ServedInOrder
  <2> QED BY <1>3, <2>1, <2>2
<1>5. StatusesKept'
  BY <1>1, <1>3, StatusesFacts DEF StatusesKept, ChooseFilter, vars
<1>6. filter' = option /\ Len(http) \in Nat
  BY <1>1 DEF ChooseFilter
<1> QED BY <1>2, <1>4, <1>5, <1>6, ListAskedFor DEF InOrder

LEMMA ClickInOrder ==
    ASSUME PageInv, NEW m \in Merchants, Click(m), ~disturbed'
    PROVE  InOrder'
<1>1. /\ http \in Seq(Request) /\ ~disturbed /\ InOrder
      /\ Len(http) \in Nat
  BY DEF PageInv, ConsoleTypeOK, Click
<1>2. /\ http' \in Seq(Request)
      /\ Len(http') = Len(http) + 1
      /\ \A k \in 1 .. Len(http) : http'[k] = http[k]
      /\ http'[Len(http) + 1].kind = "detail"
      /\ http'[Len(http) + 1].about = m
      /\ http'[Len(http) + 1].answer = None
  BY <1>1, NewRequests, SendFacts DEF Click, SelectMerchant
<1>3. /\ UNCHANGED <<profile, since, filter, merchants>>
      /\ loading' = FALSE /\ selectedId' = m
  BY DEF Click, SelectMerchant, vars
<1>4. ServedInOrder' /\ StatusesKept'
  BY <1>1, <1>2, <1>3 DEF InOrder, ServedInOrder, StatusesKept
<1>5. OfKind("list")' = OfKind("list")
  BY <1>1, <1>2 DEF OfKind
<1>6. ListsFit'
  BY <1>1, <1>2, <1>3, <1>5 DEF InOrder, ListsFit, ListFits, Latest, OfKind
<1>7. DetailsFit'
  <2>1. \A i \in 1 .. Len(http) :
            /\ http'[i].kind = "detail"
            /\ http'[i].answer # None
            /\ \A j \in 1 .. Len(http) : http'[j].kind = "list" => j < i
            => http'[i].answer \in since'[http'[i].about]
    BY <1>1, <1>2, <1>3 DEF InOrder, DetailsFit, OfKind
  <2> QED BY <1>1, <1>2, <1>3, <2>1, DetailAskedFor
<1> QED BY <1>4, <1>6, <1>7 DEF InOrder

LEMMA DecideInOrder ==
    ASSUME PageInv, NEW decision \in Decided, Decide(decision), ~disturbed'
    PROVE  InOrder'
<1>1. /\ http \in Seq(Request) /\ ~disturbed /\ InOrder
      /\ Len(http) \in Nat
  BY DEF PageInv, ConsoleTypeOK, Decide
<1>2. /\ http' \in Seq(Request)
      /\ Len(http') = Len(http) + 1
      /\ \A k \in 1 .. Len(http) : http'[k] = http[k]
      /\ http'[Len(http) + 1].kind \notin {"list", "detail"}
      /\ http'[Len(http) + 1].answer = None
  <2>1. detail.merchant \in Merchants
    BY DEF Decide, PageInv, ConsoleTypeOK, Detail
  <2> QED BY <1>1, <2>1, NewRequests, SendFacts DEF Decide, Decided
<1>3. UNCHANGED <<profile, since, view>>
  BY DEF Decide, vars
<1>4. ServedInOrder' /\ StatusesKept'
  BY <1>1, <1>2, <1>3 DEF InOrder, ServedInOrder, StatusesKept
<1>5. /\ OfKind("list")' = OfKind("list")
      /\ OfKind("detail")' = OfKind("detail")
  BY <1>1, <1>2 DEF OfKind
<1>6. ListsFit'
  BY <1>1, <1>2, <1>3, <1>5
     DEF InOrder, ListsFit, ListFits, Latest, OfKind, view
<1>7. DetailsFit'
  BY <1>1, <1>2, <1>3, <1>5 DEF InOrder, DetailsFit, Latest, OfKind, view
<1> QED BY <1>4, <1>6, <1>7 DEF InOrder

LEMMA OthersInOrder ==
    ASSUME PageInv, TypeOK', Others, ~disturbed'
    PROVE  InOrder'
<1> DEFINE grown == [m \in Merchants |-> since[m] \cup {profile'[m].status}]
<1>1. ~disturbed /\ since' = grown
  <2>1. Record(disturbed, grown)
    BY DEF Others
  <2> HIDE DEF grown
  <2> QED BY <2>1, RecordFacts DEF PageInv, ConsoleTypeOK
<1>2. \A m \in Merchants : since'[m] = since[m] \cup {profile'[m].status}
  BY <1>1
<1> HIDE DEF grown
<1>3. /\ InOrder /\ UNCHANGED <<http, filter, merchants, loading, selectedId,
                                detail>>
      /\ since \in [Merchants -> SUBSET Status]
      /\ http \in Seq(Request) /\ merchants \subseteq Merchants
      /\ selectedId \in merchants \cup {NoMerchant}
  BY <1>1 DEF PageInv, ConsoleTypeOK, Others, view
<1>4. ServedInOrder' /\ StatusesKept'
  BY <1>2, <1>3 DEF InOrder, ServedInOrder, StatusesKept
<1>5. \A S \in SUBSET Merchants : ListFits(S) => ListFits(S)'
  BY <1>2, <1>3 DEF ListFits
<1>6. ListsFit'
  <2>1. ASSUME NEW i \in OfKind("list")
        PROVE  http[i].answer \in SUBSET Merchants \/ http[i].answer = None
    BY <1>3, RequestFacts DEF OfKind
  <2> QED BY <1>3, <1>5, <2>1 DEF InOrder, ListsFit, Latest, OfKind
<1>7. DetailsFit'
  <2>1. ASSUME NEW i \in OfKind("detail")
        PROVE  http[i].about \in Merchants
    BY <1>3, RequestFacts DEF OfKind
  <2>2. UNCHANGED <<OfKind("list"), OfKind("detail")>>
    BY <1>3 DEF OfKind
  <2>3. \A i \in OfKind("detail") :
            http'[i].answer # None /\ (\A j \in OfKind("list") : j < i) =>
                http'[i].answer \in since'[http'[i].about]
    BY <1>2, <1>3, <2>1 DEF InOrder, DetailsFit
  <2>4. OfKind("list") = {} /\ selectedId # NoMerchant =>
            \A i \in OfKind("detail") :
                Latest("detail", i) => http[i].about = selectedId
    BY <1>3 DEF InOrder, DetailsFit
  <2>5. (\A i \in OfKind("detail") : Latest("detail", i)' = Latest("detail", i))
    BY <2>2 DEF Latest
  <2>6. OfKind("list") = {} /\ selectedId # NoMerchant
            /\ OfKind("detail") = {} =>
            /\ detail # NoMerchant
            /\ detail.merchant = selectedId
            /\ detail.status \in since'[selectedId]
    BY <1>2, <1>3 DEF InOrder, DetailsFit
  <2> QED BY <1>3, <2>2, <2>3, <2>4, <2>5, <2>6 DEF DetailsFit
<1> QED BY <1>4, <1>6, <1>7 DEF InOrder

\* An answer that overtakes nobody, and fits.
LEMMA AnswerInOrder ==
    ASSUME PageInv, NEW i \in DOMAIN http, NEW answer,
           [http[i] EXCEPT !.answer = answer] \in Request, Answer(i, answer),
           UNCHANGED view, UNCHANGED profile, ~disturbed',
           http[i].kind = "list" /\ http[i].about = filter => ListFits(answer),
           http[i].kind = "detail" => answer \in since[http[i].about]
    PROVE  InOrder'
<1>1. /\ http' \in Seq(Request) /\ http \in Seq(Request)
      /\ Len(http') = Len(http)
      /\ \A k \in DOMAIN http :
            /\ http'[k].kind = http[k].kind
            /\ http'[k].about = http[k].about
            /\ http'[k].answer = IF k = i THEN answer ELSE http[k].answer
  BY AnswerFacts DEF PageInv, ConsoleTypeOK
<1>2. ~disturbed /\ ~Overtakes(i) /\ since' = since
  <2>1. (disturbed \/ Overtakes(i)) \in BOOLEAN
    BY DEF Overtakes
  <2> QED BY <2>1, RecordFacts DEF Answer
<1>3. InOrder /\ UNCHANGED <<filter, merchants, loading, selectedId, detail>>
  BY <1>2 DEF PageInv, view
<1>4. DOMAIN http' = DOMAIN http /\ DOMAIN http = 1 .. Len(http)
  BY <1>1
<1>5. ServedInOrder'
  <2>1. \A j \in 1 .. (i - 1) : http[j].answer # None
    BY <1>2 DEF Overtakes
  <2>2. \A j, k \in DOMAIN http :
            j < k /\ http[j].answer = None => http[k].answer = None
    BY <1>3 DEF InOrder, ServedInOrder
  <2>3. ASSUME NEW j \in DOMAIN http, NEW k \in DOMAIN http, j < k,
               http'[j].answer = None
        PROVE  http'[k].answer = None
    <3>1. http[j].answer = None
      BY <1>1, <2>3 DEF Answer
    <3>2. k # i
      BY <1>4, <2>1, <2>3, <3>1
    <3> QED BY <1>1, <2>2, <2>3, <3>1, <3>2
  <2> QED BY <1>4, <2>3 DEF ServedInOrder
<1>6. StatusesKept'
  BY <1>2, <1>3 DEF InOrder, StatusesKept
<1>7. UNCHANGED <<OfKind("list"), OfKind("detail")>>
  BY <1>1, <1>4 DEF OfKind
<1>8. \A kind \in {"list", "detail"} : \A k \in OfKind(kind) :
            Latest(kind, k)' = Latest(kind, k)
  BY <1>7 DEF Latest
<1>9. ListsFit'
  <2>1. UNCHANGED ListFits(merchants)
    BY <1>2, <1>3 DEF ListFits
  <2>2. loading' => OfKind("list")' # {}
    BY <1>3, <1>7 DEF InOrder, ListsFit
  <2>3. OfKind("list")' = {} => ListFits(merchants)'
    BY <1>3, <1>7, <2>1 DEF InOrder, ListsFit
  <2>4. ASSUME NEW k \in OfKind("list"), Latest("list", k)
        PROVE  /\ http'[k].about = filter
               /\ http'[k].answer # None => ListFits(http'[k].answer)
    <3>1. /\ http[k].about = filter /\ http[k].kind = "list"
          /\ http[k].answer # None => ListFits(http[k].answer)
      BY <1>3, <2>4 DEF InOrder, ListsFit, OfKind
    <3>2. k \in DOMAIN http
      BY DEF OfKind
    <3>3. CASE k = i
      BY <1>1, <3>1, <3>2, <3>3
    <3>4. CASE k # i
      BY <1>1, <3>1, <3>2, <3>4
    <3> QED BY <3>3, <3>4
  <2> QED BY <1>2, <1>3, <1>7, <1>8, <2>2, <2>3, <2>4 DEF ListsFit, ListFits
<1>10. DetailsFit'
  <2>1. ASSUME NEW k \in OfKind("detail"), http'[k].answer # None,
               \A j \in OfKind("list") : j < k
        PROVE  http'[k].answer \in since'[http'[k].about]
    BY <1>1, <1>2, <1>3, <2>1 DEF InOrder, DetailsFit, OfKind
  <2>2. \A k \in OfKind("detail") : http'[k].about = http[k].about
    BY <1>1 DEF OfKind
  <2> QED BY <1>2, <1>3, <1>7, <1>8, <2>1, <2>2 DEF InOrder, DetailsFit
<1> QED BY <1>5, <1>6, <1>9, <1>10 DEF InOrder

LEMMA ServeReadInOrder ==
    ASSUME PageInv, NEW i \in DOMAIN http, ServeRead(i), ~disturbed'
    PROVE  InOrder'
<1>1. /\ http[i] \in Request /\ TypeOK
      /\ UNCHANGED <<view, profile>>
  BY DEF PageInv, ConsoleTypeOK, ServeRead, vars
<1>2. StatusesKept
  <2>1. \E answer : Answer(i, answer)
    BY DEF ServeRead
  <2>2. (disturbed \/ Overtakes(i)) \in BOOLEAN
    BY DEF Overtakes
  <2>3. ~disturbed
    BY <2>1, <2>2, RecordFacts DEF Answer
  <2> QED BY <2>3 DEF PageInv, InOrder
<1>3. CASE http[i].kind = "list" /\ Answer(i, {m \in Merchants :
                                                Listed(http[i].about, m)})
  <2> DEFINE listing == {m \in Merchants : Listed(http[i].about, m)}
  <2>1. [http[i] EXCEPT !.answer = listing] \in Request
    BY <1>1, <1>3, AnswersFit
  <2>2. \A m \in Merchants : Listed(filter, m) <=>
                                profile[m].status \in Through(filter)
    BY <1>1, StatusesFacts DEF Listed, Through
  <2>3. http[i].about = filter => ListFits(listing)
    BY <1>2, <2>2 DEF ListFits, StatusesKept
  <2> HIDE DEF listing
  <2>4. Answer(i, listing)
    BY <1>3 DEF listing
  <2> QED BY <1>1, <1>3, <2>1, <2>3, <2>4, AnswerInOrder
<1>4. CASE http[i].kind = "detail" /\ Answer(i, profile[http[i].about].status)
  <2> DEFINE status == profile[http[i].about].status
  <2>1. http[i].about \in Merchants
    BY <1>1, <1>4, RequestFacts
  <2>2. status \in Status /\ status \in since[http[i].about]
    BY <1>1, <1>2, <2>1, StatusesFacts DEF StatusesKept
  <2>3. [http[i] EXCEPT !.answer = status] \in Request
    BY <1>1, <1>4, <2>2, AnswersFit
  <2>4. Answer(i, status)
    BY <1>4
  <2> HIDE DEF status
  <2> QED BY <1>1, <1>4, <2>2, <2>3, <2>4, AnswerInOrder
<1> QED BY <1>3, <1>4 DEF ServeRead

LEMMA ServeVerdictInOrder ==
    ASSUME PageInv, NEW i \in DOMAIN http, NEW v \in Reviews,
           ServeVerdict(i, v), ~disturbed'
    PROVE  InOrder'
<1>1. http[i] \in Request
  BY DEF PageInv, ConsoleTypeOK
<1>2. http[i].kind \in Decided /\ Answer(i, v) /\ UNCHANGED <<view, profile>>
  BY DEF ServeVerdict, RefuseReview, BeginReview
<1>3. [http[i] EXCEPT !.answer = v] \in Request
  BY <1>1, <1>2, AnswersFit
<1>4. http[i].kind # "list" /\ http[i].kind # "detail"
  BY <1>2 DEF Decided
<1> QED BY <1>2, <1>3, <1>4, AnswerInOrder

\* An arrival that keeps the order is that of the first request.
LEMMA FirstArrives ==
    ASSUME PageInv, NEW i \in DOMAIN http, NEW statuses,
           Record(disturbed \/ i > 1, statuses), ~disturbed'
    PROVE  /\ i = 1 /\ InOrder /\ since' = statuses
           /\ Len(http) \in Nat \ {0}
           /\ Rest(i) \in Seq(Request)
           /\ Len(Rest(i)) = Len(http) - 1
           /\ \A k \in 1 .. (Len(http) - 1) : Rest(i)[k] = http[k + 1]
<1>1. http \in Seq(Request) /\ disturbed \in BOOLEAN
  BY DEF PageInv, ConsoleTypeOK
<1>2. (disturbed \/ i > 1) \in BOOLEAN
  OBVIOUS
<1>3. ~(disturbed \/ i > 1) /\ since' = statuses
  BY <1>2, RecordFacts
<1>4. i = 1 /\ Len(http) \in Nat \ {0}
  BY <1>1, <1>3
<1> QED BY <1>1, <1>3, <1>4, RestOfHttp DEF PageInv

\* The requests left keep their order, and one more may be sent.
LEMMA RestServedInOrder ==
    ASSUME http \in Seq(Request), Len(http) \in Nat \ {0}, ServedInOrder,
           http' \in Seq(Request),
           \A k \in 1 .. (Len(http) - 1) : http'[k] = http[k + 1],
           \/ Len(http') = Len(http) - 1
           \/ Len(http') = Len(http) /\ http'[Len(http)].answer = None
    PROVE  ServedInOrder'
<1> SUFFICES ASSUME NEW j \in DOMAIN http', NEW k \in DOMAIN http',
                    j < k, http'[j].answer = None
             PROVE  http'[k].answer = None
  BY DEF ServedInOrder
<1> DEFINE n == Len(http)
           p == Len(http')
<1>1. /\ n \in Nat \ {0} /\ j \in 1 .. p /\ k \in 1 .. p
      /\ p = n - 1 \/ (p = n /\ http'[n].answer = None)
      /\ DOMAIN http = 1 .. n
  OBVIOUS
<1> HIDE DEF n, p
<1>2. j \in 1 .. (n - 1) /\ j + 1 \in 1 .. n
  BY <1>1
<1>3. http[j + 1].answer = None
  BY <1>2 DEF n
<1>4. CASE k \in 1 .. (n - 1)
  <2>1. k + 1 \in 1 .. n /\ j + 1 < k + 1
    BY <1>1, <1>4
  <2>2. http[k + 1].answer = None
    BY <1>1, <1>2, <1>3, <2>1 DEF ServedInOrder
  <2> QED BY <1>4, <2>2 DEF n
<1>5. CASE k \notin 1 .. (n - 1)
  <2>1. k = n /\ p = n
    BY <1>1, <1>5
  <2> QED BY <1>1, <2>1
<1> QED BY <1>4, <1>5

\* The requests left, by kind, when none of that kind is sent.
LEMMA RestOfKind ==
    ASSUME http \in Seq(Request), Len(http) \in Nat \ {0},
           http' \in Seq(Request), NEW kind,
           \A k \in 1 .. (Len(http) - 1) : http'[k] = http[k + 1],
           \/ Len(http') = Len(http) - 1
           \/ Len(http') = Len(http) /\ http'[Len(http)].kind # kind
    PROVE  /\ \A k \in OfKind(kind)' :
                k + 1 \in OfKind(kind) /\ http'[k] = http[k + 1]
           /\ \A k \in OfKind(kind)' :
                Latest(kind, k)' => Latest(kind, k + 1)
           /\ OfKind(kind)' = {} /\ http[1].kind # kind => OfKind(kind) = {}
           /\ OfKind(kind)' = {} /\ http[1].kind = kind => Latest(kind, 1)
<1>1. ASSUME NEW k \in OfKind(kind)'
      PROVE  k + 1 \in OfKind(kind) /\ k \in Nat /\ http'[k] = http[k + 1]
  <2>1. k \in 1 .. Len(http') /\ http'[k].kind = kind
    BY DEF OfKind
  <2>2. k \in 1 .. (Len(http) - 1) /\ k + 1 \in 1 .. Len(http)
    <3> DEFINE n == Len(http)
    <3>1. n \in Nat /\ (Len(http') = n - 1 \/ (Len(http') = n /\ k # n))
      BY <2>1
    <3> HIDE DEF n
    <3>2. k \in 1 .. (n - 1) /\ k + 1 \in 1 .. n
      BY <2>1, <3>1
    <3> QED BY <3>2 DEF n
  <2>3. http'[k] = http[k + 1]
    BY <2>2
  <2> QED BY <2>1, <2>2, <2>3 DEF OfKind
<1>2. ASSUME NEW k \in OfKind(kind), k # 1
      PROVE  k - 1 \in OfKind(kind)' /\ k \in Nat
  <2>1. k \in 2 .. Len(http) /\ http[k].kind = kind
    BY <1>2 DEF OfKind
  <2>2. k - 1 \in 1 .. (Len(http) - 1) /\ (k - 1) + 1 = k
        /\ k - 1 \in 1 .. Len(http')
    BY <2>1
  <2>3. http'[k - 1] = http[k]
    BY <2>2
  <2> QED BY <2>1, <2>2, <2>3 DEF OfKind
<1>3. ASSUME NEW k \in OfKind(kind)', Latest(kind, k)'
      PROVE  Latest(kind, k + 1)
  <2>1. \A j \in OfKind(kind)' : j <= k
    BY <1>3 DEF Latest
  <2>2. ASSUME NEW j \in OfKind(kind) PROVE j <= k + 1
    <3>1. CASE j = 1
      BY <1>1, <3>1
    <3>2. CASE j # 1
      BY <1>1, <1>2, <2>1, <3>2
    <3> QED BY <3>1, <3>2
  <2> QED BY <1>1, <2>2 DEF Latest
<1>4. ASSUME OfKind(kind)' = {}, http[1].kind # kind
      PROVE  OfKind(kind) = {}
  BY <1>2, <1>4 DEF OfKind
<1>5. ASSUME OfKind(kind)' = {}, http[1].kind = kind
      PROVE  Latest(kind, 1)
  <2>1. \A j \in OfKind(kind) : j = 1
    BY <1>2, <1>5
  <2>2. 1 \in OfKind(kind)
    BY <1>5 DEF OfKind
  <2> QED BY <2>1, <2>2 DEF Latest
<1> QED BY <1>1, <1>3, <1>4, <1>5

\* Unless the list asked for last is the one that arrives, the page's list is
\* no nearer.
LEMMA ListsStay ==
    ASSUME http \in Seq(Request), Len(http) \in Nat \ {0},
           http' \in Seq(Request),
           \A k \in 1 .. (Len(http) - 1) : http'[k] = http[k + 1],
           \/ Len(http') = Len(http) - 1
           \/ Len(http') = Len(http) /\ http'[Len(http)].kind # "list",
           ListsFit, UNCHANGED <<filter, since>>,
           loading' => loading /\ http[1].kind # "list",
           IF http[1].kind = "list"
           THEN http[1].answer # None /\ merchants' = http[1].answer
           ELSE UNCHANGED merchants
    PROVE  ListsFit'
<1>1. /\ \A k \in OfKind("list")' :
            k + 1 \in OfKind("list") /\ http'[k] = http[k + 1]
      /\ \A k \in OfKind("list")' :
            Latest("list", k)' => Latest("list", k + 1)
      /\ OfKind("list")' = {} /\ http[1].kind # "list" => OfKind("list") = {}
      /\ OfKind("list")' = {} /\ http[1].kind = "list" => Latest("list", 1)
  BY RestOfKind
<1>2. loading' => OfKind("list")' # {}
  BY <1>1 DEF ListsFit
<1>3. OfKind("list")' = {} => ListFits(merchants')
  BY <1>1 DEF ListsFit, Latest
<1>4. ASSUME NEW k \in OfKind("list")', Latest("list", k)'
      PROVE  /\ http'[k].about = filter'
             /\ http'[k].answer # None => ListFits(http'[k].answer)
  BY <1>1, <1>4 DEF ListsFit
<1> QED BY <1>2, <1>3, <1>4 DEF ListsFit, ListFits

\* The answers that count among the requests left.
LEMMA DetailAnswersStay ==
    ASSUME http \in Seq(Request), Len(http) \in Nat \ {0},
           DetailsFit, UNCHANGED since,
           \A k \in 1 .. (Len(http) - 1) : http'[k] = http[k + 1],
           NEW i \in 1 .. (Len(http) - 1),
           http'[i].kind = "detail", http'[i].answer # None,
           \A j \in 1 .. (Len(http) - 1) : http'[j].kind = "list" => j < i
    PROVE  http'[i].answer \in since'[http'[i].about]
<1>1. http'[i] = http[i + 1] /\ i + 1 \in OfKind("detail")
  BY DEF OfKind
<1>2. ASSUME NEW j \in OfKind("list") PROVE j < i + 1
  <2>1. j \in 1 .. Len(http) /\ http[j].kind = "list"
    BY DEF OfKind
  <2>2. CASE j = 1
    BY <2>2
  <2>3. CASE j # 1
    <3>1. j - 1 \in 1 .. (Len(http) - 1) /\ (j - 1) + 1 = j
      BY <2>1, <2>3
    <3>2. j - 1 < i
      BY <2>1, <3>1
    <3> QED BY <3>1, <3>2
  <2> QED BY <2>2, <2>3
<1> QED BY <1>1, <1>2 DEF DetailsFit

LEMMA ListArrivesInOrder ==
    ASSUME PageInv, NEW i \in DOMAIN http, ListArrives(i), ~disturbed'
    PROVE  InOrder'
<1> DEFINE listing == http[1].answer
<1>1. /\ i = 1 /\ InOrder /\ since' = since
      /\ Len(http) \in Nat \ {0}
      /\ Rest(1) \in Seq(Request)
      /\ Len(Rest(1)) = Len(http) - 1
      /\ \A k \in 1 .. (Len(http) - 1) : Rest(1)[k] = http[k + 1]
  <2>1. Record(disturbed \/ i > 1, since)
    BY DEF ListArrives
  <2> QED BY <2>1, FirstArrives
<1>2. /\ http \in Seq(Request) /\ http[1] \in Request
  BY <1>1 DEF PageInv, ConsoleTypeOK
<1>3. /\ http[1].kind = "list" /\ listing # None /\ listing \in SUBSET Merchants
      /\ merchants' = listing /\ UNCHANGED <<profile, filter>>
  BY <1>1, <1>2, RequestFacts DEF ListArrives, vars
<1>4. /\ loading' = FALSE
      /\ \/ listing = {} /\ selectedId' = NoMerchant /\ http' = Rest(1)
         \/ \E m \in listing : SelectMerchant(m, Rest(1))
  BY <1>1 DEF ListArrives, SelectMerchant
<1>6. StatusesKept'
  BY <1>1, <1>3 DEF InOrder, StatusesKept
<1>7. CASE listing = {} /\ selectedId' = NoMerchant /\ http' = Rest(1)
  <2>1. /\ http' \in Seq(Request)
        /\ Len(http') = Len(http) - 1
        /\ \A k \in 1 .. (Len(http) - 1) : http'[k] = http[k + 1]
    BY <1>1, <1>7
  <2>2. ServedInOrder'
    BY <1>1, <1>2, <2>1, RestServedInOrder DEF InOrder
  <2>3. ListsFit'
    BY <1>1, <1>2, <1>3, <1>4, <2>1, ListsStay DEF InOrder
  <2>4. DetailsFit'
    <3>1. ASSUME NEW k \in OfKind("detail")', http'[k].answer # None,
                 \A j \in OfKind("list")' : j < k
          PROVE  http'[k].answer \in since'[http'[k].about]
      <4>1. /\ k \in 1 .. (Len(http) - 1) /\ http'[k].kind = "detail"
            /\ \A j \in 1 .. (Len(http) - 1) : http'[j].kind = "list" => j < k
        BY <2>1, <3>1 DEF OfKind
      <4> QED BY <1>1, <1>2, <2>1, <3>1, <4>1, DetailAnswersStay DEF InOrder
    <3> QED BY <1>7, <3>1 DEF DetailsFit
  <2> QED BY <1>6, <2>2, <2>3, <2>4 DEF InOrder
<1>8. ASSUME NEW m \in listing, SelectMerchant(m, Rest(1))
      PROVE  InOrder'
  <2>1. /\ http' \in Seq(Request)
        /\ Len(http') = Len(http)
        /\ \A k \in 1 .. (Len(http) - 1) : http'[k] = http[k + 1]
        /\ http'[Len(http)].kind = "detail"
        /\ http'[Len(http)].about = m
        /\ http'[Len(http)].answer = None
        /\ selectedId' = m
    <3>1. New("detail", m) \in Request /\ Send("detail", m, Rest(1))
      BY <1>3, <1>8, NewRequests DEF SelectMerchant
    <3>2. Len(Rest(1)) + 1 = Len(http)
      BY <1>1
    <3> QED BY <1>1, <1>8, <3>1, <3>2, SendFacts DEF SelectMerchant
  <2>2. ServedInOrder'
    BY <1>1, <1>2, <2>1, RestServedInOrder DEF InOrder
  <2>3. ListsFit'
    BY <1>1, <1>2, <1>3, <1>4, <2>1, ListsStay DEF InOrder
  <2>4. DetailsFit'
    <3>1. \A k \in 1 .. (Len(http) - 1) :
            /\ http'[k].kind = "detail"
            /\ http'[k].answer # None
            /\ \A j \in 1 .. (Len(http) - 1) : http'[j].kind = "list" => j < k
            => http'[k].answer \in since'[http'[k].about]
      BY <1>1, <1>2, <2>1, DetailAnswersStay DEF InOrder
    <3>2. Len(http) - 1 \in Nat /\ (Len(http) - 1) + 1 = Len(http)
      BY <1>1
    <3> QED BY <2>1, <3>1, <3>2, DetailAskedFor
  <2> QED BY <1>6, <2>2, <2>3, <2>4 DEF InOrder
<1> QED BY <1>4, <1>7, <1>8

LEMMA DetailArrivesInOrder ==
    ASSUME PageInv, NEW i \in DOMAIN http, DetailArrives(i), ~disturbed'
    PROVE  InOrder'
<1>1. /\ i = 1 /\ InOrder /\ since' = since
      /\ Len(http) \in Nat \ {0}
      /\ Rest(1) \in Seq(Request)
      /\ Len(Rest(1)) = Len(http) - 1
      /\ \A k \in 1 .. (Len(http) - 1) : Rest(1)[k] = http[k + 1]
  <2>1. Record(disturbed \/ i > 1, since)
    BY DEF DetailArrives
  <2> QED BY <2>1, FirstArrives
<1>2. http \in Seq(Request) /\ http[1] \in Request
  BY <1>1 DEF PageInv, ConsoleTypeOK
<1>3. /\ http[1].kind = "detail" /\ http[1].answer # None
      /\ detail' = [merchant |-> http[1].about, status |-> http[1].answer]
      /\ UNCHANGED <<profile, filter, merchants, loading, selectedId>>
  BY <1>1 DEF DetailArrives, vars
<1>4. /\ http' \in Seq(Request)
      /\ Len(http') = Len(http) - 1
      /\ \A k \in 1 .. (Len(http) - 1) : http'[k] = http[k + 1]
  BY <1>1 DEF DetailArrives
<1>5. ServedInOrder' /\ StatusesKept'
  BY <1>1, <1>2, <1>3, <1>4, RestServedInOrder DEF InOrder, StatusesKept
<1>6. ListsFit'
  BY <1>1, <1>2, <1>3, <1>4, ListsStay DEF InOrder
<1>7. DetailsFit'
  <2>1. ASSUME NEW k \in OfKind("detail")', http'[k].answer # None,
               \A j \in OfKind("list")' : j < k
        PROVE  http'[k].answer \in since'[http'[k].about]
    <3>1. /\ k \in 1 .. (Len(http) - 1) /\ http'[k].kind = "detail"
          /\ \A j \in 1 .. (Len(http) - 1) : http'[j].kind = "list" => j < k
      BY <1>4, <2>1 DEF OfKind
    <3> QED BY <1>1, <1>2, <1>4, <2>1, <3>1, DetailAnswersStay DEF InOrder
  <2>2. /\ \A k \in OfKind("detail")' :
                k + 1 \in OfKind("detail") /\ http'[k] = http[k + 1]
        /\ \A k \in OfKind("detail")' :
                Latest("detail", k)' => Latest("detail", k + 1)
        /\ OfKind("detail")' = {} => Latest("detail", 1)
        /\ OfKind("list")' = {} => OfKind("list") = {}
    BY <1>1, <1>2, <1>3, <1>4, RestOfKind
  <2>3. ASSUME OfKind("list")' = {}, selectedId # NoMerchant,
               NEW k \in OfKind("detail")', Latest("detail", k)'
        PROVE  http'[k].about = selectedId
    BY <1>1, <2>2, <2>3 DEF InOrder, DetailsFit
  <2>4. ASSUME OfKind("list")' = {}, selectedId # NoMerchant,
               OfKind("detail")' = {}
        PROVE  /\ detail' # NoMerchant
               /\ detail'.merchant = selectedId
               /\ detail'.status \in since[selectedId]
    <3>1. http[1].about = selectedId
      BY <1>1, <2>2, <2>4 DEF InOrder, DetailsFit, Latest
    <3>2. http[1].answer \in since[http[1].about]
      BY <1>1, <1>3, <2>2, <2>4 DEF InOrder, DetailsFit, Latest
    <3>3. detail' \in Detail
      BY <1>2, <1>3, RequestFacts DEF Detail
    <3> QED BY <1>3, <3>1, <3>2, <3>3, NoDetailAssumption
  <2> QED BY <1>1, <1>3, <2>1, <2>3, <2>4 DEF DetailsFit
<1> QED BY <1>5, <1>6, <1>7 DEF InOrder

LEMMA VerdictArrivesInOrder ==
    ASSUME PageInv, NEW i \in DOMAIN http, VerdictArrives(i), ~disturbed'
    PROVE  InOrder'
<1>1. /\ i = 1 /\ InOrder /\ since' = Statuses
      /\ Len(http) \in Nat \ {0}
      /\ Rest(1) \in Seq(Request)
      /\ Len(Rest(1)) = Len(http) - 1
      /\ \A k \in 1 .. (Len(http) - 1) : Rest(1)[k] = http[k + 1]
  <2>1. Record(disturbed \/ i > 1, Statuses)
    BY DEF VerdictArrives
  <2> QED BY <2>1, FirstArrives
<1>2. /\ http \in Seq(Request) /\ http[1] \in Request /\ filter \in Filters
      /\ TypeOK
  BY <1>1 DEF PageInv, ConsoleTypeOK
<1>3. UNCHANGED <<profile, filter>>
  BY DEF VerdictArrives, vars
<1>4. /\ http' \in Seq(Request)
      /\ Len(http') = Len(http)
      /\ \A k \in 1 .. (Len(http) - 1) : http'[k] = http[k + 1]
      /\ http'[Len(http)].kind = "list"
      /\ http'[Len(http)].about = filter
      /\ http'[Len(http)].answer = None
  <2>1. New("list", filter) \in Request /\ Send("list", filter, Rest(1))
    BY <1>1, <1>2, NewRequests DEF VerdictArrives, LoadMerchants
  <2>2. Len(Rest(1)) + 1 = Len(http)
    BY <1>1
  <2> QED BY <1>1, <2>1, <2>2, SendFacts
<1>5. ServedInOrder'
  BY <1>1, <1>2, <1>4, RestServedInOrder DEF InOrder
<1>6. StatusesKept'
  BY <1>1, <1>2, <1>3, StatusesFacts DEF StatusesKept
<1>7. ListsFit' /\ DetailsFit'
  <2>1. Len(http) - 1 \in Nat /\ (Len(http) - 1) + 1 = Len(http)
    BY <1>1
  <2> QED BY <1>3, <1>4, <2>1, ListAskedFor
<1> QED BY <1>5, <1>6, <1>7 DEF InOrder

LEMMA VerdictRefusedInOrder ==
    ASSUME PageInv, NEW i \in DOMAIN http, VerdictRefused(i), ~disturbed'
    PROVE  InOrder'
<1>1. /\ i = 1 /\ InOrder /\ since' = since
      /\ Len(http) \in Nat \ {0}
      /\ Rest(1) \in Seq(Request)
      /\ Len(Rest(1)) = Len(http) - 1
      /\ \A k \in 1 .. (Len(http) - 1) : Rest(1)[k] = http[k + 1]
  <2>1. Record(disturbed \/ i > 1, since)
    BY DEF VerdictRefused
  <2> QED BY <2>1, FirstArrives
<1>2. http \in Seq(Request) /\ http[1] \in Request
  BY <1>1 DEF PageInv, ConsoleTypeOK
<1>3. /\ http[1].kind # "list" /\ http[1].kind # "detail"
      /\ UNCHANGED <<profile, filter, merchants, loading, selectedId, detail>>
  BY <1>1 DEF VerdictRefused, Decided, view, vars
<1>4. /\ http' \in Seq(Request)
      /\ Len(http') = Len(http) - 1
      /\ \A k \in 1 .. (Len(http) - 1) : http'[k] = http[k + 1]
  BY <1>1 DEF VerdictRefused
<1>5. ServedInOrder' /\ StatusesKept'
  BY <1>1, <1>2, <1>3, <1>4, RestServedInOrder DEF InOrder, StatusesKept
<1>6. ListsFit'
  BY <1>1, <1>2, <1>3, <1>4, ListsStay DEF InOrder
<1>7. DetailsFit'
  <2>1. ASSUME NEW k \in OfKind("detail")', http'[k].answer # None,
               \A j \in OfKind("list")' : j < k
        PROVE  http'[k].answer \in since'[http'[k].about]
    <3>1. /\ k \in 1 .. (Len(http) - 1) /\ http'[k].kind = "detail"
          /\ \A j \in 1 .. (Len(http) - 1) : http'[j].kind = "list" => j < k
      BY <1>4, <2>1 DEF OfKind
    <3> QED BY <1>1, <1>2, <1>4, <2>1, <3>1, DetailAnswersStay DEF InOrder
  <2>2. /\ \A k \in OfKind("detail")' :
                k + 1 \in OfKind("detail") /\ http'[k] = http[k + 1]
        /\ \A k \in OfKind("detail")' :
                Latest("detail", k)' => Latest("detail", k + 1)
        /\ OfKind("detail")' = {} => OfKind("detail") = {}
        /\ OfKind("list")' = {} => OfKind("list") = {}
    BY <1>1, <1>2, <1>3, <1>4, RestOfKind
  <2>3. ASSUME OfKind("list")' = {}, selectedId # NoMerchant,
               NEW k \in OfKind("detail")', Latest("detail", k)'
        PROVE  http'[k].about = selectedId
    BY <1>1, <2>2, <2>3 DEF InOrder, DetailsFit
  <2>4. ASSUME OfKind("list")' = {}, selectedId # NoMerchant,
               OfKind("detail")' = {}
        PROVE  /\ detail # NoMerchant
               /\ detail.merchant = selectedId
               /\ detail.status \in since[selectedId]
    BY <1>1, <2>2, <2>4 DEF InOrder, DetailsFit
  <2> QED BY <1>1, <1>3, <2>1, <2>3, <2>4 DEF DetailsFit
<1> QED BY <1>5, <1>6, <1>7 DEF InOrder

-----------------------------------------------------------------------------
LEMMA InitPage == ConsoleInit => PageInv
<1> SUFFICES ASSUME ConsoleInit PROVE PageInv
  OBVIOUS
<1>1. ReviewInv /\ ConsoleTypeOK
  BY InitReview, InitConsoleType DEF ConsoleInit
<1>2. /\ http = <<New("list", "underReview")>> /\ filter = "underReview"
      /\ since = Statuses
  BY DEF ConsoleInit
<1>3. /\ DOMAIN http = {1} /\ http[1].kind = "list"
      /\ http[1].about = filter /\ http[1].answer = None
  BY <1>2 DEF New
<1>4. OfKind("list") = {1} /\ OfKind("detail") = {}
  BY <1>3 DEF OfKind
<1>5. ServedInOrder
  BY <1>3 DEF ServedInOrder
<1>6. StatusesKept
  BY <1>1, <1>2, StatusesFacts DEF StatusesKept, ConsoleTypeOK
<1>7. ListsFit
  BY <1>3, <1>4 DEF ListsFit
<1>8. DetailsFit
  BY <1>4 DEF DetailsFit
<1> QED BY <1>1, <1>5, <1>6, <1>7, <1>8 DEF PageInv, InOrder

LEMMA NextPage == PageInv /\ [ConsoleNext]_consoleVars => PageInv'
<1> SUFFICES ASSUME PageInv, [ConsoleNext]_consoleVars PROVE PageInv'
  OBVIOUS
<1>1. ReviewInv'
  BY ConsoleStepIsStep, NextReview DEF PageInv
<1>2. TypeOK' /\ ConsoleTypeOK'
  BY <1>1, ConsoleStepType DEF PageInv, ReviewInv
<1>3. ASSUME ~disturbed' PROVE InOrder'
  <2>1. CASE Others
    BY <1>2, <1>3, <2>1, OthersInOrder
  <2>2. CASE Operate
    BY <1>3, <2>2, ChooseFilterInOrder, ClickInOrder, DecideInOrder DEF Operate
  <2>3. ASSUME NEW i \in DOMAIN http,
               \/ ServeRead(i) \/ \E v \in Reviews : ServeVerdict(i, v)
               \/ ListArrives(i) \/ DetailArrives(i)
               \/ VerdictArrives(i) \/ VerdictRefused(i) \/ RequestFails(i)
        PROVE  InOrder'
    <3>1. ~RequestFails(i)
      BY <1>3 DEF RequestFails, Record
    <3> QED BY <1>3, <2>3, <3>1, ServeReadInOrder, ServeVerdictInOrder,
               ListArrivesInOrder, DetailArrivesInOrder,
               VerdictArrivesInOrder, VerdictRefusedInOrder
  <2>4. CASE UNCHANGED consoleVars
    <3>1. InOrder /\ UNCHANGED <<profile, page, view>>
      BY <1>3, <2>4 DEF PageInv, consoleVars, page, vars
    <3> QED BY <3>1 DEF InOrder, ServedInOrder, StatusesKept, ListsFit,
               DetailsFit, ListFits, Latest, OfKind, page, view
  <2> QED BY <2>1, <2>2, <2>3, <2>4 DEF ConsoleNext, Network
<1> QED BY <1>1, <1>2, <1>3 DEF PageInv

\* The inductive invariant holds in every state of the page.
THEOREM PageInvariant == ConsoleSpec => []PageInv
<1>1. ConsoleInit => PageInv
  BY InitPage
<1>2. PageInv /\ [ConsoleNext]_consoleVars => PageInv'
  BY NextPage
<1> QED BY <1>1, <1>2, PTL DEF ConsoleSpec

\* However requests and handlers interleave, the page and its requests are
\* well-formed: it selects only what it lists (selectMerchant).
THEOREM PageIsWellTyped == ConsoleSpec => []ConsoleTypeOK
<1>1. PageInv => ConsoleTypeOK
  BY DEF PageInv
<1> QED BY <1>1, PageInvariant, PTL

\* At rest, after requests that kept their order, the page shows the details
\* of the merchant it has selected, as they have been since the list was asked
\* for (selectMerchant, approveMerchant, rejectMerchant).
THEOREM DetailsAreCurrent == ConsoleSpec => []DetailIsCurrent
<1>1. PageInv => DetailIsCurrent
  <2> SUFFICES ASSUME PageInv, Settled, selectedId # NoMerchant
               PROVE  /\ detail # NoMerchant
                      /\ detail.merchant = selectedId
                      /\ detail.status \in since[selectedId]
    BY DEF DetailIsCurrent
  <2>1. /\ DetailsFit
        /\ OfKind("list") = {} /\ OfKind("detail") = {}
    BY DEF PageInv, Settled, InOrder, OfKind
  <2> QED BY <2>1 DEF DetailsFit
<1> QED BY <1>1, PageInvariant, PTL

\* At rest, after requests that kept their order, the list is the one of the
\* chosen filter (loadMerchants, listMerchantApplications).
THEOREM ListsAreCurrent == ConsoleSpec => []ListIsCurrent
<1>1. PageInv => ListIsCurrent
  <2> SUFFICES ASSUME PageInv, Settled
               PROVE  ~loading /\ ListFits(merchants)
    BY DEF ListIsCurrent, ListFits
  <2>1. ListsFit /\ OfKind("list") = {}
    BY DEF PageInv, Settled, InOrder, OfKind
  <2> QED BY <2>1 DEF ListsFit
<1> QED BY <1>1, PageInvariant, PTL

\* The page and the network add no step of their own to the applications:
\* with them the handlers still follow MerchantOnboarding, so what is proved of
\* it holds of the whole.
THEOREM ConsoleRefinesOnboarding == ConsoleSpec => Spec
<1>1. ConsoleInit => Init
  BY DEF ConsoleInit
<1>2. ConsoleTypeOK /\ [ConsoleNext]_consoleVars => [Next]_vars
  BY ConsoleStepIsStep
<1> QED BY <1>1, <1>2, PageIsWellTyped, PTL DEF ConsoleSpec, Spec

\* The operator at the page decides no draft and overrides no verdict but in a
\* contest, and applications stay coherent: the lifecycle is kept end to end.
THEOREM ConsoleKeepsLifecycle ==
    ConsoleSpec => []FieldsMatchStatus /\ ImplementsLifecycle
BY ConsoleRefinesOnboarding, ApplicationsAreCoherent,
   OnboardingRefinesLifecycle, PTL

=============================================================================

--------------------------- MODULE EmailOtpProofs ---------------------------
(***************************************************************************)
(* Proofs about EmailOtp for every number of keys, requests and answers,   *)
(* every limit of attempts, any interleaving and any failure.              *)
(***************************************************************************)
EXTENDS EmailOtp, FiniteSetTheorems, TLAPS

\* Every request takes at most one stamp, and no stamp is taken twice.
Taken == {r \in Requests : mine[r] # 0}

StampsAreTakenOnce ==
    /\ clock = Cardinality(Taken)
    /\ \A r \in Requests :
        /\ mine[r] <= clock
        /\ pc[r] \in {"idle", "stamp"} => mine[r] = 0
        /\ pc[r] \in {"insert", "mail"} => mine[r] # 0
        /\ pc[r] \in {"stamp", "insert"} => keyOf[r] \in Keys
    /\ \A q, r \in Requests : (q # r /\ mine[q] = mine[r]) => mine[q] = 0

\* A stamp whose document has not arrived yet.
Fresh(s) == s > clock \/ \E r \in Requests : pc[r] = "insert" /\ mine[r] = s

\* It has no document, and nobody has answered it.
FreshStampsAreUnused ==
    \A s \in Stamps : Fresh(s) =>
        ~Exists(s) /\ answered[s] = 0 /\ accepted[s] = 0

\* A document belongs to the request that took its stamp.
DocumentsHaveRequests ==
    \A s \in Stamps : Exists(s) =>
        \E r \in Requests : mine[r] = s /\ keyOf[r] = otps[s].key

\* What an answer under way knows of the document it found: when it met no
\* other one there, the attempts it read are those stored.
Fits(a) ==
    LET s == seen[a]
    IN  /\ s \in Stamps
        /\ ~Fresh(s)
        /\ keyOf[a] \in Keys
        /\ Exists(s) => otps[s].key = keyOf[a]
        /\ seenAttempts[a] < MaxAttempts
        /\ seenAttempts[a] <= answered[s]
        /\ (s \notin contended /\ Exists(s)) =>
            seenAttempts[a] = otps[s].attempts /\ accepted[s] = 0

AnswersAreFit ==
    \A a \in Answers :
        /\ pc[a] = "idle" => seen[a] = 0
        /\ pc[a] = "save" => Fits(a)

\* Two answers under way on one document are recorded.
MeetingsAreRecorded ==
    \A a, b \in Answers :
        (a # b /\ pc[a] = "save" /\ pc[b] = "save" /\ seen[a] = seen[b])
            => seen[a] \in contended

\* Requests that replace codes at once are recorded; and of two that did not
\* meet, the code of the first was retired, or else it is the newer one.
ReplacementsAreRecorded ==
    \A q, r \in Requests : q # r =>
        /\ (Replacing(q) /\ Replacing(r)) => {q, r} \in overlapped
        /\ (pc[q] = "insert" /\ mine[r] # 0 /\ Exists(mine[r])) =>
            {q, r} \in overlapped \/ mine[r] < mine[q]
        /\ (/\ mine[q] # 0 /\ Unconsumed(mine[q], keyOf[r])
            /\ Replacing(r) \/ (mine[r] # 0 /\ Exists(mine[r]))) =>
            \/ {q, r} \in overlapped
            \/ (mine[r] # 0 /\ mine[r] < mine[q])

\* The inductive invariant.
OtpInv ==
    /\ TypeOK
    /\ StampsAreTakenOnce
    /\ FreshStampsAreUnused
    /\ DocumentsHaveRequests
    /\ AnswersAreFit
    /\ MeetingsAreRecorded
    /\ ReplacementsAreRecorded
    /\ AcceptedOnce
    /\ AnswersWithinMax

-----------------------------------------------------------------------------
\* The number of requests is a number, and a document is there.
LEMMA Basics ==
    /\ Cardinality(Requests) \in Nat
    /\ NoOtp \notin Otp
    /\ \A r \in Requests : r \in Calls
    /\ \A a \in Answers : a \in Calls /\ a \notin Requests
BY RequestsAssumption, NoOtpAssumption, FS_CardinalityType DEF Calls

LEMMA InitOtp == Init => OtpInv
<1> SUFFICES ASSUME Init PROVE OtpInv
  OBVIOUS
<1>1. TypeOK
  BY Basics, MaxAttemptsAssumption DEF Init, TypeOK, PC
<1>2. /\ \A c \in Calls : pc[c] = "idle"
      /\ \A r \in Requests : mine[r] = 0 /\ pc[r] = "idle"
      /\ \A a \in Answers : seen[a] = 0 /\ pc[a] = "idle"
      /\ \A s \in Stamps : ~Exists(s) /\ answered[s] = 0 /\ accepted[s] = 0
  BY Basics DEF Init, Exists
<1>3. StampsAreTakenOnce
  <2>1. Taken = {} /\ clock = 0
    BY <1>2 DEF Taken, Init
  <2> QED BY <1>2, <2>1, FS_EmptySet DEF StampsAreTakenOnce
<1>4. FreshStampsAreUnused /\ DocumentsHaveRequests /\ AnswersAreFit
  BY <1>2 DEF FreshStampsAreUnused, DocumentsHaveRequests, AnswersAreFit
<1>5. MeetingsAreRecorded /\ ReplacementsAreRecorded
  BY <1>2 DEF MeetingsAreRecorded, ReplacementsAreRecorded, Replacing
<1>6. AcceptedOnce /\ AnswersWithinMax
  BY <1>2, MaxAttemptsAssumption DEF AcceptedOnce, AnswersWithinMax
<1> QED BY <1>1, <1>3, <1>4, <1>5, <1>6 DEF OtpInv

-----------------------------------------------------------------------------
\* A step that only ends calls, passes time or does nothing.
LEMMA QuietInv ==
    ASSUME OtpInv, pc' \in [Calls -> PC],
           \A c \in Calls : pc'[c] = pc[c]
                \/ pc'[c] \in {"done", "failed", "rejected", "locked"},
           mailed' \subseteq Stamps, expired' \subseteq Stamps,
           UNCHANGED <<otps, clock, keyOf, mine, seen, seenAttempts, code,
                       overlapped, answered, accepted, contended>>
    PROVE  OtpInv'
<1>1. TypeOK'
  BY DEF OtpInv, TypeOK
<1>2. /\ \A r \in Requests : pc'[r] = pc[r]
                \/ pc'[r] \in {"done", "failed", "rejected", "locked"}
      /\ \A a \in Answers : pc'[a] = pc[a]
                \/ pc'[a] \in {"done", "failed", "rejected", "locked"}
  BY Basics
<1>3. StampsAreTakenOnce'
  BY <1>2 DEF OtpInv, StampsAreTakenOnce, Taken
<1>4. \A s \in Stamps : (Exists(s)' <=> Exists(s)) /\ (Fresh(s)' => Fresh(s))
  BY <1>2 DEF Exists, Fresh
<1>5. FreshStampsAreUnused' /\ DocumentsHaveRequests'
  BY <1>4 DEF OtpInv, FreshStampsAreUnused, DocumentsHaveRequests
<1>6. AnswersAreFit'
  BY <1>2, <1>4 DEF OtpInv, AnswersAreFit, Fits
<1>7. MeetingsAreRecorded'
  BY <1>2 DEF OtpInv, MeetingsAreRecorded
<1>8. ReplacementsAreRecorded'
  BY <1>2 DEF OtpInv, ReplacementsAreRecorded, Replacing, Unconsumed, Exists
<1>9. AcceptedOnce' /\ AnswersWithinMax'
  BY <1>4 DEF OtpInv, AcceptedOnce, AnswersWithinMax
<1> QED BY <1>1, <1>3, <1>5, <1>6, <1>7, <1>8, <1>9 DEF OtpInv

\* Retiring the old codes of a key: those that stay are consumed.
LEMMA RetireInv ==
    ASSUME OtpInv, NEW r \in Requests, NEW k \in Keys, Retire(r, k)
    PROVE  OtpInv'
<1>1. /\ pc[r] = "idle" /\ pc' = [pc EXCEPT ![r] = "stamp"]
      /\ keyOf' = [keyOf EXCEPT ![r] = k]
      /\ otps' = [s \in Stamps |->
                    IF Unconsumed(s, k) THEN [otps[s] EXCEPT !.consumed = TRUE]
                    ELSE otps[s]]
      /\ overlapped' = overlapped \cup
                {{r, q} : q \in {p \in Requests : Replacing(p)}}
      /\ UNCHANGED <<expired, clock, mine, seen, seenAttempts, code, mailed,
                     answered, accepted, contended>>
  BY DEF Retire
<1>2. /\ pc'[r] = "stamp" /\ keyOf'[r] = k
      /\ \A q \in Requests \ {r} : pc'[q] = pc[q] /\ keyOf'[q] = keyOf[q]
      /\ \A a \in Answers : pc'[a] = pc[a] /\ keyOf'[a] = keyOf[a]
  BY <1>1, Basics DEF OtpInv, TypeOK
<1>3. \A s \in Stamps :
        /\ otps[s] \in Otp => otps'[s] \in Otp
        /\ Exists(s)' <=> Exists(s)
        /\ Exists(s) => /\ otps'[s].key = otps[s].key
                        /\ otps'[s].attempts = otps[s].attempts
                        /\ otps[s].consumed => otps'[s].consumed
        /\ ~Unconsumed(s, k)'
  <2> TAKE s \in Stamps
  <2>1. otps[s] \in Otp \cup {NoOtp}
    BY DEF OtpInv, TypeOK
  <2>2. otps'[s] = IF Unconsumed(s, k) THEN [otps[s] EXCEPT !.consumed = TRUE]
                   ELSE otps[s]
    BY <1>1
  <2>3. CASE Unconsumed(s, k)
    <3>1. otps[s] \in Otp /\ otps'[s] = [otps[s] EXCEPT !.consumed = TRUE]
      BY <2>1, <2>2, <2>3 DEF Unconsumed, Exists
    <3>2. /\ otps'[s] \in Otp
          /\ otps'[s].key = otps[s].key
          /\ otps'[s].attempts = otps[s].attempts
          /\ otps'[s].consumed
      BY <3>1 DEF Otp
    <3> QED BY <3>1, <3>2, Basics DEF Exists, Unconsumed
  <2>4. CASE ~Unconsumed(s, k)
    BY <2>2, <2>4 DEF Exists, Unconsumed
  <2> QED BY <2>3, <2>4
<1>4. TypeOK'
  <2>1. otps' \in [Stamps -> Otp \cup {NoOtp}]
    BY <1>1, <1>3, Basics DEF OtpInv, TypeOK, Exists, Unconsumed
  <2>2. overlapped' \subseteq SUBSET Requests
    BY <1>1 DEF OtpInv, TypeOK
  <2>3. keyOf' \in [Calls -> Keys \cup {NoKey}] /\ pc' \in [Calls -> PC]
    BY <1>1 DEF OtpInv, TypeOK, PC, Running
  <2> QED BY <1>1, <2>1, <2>2, <2>3 DEF OtpInv, TypeOK
<1>5. mine[r] = 0
  BY <1>1 DEF OtpInv, StampsAreTakenOnce
<1>6. StampsAreTakenOnce'
  BY <1>1, <1>2, <1>5 DEF OtpInv, StampsAreTakenOnce, Taken
<1>7. \A s \in Stamps : Fresh(s)' <=> Fresh(s)
  BY <1>1, <1>2 DEF Fresh
<1>8. FreshStampsAreUnused'
  BY <1>1, <1>3, <1>7 DEF OtpInv, FreshStampsAreUnused
<1>9. DocumentsHaveRequests'
  <2> SUFFICES ASSUME NEW s \in Stamps, Exists(s)'
               PROVE  \E q \in Requests : mine'[q] = s
                            /\ keyOf'[q] = otps'[s].key
    BY DEF DocumentsHaveRequests
  <2>1. PICK q \in Requests : mine[q] = s /\ keyOf[q] = otps[s].key
    BY <1>3 DEF OtpInv, DocumentsHaveRequests
  <2>2. q # r
    BY <1>5, <2>1, Basics DEF Stamps
  <2> QED BY <1>1, <1>2, <1>3, <2>1, <2>2
<1>10. AnswersAreFit'
  <2> SUFFICES ASSUME NEW a \in Answers, pc'[a] = "save"
               PROVE  Fits(a)'
    BY <1>1, <1>2 DEF OtpInv, AnswersAreFit
  <2> QED BY <1>1, <1>2, <1>3, <1>7 DEF OtpInv, AnswersAreFit, Fits
<1>11. MeetingsAreRecorded'
  BY <1>1, <1>2 DEF OtpInv, MeetingsAreRecorded
<1>12. ReplacementsAreRecorded'
  <2> SUFFICES ASSUME NEW p \in Requests, NEW q \in Requests, p # q
      PROVE  /\ (Replacing(p)' /\ Replacing(q)') => {p, q} \in overlapped'
             /\ (pc'[p] = "insert" /\ mine'[q] # 0 /\ Exists(mine[q])') =>
                    {p, q} \in overlapped' \/ mine'[q] < mine'[p]
             /\ (/\ mine'[p] # 0 /\ Unconsumed(mine[p], keyOf[q])'
                 /\ Replacing(q)' \/ (mine'[q] # 0 /\ Exists(mine[q])')) =>
                    \/ {p, q} \in overlapped'
                    \/ (mine'[q] # 0 /\ mine'[q] < mine'[p])
    BY DEF ReplacementsAreRecorded
  <2>1. (Replacing(p)' /\ Replacing(q)') => {p, q} \in overlapped'
    <3>1. CASE p = r
      BY <1>1, <1>2, <3>1 DEF Replacing
    <3>2. CASE q = r
      <4>1. {p, q} = {r, p}
        BY <3>2
      <4> QED BY <1>1, <1>2, <3>2, <4>1 DEF Replacing
    <3>3. CASE p # r /\ q # r
      BY <1>1, <1>2, <3>3 DEF OtpInv, ReplacementsAreRecorded, Replacing
    <3> QED BY <3>1, <3>2, <3>3
  <2>2. /\ mine[p] # 0 => mine[p] \in Stamps
        /\ mine[q] # 0 => mine[q] \in Stamps
    BY DEF OtpInv, TypeOK
  <2>3. (pc'[p] = "insert" /\ mine'[q] # 0 /\ Exists(mine[q])') =>
            {p, q} \in overlapped' \/ mine'[q] < mine'[p]
    BY <1>1, <1>2, <1>3, <2>2 DEF OtpInv, ReplacementsAreRecorded
  <2>4. ASSUME mine'[p] # 0, Unconsumed(mine[p], keyOf[q])',
               Replacing(q)' \/ (mine'[q] # 0 /\ Exists(mine[q])')
        PROVE  \/ {p, q} \in overlapped'
               \/ (mine'[q] # 0 /\ mine'[q] < mine'[p])
    <3>1. q # r
      BY <1>1, <1>2, <1>3, <2>2, <2>4
    <3>2. Unconsumed(mine[p], keyOf[q])
      BY <1>1, <1>2, <1>3, <2>2, <2>4, <3>1, Basics
         DEF Unconsumed, Exists, OtpInv, TypeOK, Otp
    <3>3. Replacing(q) \/ (mine[q] # 0 /\ Exists(mine[q]))
      BY <1>1, <1>2, <1>3, <2>2, <2>4, <3>1 DEF Replacing
    <3> QED BY <1>1, <2>4, <3>2, <3>3 DEF OtpInv, ReplacementsAreRecorded
  <2> QED BY <2>1, <2>3, <2>4
<1>13. AcceptedOnce' /\ AnswersWithinMax'
  BY <1>1, <1>3 DEF OtpInv, AcceptedOnce, AnswersWithinMax
<1> QED BY <1>4, <1>6, <1>8, <1>9, <1>10, <1>11, <1>12, <1>13 DEF OtpInv

\* The stamp taken is the next one, and it fits the stamps.
LEMMA StampInv ==
    ASSUME OtpInv, NEW r \in Requests, Stamp(r)
    PROVE  OtpInv'
<1>1. /\ pc[r] = "stamp" /\ pc' = [pc EXCEPT ![r] = "insert"]
      /\ mine' = [mine EXCEPT ![r] = clock + 1]
      /\ clock' = clock + 1
      /\ UNCHANGED <<otps, expired, keyOf, seen, seenAttempts, code, mailed,
                     overlapped, answered, accepted, contended>>
  BY DEF Stamp, history
<1>2. /\ pc'[r] = "insert" /\ mine'[r] = clock + 1
      /\ \A q \in Requests \ {r} : pc'[q] = pc[q] /\ mine'[q] = mine[q]
      /\ \A a \in Answers : pc'[a] = pc[a]
  BY <1>1, Basics DEF OtpInv, TypeOK
<1>3. mine[r] = 0 /\ clock \in Nat
  BY <1>1, Basics DEF OtpInv, StampsAreTakenOnce, TypeOK
<1>4. Cardinality(Taken') = clock + 1 /\ clock + 1 <= Cardinality(Requests)
  <2>1. IsFiniteSet(Taken) /\ Taken \subseteq Requests
    BY RequestsAssumption, FS_Subset DEF Taken
  <2>2. Taken' = Taken \cup {r} /\ r \notin Taken
    BY <1>2, <1>3 DEF Taken
  <2>3. Cardinality(Taken') = clock + 1
    BY <2>1, <2>2, FS_AddElement DEF OtpInv, StampsAreTakenOnce
  <2>4. Cardinality(Taken') <= Cardinality(Requests)
    BY <2>1, <2>2, RequestsAssumption, FS_Subset
  <2> QED BY <2>3, <2>4
<1>5. TypeOK'
  <2>1. clock + 1 \in Stamps
    BY <1>3, <1>4, Basics DEF Stamps
  <2>2. clock' \in 0 .. Cardinality(Requests)
    BY <1>1, <1>3, <1>4, Basics
  <2>3. mine' \in [Requests -> Stamps \cup {0}] /\ pc' \in [Calls -> PC]
    BY <1>1, <2>1 DEF OtpInv, TypeOK, PC, Running
  <2> QED BY <1>1, <2>2, <2>3 DEF OtpInv, TypeOK
<1>6. \A q \in Requests : mine[q] \in Nat /\ mine[q] <= clock
  BY Basics DEF OtpInv, TypeOK, Stamps, StampsAreTakenOnce
<1>7. StampsAreTakenOnce'
  <2>1. \A q \in Requests :
            /\ mine'[q] <= clock'
            /\ pc'[q] \in {"idle", "stamp"} => mine'[q] = 0
            /\ pc'[q] \in {"insert", "mail"} => mine'[q] # 0
            /\ pc'[q] \in {"stamp", "insert"} => keyOf'[q] \in Keys
    BY <1>1, <1>2, <1>3, <1>6 DEF OtpInv, StampsAreTakenOnce
  <2>2. \A p, q \in Requests :
            (p # q /\ mine'[p] = mine'[q]) => mine'[p] = 0
    BY <1>2, <1>3, <1>6 DEF OtpInv, StampsAreTakenOnce
  <2> QED BY <1>1, <1>4, <2>1, <2>2 DEF StampsAreTakenOnce
<1>8. \A s \in Stamps : Fresh(s)' => Fresh(s)
  <2> SUFFICES ASSUME NEW s \in Stamps, Fresh(s)', s <= clock
               PROVE  \E q \in Requests : pc[q] = "insert" /\ mine[q] = s
    BY <1>3, Basics DEF Fresh, Stamps
  <2>1. s \in Nat /\ ~(s > clock')
    BY <1>1, <1>3, Basics DEF Stamps
  <2>2. PICK q \in Requests : pc'[q] = "insert" /\ mine'[q] = s
    BY <2>1 DEF Fresh
  <2>3. q # r
    BY <1>2, <1>3, <2>1, <2>2
  <2> QED BY <1>2, <2>2, <2>3
<1>9. FreshStampsAreUnused'
  BY <1>1, <1>8 DEF OtpInv, FreshStampsAreUnused, Exists
<1>10. DocumentsHaveRequests'
  <2> SUFFICES ASSUME NEW s \in Stamps, Exists(s)
               PROVE  \E q \in Requests : mine'[q] = s
                                        /\ keyOf[q] = otps[s].key
    BY <1>1 DEF DocumentsHaveRequests, Exists
  <2>1. PICK q \in Requests : mine[q] = s /\ keyOf[q] = otps[s].key
    BY DEF OtpInv, DocumentsHaveRequests
  <2>2. q # r
    BY <1>3, <2>1, Basics DEF Stamps
  <2> QED BY <1>2, <2>1, <2>2
<1>11. AnswersAreFit'
  BY <1>1, <1>2, <1>8 DEF OtpInv, AnswersAreFit, Fits, Exists
<1>12. MeetingsAreRecorded'
  BY <1>1, <1>2 DEF OtpInv, MeetingsAreRecorded
<1>13. ReplacementsAreRecorded'
  <2> SUFFICES ASSUME NEW p \in Requests, NEW q \in Requests, p # q
      PROVE  /\ (Replacing(p)' /\ Replacing(q)') => {p, q} \in overlapped
             /\ (pc'[p] = "insert" /\ mine'[q] # 0 /\ Exists(mine'[q])) =>
                    {p, q} \in overlapped \/ mine'[q] < mine'[p]
             /\ (/\ mine'[p] # 0 /\ Unconsumed(mine'[p], keyOf[q])
                 /\ Replacing(q)' \/ (mine'[q] # 0 /\ Exists(mine'[q]))) =>
                    \/ {p, q} \in overlapped
                    \/ (mine'[q] # 0 /\ mine'[q] < mine'[p])
    BY <1>1 DEF ReplacementsAreRecorded, Exists, Unconsumed
  <2>1. clock + 1 \in Stamps /\ ~Exists(clock + 1)
    <3>1. clock + 1 \in Stamps
      BY <1>3, <1>4, Basics DEF Stamps
    <3> QED BY <1>3, <3>1 DEF OtpInv, FreshStampsAreUnused, Fresh
  <2>2. \A x \in Requests : Replacing(x)' <=> Replacing(x)
    BY <1>1, <1>2 DEF Replacing
  <2>3. (pc'[p] = "insert" /\ mine'[q] # 0 /\ Exists(mine'[q])) =>
            {p, q} \in overlapped \/ mine'[q] < mine'[p]
    <3>1. CASE p = r
      BY <1>2, <1>6, <3>1, <1>3
    <3>2. CASE q = r
      BY <1>2, <2>1, <3>2
    <3>3. CASE p # r /\ q # r
      BY <1>2, <3>3 DEF OtpInv, ReplacementsAreRecorded
    <3> QED BY <3>1, <3>2, <3>3
  <2>4. ASSUME mine'[p] # 0, Unconsumed(mine'[p], keyOf[q]),
               Replacing(q)' \/ (mine'[q] # 0 /\ Exists(mine'[q]))
        PROVE  \/ {p, q} \in overlapped
               \/ (mine'[q] # 0 /\ mine'[q] < mine'[p])
    <3>1. p # r
      BY <1>2, <2>1, <2>4 DEF Unconsumed
    <3>2. CASE q = r
      BY <1>1, <1>2, <1>3, <2>4, <3>1, <3>2
         DEF OtpInv, ReplacementsAreRecorded, Replacing
    <3>3. CASE q # r
      BY <1>2, <2>2, <2>4, <3>1, <3>3 DEF OtpInv, ReplacementsAreRecorded
    <3> QED BY <3>2, <3>3
  <2> QED BY <2>2, <2>3, <2>4 DEF OtpInv, ReplacementsAreRecorded
<1>14. AcceptedOnce' /\ AnswersWithinMax'
  BY <1>1 DEF OtpInv, AcceptedOnce, AnswersWithinMax, Exists
<1> QED BY <1>5, <1>7, <1>9, <1>10, <1>11, <1>12, <1>13, <1>14 DEF OtpInv

\* The document of a request arrives at a stamp nobody has answered.
LEMMA InsertInv ==
    ASSUME OtpInv, NEW r \in Requests, Insert(r)
    PROVE  OtpInv'
<1> DEFINE m == mine[r]
           doc == [key |-> keyOf[r], attempts |-> 0, consumed |-> FALSE]
<1>1. /\ pc[r] = "insert" /\ pc' = [pc EXCEPT ![r] = "mail"]
      /\ otps' = [otps EXCEPT ![m] = doc]
      /\ UNCHANGED <<expired, clock, keyOf, mine, seen, seenAttempts, code,
                     mailed, overlapped, answered, accepted, contended>>
  BY DEF Insert, history, locals
<1>2. /\ pc'[r] = "mail"
      /\ \A q \in Requests \ {r} : pc'[q] = pc[q]
      /\ \A a \in Answers : pc'[a] = pc[a]
  BY <1>1, Basics DEF OtpInv, TypeOK
<1>3. m \in Stamps /\ m # 0 /\ doc \in Otp
  BY <1>1, MaxAttemptsAssumption DEF OtpInv, StampsAreTakenOnce, TypeOK, Otp
<1>4. /\ otps'[m] = doc
      /\ Exists(m)'
      /\ \A s \in Stamps \ {m} : otps'[s] = otps[s] /\ (Exists(s)' <=> Exists(s))
  BY <1>1, <1>3, Basics DEF OtpInv, TypeOK, Exists
<1>5. TypeOK'
  <2>1. otps' \in [Stamps -> Otp \cup {NoOtp}]
    BY <1>1, <1>3 DEF OtpInv, TypeOK
  <2>2. pc' \in [Calls -> PC]
    BY <1>1 DEF OtpInv, TypeOK, PC, Running
  <2> QED BY <1>1, <2>1, <2>2 DEF OtpInv, TypeOK
<1>6. StampsAreTakenOnce'
  BY <1>1, <1>2, <1>3 DEF OtpInv, StampsAreTakenOnce, Taken
<1>7. Fresh(m)
  BY <1>1 DEF Fresh
<1>8. ~Exists(m) /\ answered[m] = 0 /\ accepted[m] = 0
  BY <1>3, <1>7 DEF OtpInv, FreshStampsAreUnused
<1>9. \A s \in Stamps : Fresh(s)' => Fresh(s) /\ s # m
  <2> SUFFICES ASSUME NEW s \in Stamps, Fresh(s)'
               PROVE  Fresh(s) /\ s # m
    OBVIOUS
  <2>1. CASE s > clock'
    BY <1>1, <1>3, <2>1, Basics
       DEF Fresh, OtpInv, StampsAreTakenOnce, Stamps, TypeOK
  <2>2. ASSUME NEW q \in Requests, pc'[q] = "insert", mine'[q] = s
        PROVE  Fresh(s) /\ s # m
    <3>1. q # r /\ pc[q] = "insert" /\ mine[q] = s
      BY <1>1, <1>2, <2>2
    <3> QED BY <1>3, <3>1 DEF Fresh, OtpInv, StampsAreTakenOnce
  <2> QED BY <2>1, <2>2 DEF Fresh
<1>10. FreshStampsAreUnused'
  BY <1>1, <1>4, <1>9 DEF OtpInv, FreshStampsAreUnused
<1>11. DocumentsHaveRequests'
  <2> SUFFICES ASSUME NEW s \in Stamps, Exists(s)'
               PROVE  \E q \in Requests : mine[q] = s
                                        /\ keyOf[q] = otps'[s].key
    BY <1>1 DEF DocumentsHaveRequests
  <2>1. CASE s = m
    BY <1>4, <2>1
  <2>2. CASE s # m
    BY <1>4, <2>2 DEF OtpInv, DocumentsHaveRequests
  <2> QED BY <2>1, <2>2
<1>12. AnswersAreFit'
  <2> SUFFICES ASSUME NEW a \in Answers, pc'[a] = "save"
               PROVE  Fits(a)'
    BY <1>1, <1>2 DEF OtpInv, AnswersAreFit
  <2>1. Fits(a) /\ seen[a] # m
    BY <1>2, <1>7 DEF OtpInv, AnswersAreFit, Fits
  <2> QED BY <1>1, <1>4, <1>9, <2>1 DEF Fits
<1>13. MeetingsAreRecorded'
  BY <1>1, <1>2 DEF OtpInv, MeetingsAreRecorded
<1>14. ReplacementsAreRecorded'
  <2> SUFFICES ASSUME NEW p \in Requests, NEW q \in Requests, p # q
      PROVE  /\ (Replacing(p)' /\ Replacing(q)') => {p, q} \in overlapped
             /\ (pc'[p] = "insert" /\ mine[q] # 0 /\ Exists(mine[q])') =>
                    {p, q} \in overlapped \/ mine[q] < mine[p]
             /\ (/\ mine[p] # 0 /\ Unconsumed(mine[p], keyOf[q])'
                 /\ Replacing(q)' \/ (mine[q] # 0 /\ Exists(mine[q])')) =>
                    \/ {p, q} \in overlapped
                    \/ (mine[q] # 0 /\ mine[q] < mine[p])
    BY <1>1 DEF ReplacementsAreRecorded, Unconsumed, Exists
  <2>1. /\ \A x \in Requests : Replacing(x)' => Replacing(x)
        /\ pc'[p] = "insert" => pc[p] = "insert"
    BY <1>2 DEF Replacing
  <2>2. /\ mine[p] # 0 => mine[p] \in Stamps
        /\ mine[q] # 0 => mine[q] \in Stamps
    BY DEF OtpInv, TypeOK
  <2>3. (p # r => mine[p] # m) /\ (q # r => mine[q] # m)
    BY <1>3 DEF OtpInv, StampsAreTakenOnce
  <2>4. (pc'[p] = "insert" /\ mine[q] # 0 /\ Exists(mine[q])') =>
            {p, q} \in overlapped \/ mine[q] < mine[p]
    <3>1. CASE q = r
      BY <1>1, <2>1, <3>1 DEF OtpInv, ReplacementsAreRecorded, Replacing
    <3>2. CASE q # r
      BY <1>1, <1>4, <2>1, <2>2, <2>3, <3>2
         DEF OtpInv, ReplacementsAreRecorded, Exists
    <3> QED BY <3>1, <3>2
  <2>5. ASSUME mine[p] # 0, Unconsumed(mine[p], keyOf[q])',
               Replacing(q)' \/ (mine[q] # 0 /\ Exists(mine[q])')
        PROVE  \/ {p, q} \in overlapped
               \/ (mine[q] # 0 /\ mine[q] < mine[p])
    <3>1. CASE p = r
      <4>1. Replacing(q) \/ (mine[q] # 0 /\ Exists(mine[q]))
        BY <1>1, <1>4, <2>1, <2>2, <2>3, <2>5, <3>1 DEF Exists
      <4> QED BY <1>1, <3>1, <4>1 DEF OtpInv, ReplacementsAreRecorded, Replacing
    <3>2. CASE p # r
      <4>1. Unconsumed(mine[p], keyOf[q])
        BY <1>1, <1>4, <2>2, <2>3, <2>5, <3>2 DEF Unconsumed, Exists
      <4>2. Replacing(q) \/ (mine[q] # 0 /\ Exists(mine[q]))
        BY <1>1, <1>4, <2>1, <2>2, <2>3, <2>5 DEF Replacing
      <4> QED BY <2>5, <4>1, <4>2 DEF OtpInv, ReplacementsAreRecorded
    <3> QED BY <3>1, <3>2
  <2> QED BY <2>1, <2>4, <2>5 DEF OtpInv, ReplacementsAreRecorded
<1>15. AcceptedOnce' /\ AnswersWithinMax'
  BY <1>1, <1>4, <1>8, MaxAttemptsAssumption
     DEF OtpInv, AcceptedOnce, AnswersWithinMax
<1> QED BY <1>5, <1>6, <1>10, <1>11, <1>12, <1>13, <1>14, <1>15 DEF OtpInv

\* An answer under way holds what is stored, or meets another one.
LEMMA FindInv ==
    ASSUME OtpInv, NEW a \in Answers, NEW k \in Keys, NEW s \in Stamps,
           NEW c \in Stamps \cup {0}, FindCode(a, k, s, c)
    PROVE  OtpInv'
<1>1. /\ pc[a] = "idle" /\ NewestLive(s, k) /\ otps[s].attempts < MaxAttempts
      /\ pc' = [pc EXCEPT ![a] = "save"]
      /\ keyOf' = [keyOf EXCEPT ![a] = k]
      /\ seen' = [seen EXCEPT ![a] = s]
      /\ seenAttempts' = [seenAttempts EXCEPT ![a] = otps[s].attempts]
      /\ code' = [code EXCEPT ![a] = c]
      /\ contended' = IF \E b \in Answers : Checking(b, s)
                      THEN contended \cup {s} ELSE contended
      /\ UNCHANGED <<otps, expired, clock, mine, mailed, overlapped, answered,
                     accepted>>
  BY DEF FindCode
<1>2. /\ pc'[a] = "save" /\ keyOf'[a] = k /\ seen'[a] = s
      /\ seenAttempts'[a] = otps[s].attempts
      /\ \A b \in Answers \ {a} :
            /\ pc'[b] = pc[b] /\ keyOf'[b] = keyOf[b] /\ seen'[b] = seen[b]
            /\ seenAttempts'[b] = seenAttempts[b]
      /\ \A r \in Requests : pc'[r] = pc[r] /\ keyOf'[r] = keyOf[r]
  BY <1>1, Basics DEF OtpInv, TypeOK
<1>3. Exists(s) /\ otps[s].key = k /\ ~otps[s].consumed /\ otps[s] \in Otp
  BY <1>1 DEF NewestLive, Live, Unconsumed, Exists, OtpInv, TypeOK
<1>4. TypeOK'
  <2>1. seenAttempts' \in [Answers -> 0 .. MaxAttempts]
    BY <1>1, <1>3 DEF OtpInv, TypeOK, Otp
  <2>2. pc' \in [Calls -> PC] /\ keyOf' \in [Calls -> Keys \cup {NoKey}]
    BY <1>1 DEF OtpInv, TypeOK, PC, Running
  <2>3. seen' \in [Answers -> Stamps \cup {0}] /\ contended' \subseteq Stamps
        /\ code' \in [Answers -> Stamps \cup {0}]
    BY <1>1 DEF OtpInv, TypeOK
  <2> QED BY <1>1, <2>1, <2>2, <2>3 DEF OtpInv, TypeOK
<1>5. StampsAreTakenOnce'
  BY <1>1, <1>2 DEF OtpInv, StampsAreTakenOnce, Taken
<1>6. \A t \in Stamps : Fresh(t)' <=> Fresh(t)
  BY <1>1, <1>2 DEF Fresh
<1>7. FreshStampsAreUnused'
  BY <1>1, <1>6 DEF OtpInv, FreshStampsAreUnused, Exists
<1>8. DocumentsHaveRequests'
  BY <1>1, <1>2 DEF OtpInv, DocumentsHaveRequests, Exists
<1>9. contended \subseteq contended'
  BY <1>1
<1>10. AnswersAreFit'
  <2>1. Fits(a)'
    <3>1. ~Fresh(s)'
      BY <1>3, <1>6 DEF OtpInv, FreshStampsAreUnused
    <3>2. /\ otps[s].attempts <= answered[s]
          /\ accepted[s] = 0
      BY <1>3 DEF OtpInv, TypeOK, AnswersWithinMax, AcceptedOnce
    <3> QED BY <1>1, <1>2, <1>3, <3>1, <3>2 DEF Fits, Exists
  <2>2. ASSUME NEW b \in Answers \ {a}, pc'[b] = "save"
        PROVE  Fits(b)'
    <3>1. Fits(b)
      BY <1>2, <2>2 DEF OtpInv, AnswersAreFit
    <3> QED BY <1>1, <1>2, <1>6, <1>9, <3>1 DEF Fits, Exists
  <2> QED BY <1>2, <2>1, <2>2 DEF OtpInv, AnswersAreFit
<1>11. MeetingsAreRecorded'
  <2>1. \A b \in Answers \ {a} :
            (pc'[b] = "save" /\ seen'[b] = s) => s \in contended'
    BY <1>1, <1>2 DEF Checking
  <2> QED BY <1>2, <1>9, <2>1 DEF OtpInv, MeetingsAreRecorded
<1>12. ReplacementsAreRecorded'
  BY <1>1, <1>2
     DEF OtpInv, ReplacementsAreRecorded, Replacing, Unconsumed, Exists
<1>13. AcceptedOnce' /\ AnswersWithinMax'
  BY <1>1, <1>9 DEF OtpInv, AcceptedOnce, AnswersWithinMax, Exists
<1> QED BY <1>4, <1>5, <1>7, <1>8, <1>10, <1>11, <1>12, <1>13 DEF OtpInv

\* A saved answer counts one attempt, and consumes the code when it is right.
LEMMA SaveInv ==
    ASSUME OtpInv, NEW a \in Answers, SaveAnswer(a)
    PROVE  OtpInv'
<1> DEFINE s == seen[a]
           new == Counted(otps[s], seenAttempts[a], IsRight(a))
<1>1. /\ pc[a] = "save" /\ Exists(s)
      /\ otps' = [otps EXCEPT ![s] = new]
      /\ answered' = [answered EXCEPT ![s] = @ + 1]
      /\ accepted' = [accepted EXCEPT ![s] = IF IsRight(a) THEN @ + 1 ELSE @]
      /\ pc' = [pc EXCEPT ![a] = IF IsRight(a) THEN "done" ELSE "rejected"]
      /\ UNCHANGED <<expired, clock, keyOf, mine, seen, seenAttempts, code,
                     mailed, overlapped, contended>>
  BY DEF SaveAnswer, locals
<1>2. /\ Fits(a) /\ s \in Stamps /\ otps[s] \in Otp
      /\ seenAttempts[a] \in Nat /\ seenAttempts[a] < MaxAttempts
      /\ answered[s] \in Nat /\ accepted[s] \in Nat
  BY <1>1, MaxAttemptsAssumption
     DEF OtpInv, AnswersAreFit, Fits, TypeOK, Exists
<1>3. /\ new \in Otp
      /\ new.key = otps[s].key
      /\ otps[s].consumed => new.consumed
      /\ IsRight(a) => new.consumed
      /\ ~IsRight(a) => new.consumed = otps[s].consumed
      /\ new.attempts <= answered[s] + 1
      /\ seenAttempts[a] = otps[s].attempts => new.attempts = otps[s].attempts + 1
  <2>1. /\ otps[s].attempts \in 0 .. MaxAttempts
        /\ otps[s].consumed \in BOOLEAN
        /\ otps[s].attempts <= answered[s]
        /\ seenAttempts[a] <= answered[s]
    BY <1>1, <1>2 DEF Otp, OtpInv, AnswersWithinMax, Fits
  <2>2. /\ new.attempts = Modified(otps[s].attempts, seenAttempts[a],
                                   seenAttempts[a] + 1)
        /\ new.consumed = Modified(otps[s].consumed, FALSE, IsRight(a))
        /\ new.key = otps[s].key
        /\ new = [key |-> otps[s].key, attempts |-> new.attempts,
                  consumed |-> new.consumed]
    <3> DEFINE at == Modified(otps[s].attempts, seenAttempts[a],
                              seenAttempts[a] + 1)
               co == Modified(otps[s].consumed, FALSE, IsRight(a))
    <3>1. new = [otps[s] EXCEPT !.attempts = at, !.consumed = co]
      BY DEF Counted
    <3> HIDE DEF at, co, new
    <3>2. new = [key |-> otps[s].key, attempts |-> at, consumed |-> co]
      BY <1>2, <3>1 DEF Otp
    <3>3. new.attempts = at /\ new.consumed = co /\ new.key = otps[s].key
      BY <3>2
    <3> QED BY <3>2, <3>3 DEF at, co
  <2> HIDE DEF new
  <2>3. IsRight(a) \in BOOLEAN
    BY DEF IsRight
  <2>4. new.attempts = seenAttempts[a] + 1
    BY <1>2, <2>2 DEF Modified
  <2>5. new.consumed \in BOOLEAN
    BY <2>1, <2>2, <2>3 DEF Modified
  <2>6. new \in Otp
    <3>1. new.attempts \in 0 .. MaxAttempts
      BY <1>2, <2>4, MaxAttemptsAssumption
    <3>2. otps[s].key \in Keys
      BY <1>2 DEF Otp
    <3> QED BY <2>2, <2>5, <3>1, <3>2 DEF Otp
  <2>7. /\ otps[s].consumed => new.consumed
        /\ IsRight(a) => new.consumed
        /\ ~IsRight(a) => new.consumed = otps[s].consumed
    BY <2>1, <2>2, <2>3 DEF Modified
  <2>8. /\ new.attempts <= answered[s] + 1
        /\ seenAttempts[a] = otps[s].attempts => new.attempts = otps[s].attempts + 1
    BY <1>2, <2>1, <2>4
  <2> QED BY <2>2, <2>6, <2>7, <2>8
<1> HIDE DEF new
<1>4. /\ otps'[s] = new /\ Exists(s)'
      /\ answered'[s] = answered[s] + 1
      /\ accepted'[s] = IF IsRight(a) THEN accepted[s] + 1 ELSE accepted[s]
      /\ \A t \in Stamps \ {s} :
            /\ otps'[t] = otps[t] /\ answered'[t] = answered[t]
            /\ accepted'[t] = accepted[t]
  BY <1>1, <1>2, <1>3, Basics DEF OtpInv, TypeOK, Exists
<1>5. /\ pc'[a] \in {"done", "rejected"}
      /\ \A b \in Answers \ {a} : pc'[b] = pc[b]
      /\ \A r \in Requests : pc'[r] = pc[r]
  BY <1>1, Basics DEF OtpInv, TypeOK
<1>6. TypeOK'
  <2>1. otps' \in [Stamps -> Otp \cup {NoOtp}]
    BY <1>1, <1>3 DEF OtpInv, TypeOK
  <2>2. pc' \in [Calls -> PC]
    BY <1>1 DEF OtpInv, TypeOK, PC
  <2>3. answered' \in [Stamps -> Nat] /\ accepted' \in [Stamps -> Nat]
    BY <1>1, <1>2 DEF OtpInv, TypeOK
  <2> QED BY <1>1, <2>1, <2>2, <2>3 DEF OtpInv, TypeOK
<1>7. StampsAreTakenOnce'
  BY <1>1, <1>5 DEF OtpInv, StampsAreTakenOnce, Taken
<1>8. \A t \in Stamps : (Fresh(t)' <=> Fresh(t)) /\ (Exists(t)' <=> Exists(t))
  BY <1>1, <1>4, <1>5 DEF Fresh, Exists
<1>9. ~Fresh(s)
  BY <1>2 DEF Fits
<1>10. FreshStampsAreUnused'
  BY <1>4, <1>8, <1>9 DEF OtpInv, FreshStampsAreUnused
<1>11. DocumentsHaveRequests'
  <2> SUFFICES ASSUME NEW t \in Stamps, Exists(t)'
               PROVE  \E q \in Requests : mine[q] = t
                                        /\ keyOf[q] = otps'[t].key
    BY <1>1 DEF DocumentsHaveRequests
  <2>1. Exists(t) /\ otps'[t].key = otps[t].key
    BY <1>3, <1>4, <1>8
  <2> QED BY <2>1 DEF OtpInv, DocumentsHaveRequests
<1>12. AnswersAreFit'
  <2>1. \A b \in Answers : pc'[b] = "idle" => seen'[b] = 0
    BY <1>1, <1>5 DEF OtpInv, AnswersAreFit
  <2>2. ASSUME NEW b \in Answers, pc'[b] = "save"
        PROVE  Fits(b)'
    <3>1. b # a /\ pc[b] = "save" /\ Fits(b)
      BY <1>5, <2>2 DEF OtpInv, AnswersAreFit
    <3>2. CASE seen[b] = s
      <4>1. s \in contended
        BY <1>1, <3>1, <3>2 DEF OtpInv, MeetingsAreRecorded
      <4>2. seenAttempts[b] \in Nat
        BY MaxAttemptsAssumption DEF OtpInv, TypeOK
      <4> QED BY <1>1, <1>2, <1>3, <1>4, <1>8, <3>1, <3>2, <4>1, <4>2
              DEF Fits, Exists
    <3>3. CASE seen[b] # s
      BY <1>1, <1>4, <1>8, <3>1, <3>3 DEF Fits, Exists
    <3> QED BY <3>2, <3>3
  <2> QED BY <2>1, <2>2 DEF AnswersAreFit
<1>13. MeetingsAreRecorded'
  BY <1>1, <1>5 DEF OtpInv, MeetingsAreRecorded
<1>14. ReplacementsAreRecorded'
  <2>1. \A t \in Stamps, k \in Keys \cup {NoKey} :
            Unconsumed(t, k)' => Unconsumed(t, k)
    BY <1>3, <1>4, <1>8 DEF Unconsumed
  <2>2. \A r \in Requests :
            /\ mine[r] # 0 => mine[r] \in Stamps
            /\ keyOf[r] \in Keys \cup {NoKey}
            /\ Replacing(r)' <=> Replacing(r)
    BY <1>5, Basics DEF OtpInv, TypeOK, Replacing
  <2>3. \A p, q \in Requests :
            /\ (mine[p] # 0 /\ Unconsumed(mine[p], keyOf[q])')
                    => Unconsumed(mine[p], keyOf[q])
            /\ (mine[q] # 0 /\ Exists(mine[q])') => Exists(mine[q])
    BY <1>1, <1>8, <2>1, <2>2 DEF Unconsumed, Exists
  <2> QED BY <1>1, <1>5, <2>2, <2>3 DEF OtpInv, ReplacementsAreRecorded
<1>15. AcceptedOnce'
  <2>1. s \notin contended => accepted[s] = 0
    BY <1>1, <1>2 DEF Fits
  <2> QED BY <1>1, <1>2, <1>3, <1>4, <1>8, <2>1 DEF OtpInv, AcceptedOnce
<1>16. AnswersWithinMax'
  <2>1. s \notin contended => /\ seenAttempts[a] = otps[s].attempts
                              /\ otps[s].attempts = answered[s]
    BY <1>1, <1>2 DEF Fits, OtpInv, AnswersWithinMax
  <2> QED BY <1>1, <1>2, <1>3, <1>4, <1>8, <2>1, MaxAttemptsAssumption
          DEF OtpInv, AnswersWithinMax
<1> QED BY <1>6, <1>7, <1>10, <1>11, <1>12, <1>13, <1>14, <1>15, <1>16 DEF OtpInv

\* A document that is removed leaves nothing to keep.
LEMMA PurgeInv ==
    ASSUME OtpInv, NEW s \in Stamps, Purge(s)
    PROVE  OtpInv'
<1>1. /\ otps' = [otps EXCEPT ![s] = NoOtp]
      /\ UNCHANGED <<expired, clock, pc, keyOf, mine, seen, seenAttempts, code,
                     mailed, overlapped, answered, accepted, contended>>
  BY DEF Purge, history, locals
<1>2. /\ ~Exists(s)'
      /\ \A t \in Stamps \ {s} : otps'[t] = otps[t] /\ (Exists(t)' <=> Exists(t))
      /\ \A t \in Stamps : Fresh(t)' <=> Fresh(t)
  BY <1>1 DEF OtpInv, TypeOK, Exists, Fresh
<1>3. TypeOK'
  BY <1>1 DEF OtpInv, TypeOK
<1>4. StampsAreTakenOnce' /\ MeetingsAreRecorded'
  BY <1>1 DEF OtpInv, StampsAreTakenOnce, Taken, MeetingsAreRecorded
<1>5. FreshStampsAreUnused' /\ DocumentsHaveRequests'
  BY <1>1, <1>2 DEF OtpInv, FreshStampsAreUnused, DocumentsHaveRequests
<1>6. AnswersAreFit'
  <2> SUFFICES ASSUME NEW a \in Answers, pc[a] = "save", Fits(a)
               PROVE  Fits(a)'
    BY <1>1 DEF OtpInv, AnswersAreFit
  <2> QED BY <1>1, <1>2 DEF Fits, Exists
<1>7. ReplacementsAreRecorded'
  <2>1. \A t \in Stamps : Exists(t)' => Exists(t) /\ otps'[t] = otps[t]
    BY <1>2
  <2>2. \A r \in Requests : mine[r] # 0 => mine[r] \in Stamps
    BY DEF OtpInv, TypeOK
  <2> QED BY <1>1, <2>1, <2>2
          DEF OtpInv, ReplacementsAreRecorded, Replacing, Unconsumed, Exists
<1>8. AcceptedOnce' /\ AnswersWithinMax'
  BY <1>1, <1>2 DEF OtpInv, AcceptedOnce, AnswersWithinMax
<1> QED BY <1>3, <1>4, <1>5, <1>6, <1>7, <1>8 DEF OtpInv

-----------------------------------------------------------------------------
\* Every step keeps the invariant: one case for each action.
LEMMA NextOtp == OtpInv /\ [Next]_vars => OtpInv'
<1> SUFFICES ASSUME OtpInv, [Next]_vars PROVE OtpInv'
  OBVIOUS
<1>1. ASSUME NEW r \in Requests, NEW k \in Keys, Retire(r, k) PROVE OtpInv'
  BY <1>1, RetireInv
<1>2. ASSUME NEW r \in Requests, Stamp(r) PROVE OtpInv'
  BY <1>2, StampInv
<1>3. ASSUME NEW r \in Requests, Insert(r) PROVE OtpInv'
  BY <1>3, InsertInv
<1>4. ASSUME NEW r \in Requests, SendMail(r) PROVE OtpInv'
  <2>1. mine[r] \in Stamps
    BY <1>4 DEF SendMail, OtpInv, TypeOK, StampsAreTakenOnce
  <2>2. /\ pc' \in [Calls -> PC]
        /\ \A c \in Calls : pc'[c] = pc[c] \/ pc'[c] = "done"
    BY <1>4, Basics DEF SendMail, OtpInv, TypeOK, PC
  <2> QED BY <1>4, <2>1, <2>2, QuietInv DEF SendMail, OtpInv, TypeOK, locals
<1>5. ASSUME NEW a \in Answers, NEW k \in Keys,
             RejectNoCode(a, k) \/ RejectLocked(a, k)
      PROVE  OtpInv'
  <2>1. /\ pc' \in [Calls -> PC]
        /\ \A c \in Calls : pc'[c] = pc[c] \/ pc'[c] \in {"rejected", "locked"}
    BY <1>5, Basics DEF RejectNoCode, RejectLocked, OtpInv, TypeOK, PC
  <2> QED BY <1>5, <2>1, QuietInv
          DEF RejectNoCode, RejectLocked, OtpInv, TypeOK, locals, history
<1>6. ASSUME NEW a \in Answers, NEW k \in Keys, NEW s \in Stamps,
             NEW c \in Stamps \cup {0}, FindCode(a, k, s, c)
      PROVE  OtpInv'
  BY <1>6, FindInv
<1>7. ASSUME NEW a \in Answers, SaveAnswer(a) PROVE OtpInv'
  BY <1>7, SaveInv
<1>8. ASSUME NEW c \in Calls, pc' = [pc EXCEPT ![c] = "failed"],
             UNCHANGED <<otps, expired, clock, locals, history>>
      PROVE  OtpInv'
  <2>1. /\ pc' \in [Calls -> PC]
        /\ \A d \in Calls : pc'[d] = pc[d] \/ pc'[d] = "failed"
    BY <1>8 DEF OtpInv, TypeOK, PC
  <2> QED BY <1>8, <2>1, QuietInv DEF OtpInv, TypeOK, locals, history
<1>9. ASSUME NEW s \in Stamps, Expire(s) PROVE OtpInv'
  BY <1>9, QuietInv DEF Expire, OtpInv, TypeOK, locals, history
<1>10. ASSUME NEW s \in Stamps, Purge(s) PROVE OtpInv'
  BY <1>10, PurgeInv
<1>11. CASE UNCHANGED vars
  BY <1>11, QuietInv DEF vars, OtpInv, TypeOK
<1> QED
  BY <1>1, <1>2, <1>3, <1>4, <1>5, <1>6, <1>7, <1>8, <1>9, <1>10, <1>11, Basics
     DEF Next, SaveMissing, Abort

\* The invariant holds of every reachable state.
LEMMA OtpInvariant == Spec => []OtpInv
BY InitOtp, NextOtp, PTL DEF Spec

\* The collection and the calls keep their types; no request runs out of
\* stamps, and no attempt is counted beyond OTP_MAX_ATTEMPTS (otp.service.ts).
THEOREM OtpTypesHold == Spec => []TypeOK
<1>1. OtpInv => TypeOK
  BY DEF OtpInv
<1> QED BY <1>1, OtpInvariant, PTL

\* A code is accepted at most once unless two answers met on it, and a code
\* that was answered right is consumed (consumeOtp).
THEOREM CodesAreAcceptedOnce == Spec => []AcceptedOnce
<1>1. OtpInv => AcceptedOnce
  BY DEF OtpInv
<1> QED BY <1>1, OtpInvariant, PTL

\* A code counts no attempt that was not made, and every one that was unless
\* two answers met on it; then at most OTP_MAX_ATTEMPTS are answered
\* (consumeOtp).
THEOREM AttemptsAreCounted == Spec => []AnswersWithinMax
<1>1. OtpInv => AnswersWithinMax
  BY DEF OtpInv
<1> QED BY <1>1, OtpInvariant, PTL

\* Two unretired codes of a key come from requests that overlapped between
\* updateMany and create (requestOtp).
THEOREM OldCodesAreRetired == Spec => []OldCodesRetired
<1>1. ASSUME OtpInv, NEW k \in Keys, NEW s \in Stamps, NEW t \in Stamps,
             Unconsumed(s, k), Exists(t), otps[t].key = k, s < t
      PROVE  \E q, r \in Requests :
                mine[q] = s /\ mine[r] = t /\ {q, r} \in overlapped
  <2>1. PICK q \in Requests : mine[q] = s /\ keyOf[q] = k
    BY <1>1 DEF OtpInv, DocumentsHaveRequests, Unconsumed
  <2>2. PICK r \in Requests : mine[r] = t /\ keyOf[r] = k
    BY <1>1 DEF OtpInv, DocumentsHaveRequests
  <2>3. q # r /\ mine[q] # 0 /\ mine[r] # 0 /\ ~(t < s)
    BY <1>1, <2>1, <2>2, Basics DEF Stamps
  <2>4. {q, r} \in overlapped
    BY <1>1, <2>1, <2>2, <2>3 DEF OtpInv, ReplacementsAreRecorded
  <2> QED BY <2>1, <2>2, <2>4
<1>2. OtpInv => OldCodesRetired
  BY <1>1 DEF OldCodesRetired
<1> QED BY <1>2, OtpInvariant, PTL

-----------------------------------------------------------------------------
(* EmailOtp implements OneTimeCodes: what the refinement mapping shows.     *)

IssuedMap == {s \in 1 .. clock :
                \A r \in Requests : ~(pc[r] = "insert" /\ mine[r] = s)}
HeldMap == [a \in Answers |-> IF seen[a] = 0 THEN NoOtp
                              ELSE [id |-> seen[a], key |-> keyOf[a]]]
AcceptedMap == {a \in Answers : pc[a] = "done"}
codesMap == <<IssuedMap, LiveCodes, HeldMap, AcceptedMap>>

LEMMA InitCodes == Init => Codes!CodesInit
<1> SUFFICES ASSUME Init PROVE Codes!CodesInit
  OBVIOUS
<1>1. IssuedMap = {}
  BY DEF Init, IssuedMap
<1>2. LiveCodes = {}
  BY DEF Init, LiveCodes, Live, Unconsumed, Exists
<1>3. HeldMap = [a \in Answers |-> NoOtp] /\ AcceptedMap = {}
  BY Basics DEF Init, HeldMap, AcceptedMap
<1> QED BY <1>1, <1>2, <1>3 DEF Codes!CodesInit, IssuedMap, HeldMap, AcceptedMap

\* A code shows in the mapping by its stamp and its key.
LEMMA LiveCode ==
    ASSUME OtpInv, NEW s \in Stamps, NEW k \in Keys
    PROVE  [id |-> s, key |-> k] \in LiveCodes <=> Live(s, k)
BY DEF LiveCodes

\* A step that leaves the documents, the stamps and what the answers hold.
LEMMA QuietCodes ==
    ASSUME OtpInv, UNCHANGED <<otps, expired, clock, mine, seen, keyOf>>,
           \A r \in Requests : pc'[r] = "insert" <=> pc[r] = "insert",
           \A a \in Answers : pc'[a] = "done" <=> pc[a] = "done"
    PROVE  UNCHANGED codesMap
<1>1. IssuedMap' = IssuedMap /\ AcceptedMap' = AcceptedMap
  BY DEF IssuedMap, AcceptedMap
<1>2. LiveCodes' = LiveCodes /\ HeldMap' = HeldMap
  BY DEF LiveCodes, Live, Unconsumed, Exists, HeldMap
<1> QED BY <1>1, <1>2 DEF codesMap

\* updateMany ends the codes of the key.
LEMMA RetireCodes ==
    ASSUME OtpInv, NEW r \in Requests, NEW k \in Keys, Retire(r, k)
    PROVE  Codes!Retire(k)
<1>1. LiveCodes' = {c \in LiveCodes : c.key # k}
  <2> SUFFICES ASSUME NEW s \in Stamps, NEW j \in Keys
               PROVE  Live(s, j)' <=> Live(s, j) /\ j # k
    BY DEF LiveCodes
  <2>1. otps[s] \in Otp \cup {NoOtp} /\ expired' = expired
    BY DEF Retire, OtpInv, TypeOK
  <2>2. otps'[s] = IF Unconsumed(s, k) THEN [otps[s] EXCEPT !.consumed = TRUE]
                   ELSE otps[s]
    BY DEF Retire
  <2>3. CASE Unconsumed(s, k)
    <3>1. otps[s] \in Otp /\ otps[s].key = k
      BY <2>1, <2>3 DEF Unconsumed, Exists
    <3>2. otps'[s].consumed
      BY <2>2, <2>3, <3>1 DEF Otp
    <3> QED BY <3>1, <3>2 DEF Live, Unconsumed
  <2>4. CASE ~Unconsumed(s, k)
    BY <2>1, <2>2, <2>4 DEF Live, Unconsumed, Exists
  <2> QED BY <2>3, <2>4
<1>2. /\ \A q \in Requests : pc'[q] = "insert" <=> pc[q] = "insert"
      /\ \A a \in Answers : pc'[a] = pc[a] /\ keyOf'[a] = keyOf[a]
  BY Basics DEF Retire, OtpInv, TypeOK
<1>3. IssuedMap' = IssuedMap /\ AcceptedMap' = AcceptedMap
  BY <1>2 DEF IssuedMap, AcceptedMap, Retire
<1>4. HeldMap' = HeldMap
  BY <1>2 DEF HeldMap, Retire
<1> QED BY <1>1, <1>3, <1>4 DEF Codes!Retire, IssuedMap, AcceptedMap, HeldMap

\* A stamp that is taken shows when its document arrives.
LEMMA StampCodes ==
    ASSUME OtpInv, NEW r \in Requests, Stamp(r)
    PROVE  UNCHANGED codesMap
<1>1. /\ mine[r] = 0 /\ mine'[r] = clock + 1 /\ pc'[r] = "insert"
      /\ pc[r] = "stamp" /\ clock' = clock + 1 /\ clock \in Nat
      /\ \A q \in Requests \ {r} : pc'[q] = pc[q] /\ mine'[q] = mine[q]
      /\ \A a \in Answers : pc'[a] = pc[a]
      /\ UNCHANGED <<otps, expired, seen, keyOf>>
  BY Basics DEF Stamp, OtpInv, TypeOK, StampsAreTakenOnce
<1>2. IssuedMap' = IssuedMap
  <2>1. ASSUME NEW s \in 1 .. (clock + 1)
        PROVE  s \in IssuedMap' <=> s \in IssuedMap
    <3>1. CASE s = clock + 1
      BY <1>1, <3>1 DEF IssuedMap
    <3>2. CASE s # clock + 1
      BY <1>1, <3>2 DEF IssuedMap
    <3> QED BY <3>1, <3>2
  <2> QED BY <1>1, <2>1 DEF IssuedMap
<1>3. LiveCodes' = LiveCodes /\ HeldMap' = HeldMap /\ AcceptedMap' = AcceptedMap
  BY <1>1 DEF LiveCodes, Live, Unconsumed, Exists, HeldMap, AcceptedMap
<1> QED BY <1>2, <1>3 DEF codesMap

\* A document that arrives is a code issued, or given up when it is late; one
\* that is lost is given up too.
LEMMA ArrivalFacts ==
    ASSUME OtpInv, NEW r \in Requests, pc[r] = "insert",
           pc'[r] # "insert", \A q \in Requests \ {r} : pc'[q] = pc[q],
           UNCHANGED <<clock, mine>>
    PROVE  /\ mine[r] \in Stamps
           /\ mine[r] \notin IssuedMap
           /\ IssuedMap' = IssuedMap \cup {mine[r]}
<1>1. mine[r] # 0 /\ mine[r] \in Stamps /\ mine[r] <= clock /\ clock \in Nat
  BY Basics DEF OtpInv, StampsAreTakenOnce, TypeOK
<1>2. \A q \in Requests \ {r} : mine[q] # mine[r]
  BY <1>1 DEF OtpInv, StampsAreTakenOnce
<1>3. mine[r] \notin IssuedMap
  BY DEF IssuedMap
<1>4. mine[r] \in IssuedMap'
  BY <1>1, <1>2 DEF IssuedMap, Stamps
<1>5. \A s \in 1 .. clock : s # mine[r] => (s \in IssuedMap' <=> s \in IssuedMap)
  BY DEF IssuedMap
<1> QED BY <1>1, <1>3, <1>4, <1>5 DEF IssuedMap

LEMMA InsertCodes ==
    ASSUME OtpInv, NEW r \in Requests, Insert(r)
    PROVE  Codes!CodesNext
<1> DEFINE m == mine[r]
           doc == [key |-> keyOf[r], attempts |-> 0, consumed |-> FALSE]
<1>1. /\ pc[r] = "insert" /\ otps' = [otps EXCEPT ![m] = doc]
      /\ pc'[r] = "mail" /\ \A q \in Requests \ {r} : pc'[q] = pc[q]
      /\ \A a \in Answers : pc'[a] = pc[a]
      /\ UNCHANGED <<clock, mine, expired, seen, keyOf>>
  BY Basics DEF Insert, locals, OtpInv, TypeOK
<1>2. m \in Stamps /\ m \notin IssuedMap /\ IssuedMap' = IssuedMap \cup {m}
  BY <1>1, ArrivalFacts
<1>3. keyOf[r] \in Keys /\ ~Exists(m) /\ doc # NoOtp
  <2>1. keyOf[r] \in Keys /\ Fresh(m)
    BY <1>1 DEF OtpInv, StampsAreTakenOnce, Fresh
  <2>2. doc \in Otp
    BY <2>1, MaxAttemptsAssumption DEF Otp
  <2> QED BY <1>2, <2>1, <2>2, Basics DEF OtpInv, FreshStampsAreUnused
<1>4. /\ otps'[m] = doc
      /\ \A s \in Stamps \ {m} : otps'[s] = otps[s]
  BY <1>1, <1>2 DEF OtpInv, TypeOK
<1>5. HeldMap' = HeldMap /\ AcceptedMap' = AcceptedMap
  BY <1>1 DEF HeldMap, AcceptedMap
<1>6. \A s \in Stamps, k \in Keys : Live(s, k)'
        <=> Live(s, k) \/ (s = m /\ k = keyOf[r] /\ m \notin expired)
  BY <1>1, <1>3, <1>4 DEF Live, Unconsumed, Exists
<1>7. CASE m \in expired
  <2>1. LiveCodes' = LiveCodes
    BY <1>6, <1>7 DEF LiveCodes
  <2>2. PICK i \in Stamps : i = m
    BY <1>2
  <2>3. Codes!GiveUp(i)
    BY <1>2, <1>5, <2>1, <2>2 DEF Codes!GiveUp, IssuedMap, HeldMap, AcceptedMap
  <2> QED BY <2>3 DEF Codes!CodesNext
<1>8. CASE m \notin expired
  <2>1. PICK c \in Codes!Code : c = [id |-> m, key |-> keyOf[r]]
    BY <1>2, <1>3 DEF Codes!Code
  <2>2. LiveCodes' = LiveCodes \cup {c}
    BY <1>2, <1>3, <1>6, <1>8, <2>1 DEF LiveCodes
  <2>3. Codes!Issue(c)
    BY <1>2, <1>5, <2>1, <2>2
       DEF Codes!Issue, IssuedMap, HeldMap, AcceptedMap
  <2> QED BY <2>3 DEF Codes!CodesNext
<1> QED BY <1>7, <1>8

\* The code an answer finds is valid.
LEMMA FindCodes ==
    ASSUME OtpInv, NEW a \in Answers, NEW k \in Keys, NEW s \in Stamps,
           NEW c \in Stamps \cup {0}, FindCode(a, k, s, c)
    PROVE  Codes!CodesNext
<1> DEFINE f == [id |-> s, key |-> k]
<1>1. /\ pc[a] = "idle" /\ Live(s, k)
      /\ pc'[a] = "save" /\ seen'[a] = s /\ keyOf'[a] = k
      /\ \A b \in Answers \ {a} :
            pc'[b] = pc[b] /\ seen'[b] = seen[b] /\ keyOf'[b] = keyOf[b]
      /\ \A r \in Requests : pc'[r] = pc[r]
      /\ UNCHANGED <<otps, expired, clock, mine>>
  BY Basics DEF FindCode, NewestLive, OtpInv, TypeOK
<1>2. f \in Codes!Code /\ f \in LiveCodes
  BY <1>1 DEF Codes!Code, LiveCodes
<1>3. HeldMap[a] = NoOtp
  BY <1>1 DEF HeldMap, OtpInv, AnswersAreFit
<1>4. HeldMap' = [HeldMap EXCEPT ![a] = f]
  <2>1. s # 0
    BY Basics DEF Stamps
  <2>2. \A b \in Answers : HeldMap'[b] = IF b = a THEN f ELSE HeldMap[b]
    BY <1>1, <2>1 DEF HeldMap
  <2> QED BY <2>2 DEF HeldMap
<1>5. IssuedMap' = IssuedMap /\ LiveCodes' = LiveCodes /\ AcceptedMap' = AcceptedMap
  BY <1>1 DEF IssuedMap, LiveCodes, Live, Unconsumed, Exists, AcceptedMap
<1>6. Codes!Find(a, f)
  BY <1>2, <1>3, <1>4, <1>5 DEF Codes!Find, IssuedMap, HeldMap, AcceptedMap
<1> QED BY <1>2, <1>6 DEF Codes!CodesNext

\* A right answer ends the code it found, whatever became of it since; a wrong
\* one shows nothing.
LEMMA SaveCodes ==
    ASSUME OtpInv, NEW a \in Answers, SaveAnswer(a)
    PROVE  Codes!CodesNext \/ UNCHANGED codesMap
<1> DEFINE s == seen[a]
           new == Counted(otps[s], seenAttempts[a], IsRight(a))
<1>1. /\ pc[a] = "save" /\ Exists(s) /\ otps' = [otps EXCEPT ![s] = new]
      /\ pc'[a] = IF IsRight(a) THEN "done" ELSE "rejected"
      /\ \A b \in Answers \ {a} : pc'[b] = pc[b]
      /\ \A r \in Requests : pc'[r] = pc[r]
      /\ UNCHANGED <<expired, clock, mine, seen, keyOf>>
  BY Basics DEF SaveAnswer, locals, OtpInv, TypeOK
<1>2. /\ s \in Stamps /\ s # 0 /\ otps[s] \in Otp
      /\ otps[s].key = keyOf[a] /\ keyOf[a] \in Keys
  BY <1>1, Basics DEF OtpInv, AnswersAreFit, Fits, TypeOK, Exists, Stamps
<1>3. /\ new.key = otps[s].key
      /\ new.consumed <=> otps[s].consumed \/ IsRight(a)
      /\ new # NoOtp
  <2> DEFINE at == Modified(otps[s].attempts, seenAttempts[a],
                            seenAttempts[a] + 1)
             co == Modified(otps[s].consumed, FALSE, IsRight(a))
  <2>1. new = [otps[s] EXCEPT !.attempts = at, !.consumed = co]
    BY DEF Counted
  <2>2. at \in 0 .. MaxAttempts
    BY <1>1, MaxAttemptsAssumption
       DEF Modified, OtpInv, TypeOK, AnswersAreFit, Fits
  <2>3. IsRight(a) \in BOOLEAN /\ otps[s].consumed \in BOOLEAN
    BY <1>2 DEF IsRight, Otp
  <2>4. co \in BOOLEAN /\ (co <=> otps[s].consumed \/ IsRight(a))
    BY <2>3 DEF Modified
  <2> HIDE DEF at, co, new
  <2>5. new = [key |-> otps[s].key, attempts |-> at, consumed |-> co]
    BY <1>2, <2>1 DEF Otp
  <2>6. new \in Otp
    BY <1>2, <2>2, <2>4, <2>5 DEF Otp
  <2> QED BY <2>4, <2>5, <2>6, Basics
<1> HIDE DEF new
<1>4. /\ otps'[s] = new
      /\ \A t \in Stamps \ {s} : otps'[t] = otps[t]
  BY <1>1, <1>2 DEF OtpInv, TypeOK
<1>5. \A t \in Stamps, k \in Keys : Live(t, k)'
        <=> Live(t, k) /\ ~(IsRight(a) /\ t = s)
  BY <1>1, <1>2, <1>3, <1>4 DEF Live, Unconsumed, Exists
<1>6. IssuedMap' = IssuedMap /\ HeldMap' = HeldMap
  BY <1>1 DEF IssuedMap, HeldMap
<1>7. CASE IsRight(a)
  <2>1. HeldMap[a] = [id |-> s, key |-> keyOf[a]]
    BY <1>2 DEF HeldMap
  <2>2. HeldMap[a] # NoOtp
    BY <1>2, <2>1, NoOtpAssumption
  <2>3. a \notin AcceptedMap /\ AcceptedMap' = AcceptedMap \cup {a}
    BY <1>1, <1>7 DEF AcceptedMap
  <2>4. LiveCodes' = LiveCodes \ {HeldMap[a]}
    <3>1. \A k \in Keys : Live(s, k) => k = keyOf[a]
      BY <1>2 DEF Live, Unconsumed
    <3> QED BY <1>2, <1>5, <1>7, <2>1, <3>1 DEF LiveCodes
  <2>5. Codes!Accept(a)
    BY <1>6, <2>2, <2>3, <2>4
       DEF Codes!Accept, IssuedMap, HeldMap, AcceptedMap
  <2> QED BY <2>5 DEF Codes!CodesNext
<1>8. CASE ~IsRight(a)
  <2>1. AcceptedMap' = AcceptedMap
    BY <1>1, <1>8 DEF AcceptedMap
  <2>2. LiveCodes' = LiveCodes
    BY <1>5, <1>8 DEF LiveCodes
  <2> QED BY <1>6, <2>1, <2>2 DEF codesMap
<1> QED BY <1>7, <1>8

\* A call that fails gives up the code that was on its way.
LEMMA AbortCodes ==
    ASSUME OtpInv, NEW c \in Calls, Abort(c)
    PROVE  Codes!CodesNext \/ UNCHANGED codesMap
<1>1. /\ pc[c] \in Running /\ pc'[c] = "failed"
      /\ \A d \in Calls \ {c} : pc'[d] = pc[d]
      /\ UNCHANGED <<otps, expired, clock, mine, seen, keyOf>>
  BY DEF Abort, locals, OtpInv, TypeOK
<1>2. CASE c \in Requests /\ pc[c] = "insert"
  <2>1. /\ mine[c] \in Stamps /\ mine[c] \notin IssuedMap
        /\ IssuedMap' = IssuedMap \cup {mine[c]}
    BY <1>1, <1>2, Basics, ArrivalFacts
  <2>2. LiveCodes' = LiveCodes /\ HeldMap' = HeldMap
    BY <1>1 DEF LiveCodes, Live, Unconsumed, Exists, HeldMap
  <2>3. AcceptedMap' = AcceptedMap
    BY <1>1, <1>2, Basics DEF AcceptedMap
  <2>4. PICK i \in Stamps : i = mine[c]
    BY <2>1
  <2>5. Codes!GiveUp(i)
    BY <2>1, <2>2, <2>3, <2>4
       DEF Codes!GiveUp, IssuedMap, HeldMap, AcceptedMap
  <2> QED BY <2>5 DEF Codes!CodesNext
<1>3. CASE ~(c \in Requests /\ pc[c] = "insert")
  <2>1. /\ \A r \in Requests : pc'[r] = "insert" <=> pc[r] = "insert"
        /\ \A a \in Answers : pc'[a] = "done" <=> pc[a] = "done"
    BY <1>1, <1>3, Basics DEF Running
  <2> QED BY <1>1, <2>1, QuietCodes
<1> QED BY <1>2, <1>3

\* The code of a stamp ends when its time has passed, and its removal from the
\* collection does not show.
LEMMA ExpireCodes ==
    ASSUME OtpInv, NEW s \in Stamps, Expire(s)
    PROVE  Codes!CodesNext \/ UNCHANGED codesMap
<1>1. /\ expired' = expired \cup {s}
      /\ UNCHANGED <<otps, clock, pc, mine, seen, keyOf>>
  BY DEF Expire, locals
<1>2. IssuedMap' = IssuedMap /\ HeldMap' = HeldMap /\ AcceptedMap' = AcceptedMap
  BY <1>1 DEF IssuedMap, HeldMap, AcceptedMap
<1>3. \A t \in Stamps, k \in Keys : Live(t, k)' <=> Live(t, k) /\ t # s
  BY <1>1 DEF Live, Unconsumed, Exists
<1>4. CASE \E k \in Keys : Live(s, k)
  <2>1. PICK k \in Keys : Live(s, k)
    BY <1>4
  <2> DEFINE c == [id |-> s, key |-> k]
  <2>2. c \in Codes!Code
    BY DEF Codes!Code
  <2>3. LiveCodes' = LiveCodes \ {c}
    <3>1. \A j \in Keys : Live(s, j) => j = k
      BY <2>1 DEF Live, Unconsumed
    <3> QED BY <1>3, <2>1, <3>1 DEF LiveCodes
  <2>4. Codes!Expire(c)
    BY <1>2, <2>3 DEF Codes!Expire, IssuedMap, HeldMap, AcceptedMap
  <2> QED BY <2>2, <2>4 DEF Codes!CodesNext
<1>5. CASE \A k \in Keys : ~Live(s, k)
  <2>1. LiveCodes' = LiveCodes
    BY <1>3, <1>5 DEF LiveCodes
  <2> QED BY <1>2, <2>1 DEF codesMap
<1> QED BY <1>4, <1>5

LEMMA PurgeCodes ==
    ASSUME OtpInv, NEW s \in Stamps, Purge(s)
    PROVE  UNCHANGED codesMap
<1>1. /\ otps' = [otps EXCEPT ![s] = NoOtp] /\ s \in expired
      /\ UNCHANGED <<expired, clock, pc, mine, seen, keyOf>>
  BY DEF Purge, locals
<1>2. \A t \in Stamps, k \in Keys : Live(t, k)' <=> Live(t, k)
  BY <1>1 DEF Live, Unconsumed, Exists, OtpInv, TypeOK
<1>3. IssuedMap' = IssuedMap /\ HeldMap' = HeldMap /\ AcceptedMap' = AcceptedMap
  BY <1>1 DEF IssuedMap, HeldMap, AcceptedMap
<1> QED BY <1>2, <1>3 DEF codesMap, LiveCodes

\* Every step is a step of the codes, or shows nothing.
LEMMA NextCodes ==
    ASSUME OtpInv, [Next]_vars
    PROVE  Codes!CodesNext \/ UNCHANGED codesMap
<1>1. ASSUME NEW r \in Requests, NEW k \in Keys, Retire(r, k)
      PROVE  Codes!CodesNext
  BY <1>1, RetireCodes DEF Codes!CodesNext
<1>2. ASSUME NEW r \in Requests, SendMail(r) PROVE UNCHANGED codesMap
  <2>1. /\ pc[r] = "mail" /\ pc' = [pc EXCEPT ![r] = "done"]
        /\ UNCHANGED <<otps, expired, clock, mine, seen, keyOf>>
    BY <1>2 DEF SendMail, locals
  <2>2. /\ \A q \in Requests : pc'[q] = "insert" <=> pc[q] = "insert"
        /\ \A a \in Answers : pc'[a] = "done" <=> pc[a] = "done"
    BY <2>1, Basics DEF OtpInv, TypeOK
  <2> QED BY <2>1, <2>2, QuietCodes
<1>3. ASSUME NEW a \in Answers, NEW x \in {"rejected", "locked", "failed"},
             pc[a] \in {"idle", "save"}, pc' = [pc EXCEPT ![a] = x],
             UNCHANGED <<otps, expired, clock, locals>>
      PROVE  UNCHANGED codesMap
  <2>1. /\ \A q \in Requests : pc'[q] = "insert" <=> pc[q] = "insert"
        /\ \A b \in Answers : pc'[b] = "done" <=> pc[b] = "done"
    BY <1>3, Basics DEF OtpInv, TypeOK
  <2> QED BY <1>3, <2>1, QuietCodes DEF locals
<1>4. ASSUME NEW a \in Answers, NEW k \in Keys,
             RejectNoCode(a, k) \/ RejectLocked(a, k)
      PROVE  UNCHANGED codesMap
  BY <1>3, <1>4 DEF RejectNoCode, RejectLocked
<1>5. ASSUME NEW a \in Answers, SaveMissing(a) PROVE UNCHANGED codesMap
  BY <1>3, <1>5 DEF SaveMissing
<1>6. CASE UNCHANGED vars
  BY <1>6, QuietCodes DEF vars
<1> QED
  BY <1>1, <1>2, <1>4, <1>5, <1>6, StampCodes, InsertCodes, FindCodes, SaveCodes,
     AbortCodes, ExpireCodes, PurgeCodes DEF Next

\* The service keeps the promise of OneTimeCodes: no code becomes valid again,
\* and every accepted answer found a valid code and ended it.
THEOREM OtpRefinesCodes == Spec => ImplementsCodes
<1>1. OtpInv /\ [Next]_vars => [Codes!CodesNext]_codesMap
  BY NextCodes
<1>2. OtpInv /\ [Next]_vars => [Codes!CodesNext]_(Codes!codes)
  BY <1>1 DEF codesMap, IssuedMap, HeldMap, AcceptedMap, Codes!codes
<1> QED BY InitCodes, <1>2, OtpInvariant, PTL
        DEF Spec, ImplementsCodes, Codes!CodesSpec

=============================================================================

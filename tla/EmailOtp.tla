------------------------------ MODULE EmailOtp ------------------------------
(***************************************************************************)
(* One-time codes of src/otp: OtpService.requestOtp retires the live codes *)
(* of an email and purpose, stores a new one and mails it;                 *)
(* OtpService.consumeOtp looks up the newest live code, counts the attempt *)
(* and consumes the code when the answer is right.                         *)
(*                                                                         *)
(* A key is an email together with a purpose.  A document is named by the  *)
(* time stamp (createdAt) the application gives it: stamps are 1, 2, ...   *)
(* in the order the requests take them, which need not be the order in     *)
(* which the documents reach the database.                                 *)
(***************************************************************************)
EXTENDS Integers, FiniteSets, Mongoose

CONSTANTS
    Keys,           \* email and purpose pairs
    Requests,       \* calls of requestOtp
    Answers,        \* calls of consumeOtp
    MaxAttempts,    \* OTP_MAX_ATTEMPTS
    NoKey,          \* no key
    NoOtp           \* the absent document

ASSUME MaxAttemptsAssumption == MaxAttempts \in Nat \ {0}
ASSUME RequestsAssumption == IsFiniteSet(Requests) /\ Requests \cap Answers = {}
ASSUME NoKeyAssumption == NoKey \notin Keys

\* Every request takes one stamp.
Stamps == 1 .. Cardinality(Requests)

\* An Otp document: its email and purpose, how many attempts it counted, and
\* whether consumedAt is set.  The code of a document is named by its stamp.
Otp == [key : Keys, attempts : 0 .. MaxAttempts, consumed : BOOLEAN]

ASSUME NoOtpAssumption == NoOtp \notin Otp \cup [id : Stamps, key : Keys]

VARIABLES
    otps,           \* the collection, by stamp
    expired,        \* stamps whose expiresAt the clock has passed
    clock,          \* the last stamp taken
    pc,             \* where each call is
    keyOf,          \* the key a call is about
    mine,           \* the stamp a request took
    seen,           \* the stamp of the document an answer found
    seenAttempts,   \* the attempts it found there
    code,           \* the code an answer carries: a stamp, or 0 for a wrong one
    mailed,         \* history: stamps whose code was mailed
    overlapped,     \* history: pairs of requests that replaced codes at once
    answered,       \* history: answers given on each stamp
    accepted,       \* history: right answers given on each stamp
    contended       \* history: stamps two answers were checked on at once

vars == <<otps, expired, clock, pc, keyOf, mine, seen, seenAttempts, code,
          mailed, overlapped, answered, accepted, contended>>

locals == <<keyOf, mine, seen, seenAttempts, code>>
history == <<mailed, overlapped, answered, accepted, contended>>

Calls == Requests \cup Answers
Running == {"stamp", "insert", "mail", "save"}
PC == {"idle", "done", "failed", "rejected", "locked"} \cup Running

Exists(s) == otps[s] # NoOtp

\* What the filters of updateMany and findOne select; only findOne also looks
\* at the expiry.
Unconsumed(s, k) == Exists(s) /\ otps[s].key = k /\ ~otps[s].consumed
Live(s, k) == Unconsumed(s, k) /\ s \notin expired

-----------------------------------------------------------------------------
Init ==
    /\ otps = [s \in Stamps |-> NoOtp]
    /\ expired = {}
    /\ clock = 0
    /\ pc = [c \in Calls |-> "idle"]
    /\ keyOf = [c \in Calls |-> NoKey]
    /\ mine = [r \in Requests |-> 0]
    /\ seen = [a \in Answers |-> 0]
    /\ seenAttempts = [a \in Answers |-> 0]
    /\ code = [a \in Answers |-> 0]
    /\ mailed = {}
    /\ overlapped = {}
    /\ answered = [s \in Stamps |-> 0]
    /\ accepted = [s \in Stamps |-> 0]
    /\ contended = {}

\* Request q has retired the old codes and not inserted its own yet.
Replacing(q) == pc[q] \in {"stamp", "insert"}

\* MUTANT: the codes sent before stay valid.
RetireKeepingOld(r, k) ==
    /\ pc[r] = "idle"
    /\ keyOf' = [keyOf EXCEPT ![r] = k]
    /\ overlapped' = overlapped \cup
            {{r, q} : q \in {p \in Requests : Replacing(p)}}
    /\ pc' = [pc EXCEPT ![r] = "stamp"]
    /\ UNCHANGED <<otps, expired, clock, mine, seen, seenAttempts, code,
                   mailed, answered, accepted, contended>>

\* updateMany sets consumedAt on every unconsumed code of the key, expired
\* ones included.  (Hashing the new code comes first and touches nothing.)
Retire(r, k) ==
    /\ pc[r] = "idle"
    /\ otps' = [s \in Stamps |->
                    IF Unconsumed(s, k) THEN [otps[s] EXCEPT !.consumed = TRUE]
                    ELSE otps[s]]
    /\ keyOf' = [keyOf EXCEPT ![r] = k]
    /\ overlapped' = overlapped \cup
            {{r, q} : q \in {p \in Requests : Replacing(p)}}
    /\ pc' = [pc EXCEPT ![r] = "stamp"]
    /\ UNCHANGED <<expired, clock, mine, seen, seenAttempts, code, mailed,
                   answered, accepted, contended>>

\* create() gives the new document its createdAt and its expiresAt.
Stamp(r) ==
    /\ pc[r] = "stamp"
    /\ clock' = clock + 1
    /\ mine' = [mine EXCEPT ![r] = clock + 1]
    /\ pc' = [pc EXCEPT ![r] = "insert"]
    /\ UNCHANGED <<otps, expired, keyOf, seen, seenAttempts, code, history>>

\* The document reaches the database.
Insert(r) ==
    /\ pc[r] = "insert"
    /\ otps' = [otps EXCEPT ![mine[r]] =
                    [key |-> keyOf[r], attempts |-> 0, consumed |-> FALSE]]
    /\ pc' = [pc EXCEPT ![r] = "mail"]
    /\ UNCHANGED <<expired, clock, locals, history>>

\* sendOtp delivers the code, or skips it when email is disabled.
SendMail(r) ==
    /\ pc[r] = "mail"
    /\ mailed' = mailed \cup {mine[r]}
    /\ pc' = [pc EXCEPT ![r] = "done"]
    /\ UNCHANGED <<otps, expired, clock, locals, overlapped, answered, accepted,
                   contended>>

-----------------------------------------------------------------------------
\* findOne, newest first, finds no live code of the key: 400.
RejectNoCode(a, k) ==
    /\ pc[a] = "idle"
    /\ \A s \in Stamps : ~Live(s, k)
    /\ pc' = [pc EXCEPT ![a] = "rejected"]
    /\ UNCHANGED <<otps, expired, clock, locals, history>>

\* The document findOne returns: live, and the newest of its key.
NewestLive(s, k) == Live(s, k) /\ \A t \in Stamps : Live(t, k) => t <= s

\* It counted too many attempts already: 429, whatever the answer.
RejectLocked(a, k) ==
    /\ pc[a] = "idle"
    /\ \E s \in Stamps :
        /\ NewestLive(s, k)
        /\ otps[s].attempts >= MaxAttempts
    /\ pc' = [pc EXCEPT ![a] = "locked"]
    /\ UNCHANGED <<otps, expired, clock, locals, history>>

\* Answer b has read the document stamped s and not saved it yet.
Checking(b, s) == pc[b] = "save" /\ seen[b] = s

\* MUTANT: the limit is checked one attempt too late.
FindCodeOneMore(a, k, s, c) ==
    /\ pc[a] = "idle"
    /\ NewestLive(s, k)
    /\ otps[s].attempts <= MaxAttempts
    /\ pc' = [pc EXCEPT ![a] = "save"]
    /\ keyOf' = [keyOf EXCEPT ![a] = k]
    /\ seen' = [seen EXCEPT ![a] = s]
    /\ seenAttempts' = [seenAttempts EXCEPT ![a] = otps[s].attempts]
    /\ code' = [code EXCEPT ![a] = c]
    /\ contended' = IF \E b \in Answers : Checking(b, s)
                    THEN contended \cup {s} ELSE contended
    /\ UNCHANGED <<otps, expired, clock, mine, mailed, overlapped, answered,
                   accepted>>

\* It may be answered: the attempt is counted in memory, the answer compared
\* (a second await that reads nothing) and the document saved.
FindCode(a, k, s, c) ==
    /\ pc[a] = "idle"
    /\ NewestLive(s, k)
    /\ otps[s].attempts < MaxAttempts
    /\ pc' = [pc EXCEPT ![a] = "save"]
    /\ keyOf' = [keyOf EXCEPT ![a] = k]
    /\ seen' = [seen EXCEPT ![a] = s]
    /\ seenAttempts' = [seenAttempts EXCEPT ![a] = otps[s].attempts]
    /\ code' = [code EXCEPT ![a] = c]
    /\ contended' = IF \E b \in Answers : Checking(b, s)
                    THEN contended \cup {s} ELSE contended
    /\ UNCHANGED <<otps, expired, clock, mine, mailed, overlapped, answered,
                   accepted>>

IsRight(a) == code[a] = seen[a]

\* MUTANT: save() writes the whole document back.
CountedWhole(current, attemptsRead, right) ==
    [current EXCEPT !.attempts = attemptsRead + 1, !.consumed = right]

\* MUTANT: a right answer leaves the code unconsumed.
CountedOnly(current, attemptsRead, right) ==
    [current EXCEPT !.attempts = attemptsRead + 1]

\* The document after save(): consumedAt is written only when it was set.
Counted(current, attemptsRead, right) ==
    [current EXCEPT
        !.attempts = Modified(@, attemptsRead, attemptsRead + 1),
        !.consumed = Modified(@, FALSE, right)]

\* save() of a document that is still there; the handler then answers.
SaveAnswer(a) ==
    LET s == seen[a]
    IN  /\ pc[a] = "save"
        /\ Exists(s)
        /\ otps' = [otps EXCEPT ![s] =
                        Counted(@, seenAttempts[a], IsRight(a))]
        /\ answered' = [answered EXCEPT ![s] = @ + 1]
        /\ accepted' = [accepted EXCEPT ![s] =
                            IF IsRight(a) THEN @ + 1 ELSE @]
        /\ pc' = [pc EXCEPT ![a] = IF IsRight(a) THEN "done" ELSE "rejected"]
        /\ UNCHANGED <<expired, clock, locals, mailed, overlapped, contended>>

\* save() of a document the TTL index removed: DocumentNotFoundError.
SaveMissing(a) ==
    /\ pc[a] = "save"
    /\ ~Exists(seen[a])
    /\ pc' = [pc EXCEPT ![a] = "failed"]
    /\ UNCHANGED <<otps, expired, clock, locals, history>>

-----------------------------------------------------------------------------
\* The mail server refuses, a database call fails or the instance stops.
Abort(c) ==
    /\ pc[c] \in Running
    /\ pc' = [pc EXCEPT ![c] = "failed"]
    /\ UNCHANGED <<otps, expired, clock, locals, history>>

\* The clock passes expiresAt (possibly before a slow insert).
Expire(s) ==
    /\ s <= clock
    /\ s \notin expired
    /\ expired' = expired \cup {s}
    /\ UNCHANGED <<otps, clock, pc, locals, history>>

\* The TTL index of MongoDB removes an expired document, some time later.
Purge(s) ==
    /\ Exists(s)
    /\ s \in expired
    /\ otps' = [otps EXCEPT ![s] = NoOtp]
    /\ UNCHANGED <<expired, clock, pc, locals, history>>

Next ==
    \/ \E r \in Requests, k \in Keys : Retire(r, k)
    \/ \E r \in Requests : Stamp(r) \/ Insert(r) \/ SendMail(r)
    \/ \E a \in Answers, k \in Keys : RejectNoCode(a, k) \/ RejectLocked(a, k)
    \/ \E a \in Answers, k \in Keys, s \in Stamps, c \in Stamps \cup {0} :
            FindCode(a, k, s, c)
    \/ \E a \in Answers : SaveAnswer(a) \/ SaveMissing(a)
    \/ \E c \in Calls : Abort(c)
    \/ \E s \in Stamps : Expire(s) \/ Purge(s)

Spec == Init /\ [][Next]_vars

-----------------------------------------------------------------------------
(* Properties of every interleaving, with failures at any await.           *)

TypeOK ==
    /\ otps \in [Stamps -> Otp \cup {NoOtp}]
    /\ expired \subseteq Stamps
    /\ clock \in 0 .. Cardinality(Requests)
    /\ pc \in [Calls -> PC]
    /\ keyOf \in [Calls -> Keys \cup {NoKey}]
    /\ mine \in [Requests -> Stamps \cup {0}]
    /\ seen \in [Answers -> Stamps \cup {0}]
    /\ seenAttempts \in [Answers -> 0 .. MaxAttempts]
    /\ code \in [Answers -> Stamps \cup {0}]
    /\ mailed \subseteq Stamps
    /\ overlapped \subseteq SUBSET Requests
    /\ answered \in [Stamps -> Nat]
    /\ accepted \in [Stamps -> Nat]
    /\ contended \subseteq Stamps

\* A code outlives a newer one of its key only when the requests that made
\* them overlapped between updateMany and create (lines 28 to 38).
OldCodesRetired ==
    \A k \in Keys : \A s, t \in Stamps :
        (Unconsumed(s, k) /\ Exists(t) /\ otps[t].key = k /\ s < t)
            => \E q, r \in Requests :
                mine[q] = s /\ mine[r] = t /\ {q, r} \in overlapped

\* A code that was answered right is consumed for as long as it is stored, and
\* is accepted at most once unless two answers met on it (lines 54 to 83).
AcceptedOnce ==
    \A s \in Stamps :
        /\ (Exists(s) /\ accepted[s] > 0) => otps[s].consumed
        /\ s \notin contended => accepted[s] <= 1

\* Nobody is locked out early: a code never counts more attempts than the
\* answers given on it.  Unless two answers met on it, it is answered at most
\* OTP_MAX_ATTEMPTS times and counts every answer (lines 69 to 82).
AnswersWithinMax ==
    \A s \in Stamps :
        /\ Exists(s) => otps[s].attempts <= answered[s]
        /\ s \notin contended =>
            /\ answered[s] <= MaxAttempts
            /\ Exists(s) => otps[s].attempts = answered[s]

\* A document stands for a valid code while findOne would return it, if it is
\* the newest of its key.
LiveCodes == {c \in [id : Stamps, key : Keys] : Live(c.id, c.key)}

Codes == INSTANCE OneTimeCodes WITH
    Ids <- Stamps,
    None <- NoOtp,
    issued <- {s \in 1 .. clock :
                \A r \in Requests : ~(pc[r] = "insert" /\ mine[r] = s)},
    live <- LiveCodes,
    held <- [a \in Answers |-> IF seen[a] = 0 THEN NoOtp
                               ELSE [id |-> seen[a], key |-> keyOf[a]]],
    accepted <- {a \in Answers : pc[a] = "done"}

\* The service keeps what OneTimeCodes promises: a code that was retired, used
\* or has expired is never valid again, whatever stale document an answer
\* saves, no stamp is used for two codes, and an answer is accepted only for a
\* code that was valid when it was found (requestOtp and consumeOtp).
ImplementsCodes == Codes!CodesSpec

=============================================================================

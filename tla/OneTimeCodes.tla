---------------------------- MODULE OneTimeCodes ----------------------------
(***************************************************************************)
(* What the one-time codes promise to the flows that build on them: a code *)
(* is issued at most once and, when it has been retired, used or has       *)
(* expired, never becomes valid again; an answer is accepted only for a    *)
(* code that was valid when it was found, and ends it.  EmailOtp           *)
(* implements it.                                                          *)
(***************************************************************************)
CONSTANTS
    Ids,            \* names of codes
    Keys,           \* email and purpose pairs
    Answers,        \* calls that answer a code
    None            \* no code

\* A code as its holder knows it.
Code == [id : Ids, key : Keys]

VARIABLES
    issued,         \* the codes that were issued, or given up before
    live,           \* the codes that are valid
    held,           \* the code each answer has found, or None
    accepted        \* the answers that were accepted

codes == <<issued, live, held, accepted>>

CodesInit ==
    /\ issued = {}
    /\ live = {}
    /\ held = [a \in Answers |-> None]
    /\ accepted = {}

\* A request of a new code ends those of its key.
Retire(k) ==
    /\ live' = {c \in live : c.key # k}
    /\ UNCHANGED <<issued, held, accepted>>

\* A new code becomes valid.
Issue(c) ==
    /\ c.id \notin issued
    /\ issued' = issued \cup {c.id}
    /\ live' = live \cup {c}
    /\ UNCHANGED <<held, accepted>>

\* A new code is lost or late before it becomes valid.
GiveUp(i) ==
    /\ i \notin issued
    /\ issued' = issued \cup {i}
    /\ UNCHANGED <<live, held, accepted>>

\* An answer finds a valid code.
Find(a, c) ==
    /\ held[a] = None
    /\ c \in live
    /\ held' = [held EXCEPT ![a] = c]
    /\ UNCHANGED <<issued, live, accepted>>

\* It is right, which ends the code.
Accept(a) ==
    /\ held[a] # None
    /\ a \notin accepted
    /\ accepted' = accepted \cup {a}
    /\ live' = live \ {held[a]}
    /\ UNCHANGED <<issued, held>>

\* A code expires.
Expire(c) ==
    /\ live' = live \ {c}
    /\ UNCHANGED <<issued, held, accepted>>

CodesNext ==
    \/ \E k \in Keys : Retire(k)
    \/ \E c \in Code : Issue(c) \/ Expire(c) \/ \E a \in Answers : Find(a, c)
    \/ \E i \in Ids : GiveUp(i)
    \/ \E a \in Answers : Accept(a)

CodesSpec == CodesInit /\ [][CodesNext]_codes

=============================================================================

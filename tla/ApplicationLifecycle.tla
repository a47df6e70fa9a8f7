------------------------ MODULE ApplicationLifecycle ------------------------
(***************************************************************************)
(* What the merchant application promises, one atomic decision at a time:  *)
(* a merchant submits, an administrator approves or rejects what was       *)
(* submitted, and the merchant may submit again.  A verdict replaces       *)
(* another only while the application is contested: several administrators *)
(* took it up when it was under review.  MerchantOnboarding, with its      *)
(* handlers that read, check and then write, implements it.                *)
(***************************************************************************)
CONSTANT Merchants

VARIABLES
    status,         \* "none", "draft", "underReview", "approved", "rejected"
    contested       \* applications several administrators hold at once

Undecided == {"none", "draft"}
Decided == {"approved", "rejected"}

Init ==
    /\ status \in [Merchants -> Undecided]
    /\ contested = {}

\* The first draft of a merchant that registered without a profile.
StartDraft(m) ==
    /\ status[m] = "none"
    /\ status' = [status EXCEPT ![m] = "draft"]
    /\ UNCHANGED contested

Submit(m) ==
    /\ status' = [status EXCEPT ![m] = "underReview"]
    /\ UNCHANGED contested

Contest(m) ==
    /\ status[m] = "underReview"
    /\ contested' = contested \cup {m}
    /\ UNCHANGED status

\* All who held the application have decided or given up.
Settle(m) ==
    /\ contested' = contested \ {m}
    /\ UNCHANGED status

Decide(m) ==
    /\ status[m] = "underReview" \/ m \in contested
    /\ \E verdict \in Decided : status' = [status EXCEPT ![m] = verdict]
    /\ contested' \in {contested, contested \ {m}}

Next ==
    \E m \in Merchants :
        StartDraft(m) \/ Submit(m) \/ Contest(m) \/ Settle(m) \/ Decide(m)

Spec == Init /\ [][Next]_<<status, contested>>

=============================================================================

----------------------------- MODULE SupportFeed -----------------------------
(***************************************************************************)
(* What public support promises to those who use it: conversations are     *)
(* opened, once and for all; a call adds at most one message, to a         *)
(* conversation that is open; messages are kept; and only a call whose     *)
(* message is there is answered with success.  SupportInbox implements it, *)
(* SupportConsole builds on it.                                            *)
(***************************************************************************)
EXTENDS SupportParties

VARIABLES
    opened,         \* the visitors who have a conversation
    wrote,          \* the conversation of each call's message, or None
    answered        \* the calls answered with success, and a message

feed == <<opened, wrote, answered>>

MessagesIn(v) == {m \in Calls : wrote[m] = v}

Stored == {m \in Calls : wrote[m] # None}

FeedInit ==
    /\ opened \in SUBSET Visitors
    /\ wrote = [c \in Calls |-> None]
    /\ answered = {}

Open(v) ==
    /\ v \notin opened
    /\ opened' = opened \cup {v}
    /\ UNCHANGED <<wrote, answered>>

Write(c, v) ==
    /\ v \in opened
    /\ wrote[c] = None
    /\ wrote' = [wrote EXCEPT ![c] = v]
    /\ UNCHANGED <<opened, answered>>

End(c) ==
    /\ wrote[c] # None
    /\ c \notin answered
    /\ answered' = answered \cup {c}
    /\ UNCHANGED <<opened, wrote>>

FeedNext ==
    \/ \E v \in Visitors : Open(v)
    \/ \E c \in Calls : End(c) \/ \E v \in Visitors : Write(c, v)

FeedSpec == FeedInit /\ [][FeedNext]_feed

=============================================================================

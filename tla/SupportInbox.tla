---------------------------- MODULE SupportInbox ----------------------------
(***************************************************************************)
(* Public support (src/chat/chat.service.ts): a visitor without an account *)
(* has one conversation, found or created by his messages                  *)
(* (sendPublicSupportMessage, getPublicSupportConversation); every         *)
(* administrator may reply (sendPublicSupportAdminReply) and becomes the   *)
(* one it is assigned to.  A unique index on the visitor makes the second  *)
(* of two concurrent creations fail.                                       *)
(***************************************************************************)
EXTENDS Mongoose, SupportParties

CONSTANTS
    Admins,         \* administrators
    FirstAdmin      \* the oldest of them

\* A SupportConversation document, found by its visitor.  lastMessageAt is
\* represented by the messages that the database held when it was taken.
Conversation == [assignedAdmin : Admins, lastMessageAt : SUBSET Calls]

\* A SupportMessage document; "admin" is absent when the visitor wrote it.
Message == [conversation : Visitors, admin : Admins \cup {None}]

ASSUME FirstAdminAssumption == FirstAdmin \in Admins
ASSUME NoneAssumption ==
    None \notin Admins \cup Conversation \cup Message

VARIABLES
    conversations,  \* the collection, one document per visitor at most
    messages,       \* the messages, each named by its call
    pc,             \* where each call is
    visitor,        \* whose conversation it is about
    admin,          \* the administrator who replies, or None
    read,           \* the conversation as the call read or created it
    edited,         \* the conversation it will save
    lastReply,      \* history: who last saved a reply, by conversation
    overlapped,     \* history: calls that ran at once with another about the
                    \* same conversation
    contested       \* history: conversations to which two administrators
                    \* replied at once

store == <<conversations, messages>>
history == <<lastReply, overlapped, contested>>
vars == <<store, pc, visitor, admin, read, edited, history>>

PC == {"idle", "create", "open", "insert", "stamp", "save", "done", "refused",
       "failed"}

Exists(v) == conversations[v] # None

MessagesOf(v) ==
    {m \in Calls : messages[m] # None /\ messages[m].conversation = v}

Running(c) == pc[c] \notin {"idle", "done", "refused", "failed"}

\* A conversation as it is created: assigned to the first administrator.
Opened == [assignedAdmin |-> FirstAdmin, lastMessageAt |-> {}]

\* Some visitors have opened a conversation before.
Init ==
    /\ conversations \in [Visitors -> {None, Opened}]
    /\ messages = [c \in Calls |-> None]
    /\ pc = [c \in Calls |-> "idle"]
    /\ visitor = [c \in Calls |-> None]
    /\ admin = [c \in Calls |-> None]
    /\ read = [c \in Calls |-> None]
    /\ edited = [c \in Calls |-> None]
    /\ lastReply = [v \in Visitors |-> FirstAdmin]
    /\ overlapped = {}
    /\ contested = {}

-----------------------------------------------------------------------------
\* The calls under way about conversation v.
UnderWay(v) == {d \in Calls : Running(d) /\ visitor[d] = v}

\* A call about conversation v starts; a is the administrator, or None.
Start(c, v, a) ==
    /\ visitor' = [visitor EXCEPT ![c] = v]
    /\ admin' = [admin EXCEPT ![c] = a]
    /\ read' = [read EXCEPT ![c] = conversations[v]]
    /\ overlapped' = IF UnderWay(v) = {} THEN overlapped
                     ELSE overlapped \cup UnderWay(v) \cup {c}
    /\ contested' = IF /\ a # None
                       /\ \E d \in UnderWay(v) : admin[d] \notin {None, a}
                    THEN contested \cup {v} ELSE contested
    /\ UNCHANGED <<store, edited, lastReply>>

\* The call ends.
Return(c, outcome) ==
    /\ pc' = [pc EXCEPT ![c] = outcome]
    /\ read' = [read EXCEPT ![c] = None]
    /\ edited' = [edited EXCEPT ![c] = None]

\* MUTANT: a conversation is always created.
VisitorWritesAnew(c, v) ==
    /\ pc[c] = "idle"
    /\ pc' = [pc EXCEPT ![c] = "create"]
    /\ Start(c, v, None)

\* sendPublicSupportMessage finds the conversation, or none.
VisitorWrites(c, v) ==
    /\ pc[c] = "idle"
    /\ pc' = [pc EXCEPT ![c] = IF Exists(v) THEN "insert" ELSE "create"]
    /\ Start(c, v, None)

\* getPublicSupportConversation by itself; there is nothing to do when the
\* conversation exists.
VisitorOpens(c, v) ==
    /\ pc[c] = "idle"
    /\ ~Exists(v)
    /\ pc' = [pc EXCEPT ![c] = "open"]
    /\ Start(c, v, None)

\* sendPublicSupportAdminReply finds the conversation.
AdminReplies(c, a, v) ==
    /\ pc[c] = "idle"
    /\ Exists(v)
    /\ pc' = [pc EXCEPT ![c] = "insert"]
    /\ Start(c, v, a)

\* sendPublicSupportAdminReply finds no conversation: 404.
RefuseReply(c, v) ==
    /\ pc[c] = "idle"
    /\ ~Exists(v)
    /\ pc' = [pc EXCEPT ![c] = "failed"]
    /\ UNCHANGED <<store, visitor, admin, read, edited, history>>

\* supportConversationModel.create.
CreateConversation(c) ==
    /\ pc[c] \in {"create", "open"}
    /\ ~Exists(visitor[c])
    /\ conversations' = [conversations EXCEPT ![visitor[c]] = Opened]
    /\ \/ /\ pc[c] = "create"
          /\ pc' = [pc EXCEPT ![c] = "insert"]
          /\ read' = [read EXCEPT ![c] = Opened]
          /\ UNCHANGED edited
       \/ pc[c] = "open" /\ Return(c, "done")
    /\ UNCHANGED <<messages, visitor, admin, history>>

\* The unique index refuses the creation, and the call fails: its message is
\* not kept.
RefuseDuplicate(c) ==
    /\ pc[c] \in {"create", "open"}
    /\ Exists(visitor[c])
    /\ Return(c, "refused")
    /\ UNCHANGED <<store, visitor, admin, history>>

\* supportMessageModel.create.
InsertMessage(c) ==
    /\ pc[c] = "insert"
    /\ messages' = [messages EXCEPT ![c] =
                        [conversation |-> visitor[c], admin |-> admin[c]]]
    /\ pc' = [pc EXCEPT ![c] = "stamp"]
    /\ UNCHANGED <<conversations, visitor, admin, read, edited, history>>

\* The assignments to the conversation: a reply assigns its administrator, and
\* every message is the last one.
Edit(copy, a, date) ==
    [assignedAdmin |-> IF a = None THEN copy.assignedAdmin ELSE a,
     lastMessageAt |-> date]

StampConversation(c) ==
    /\ pc[c] = "stamp"
    /\ edited' = [edited EXCEPT ![c] =
                    Edit(read[c], admin[c], MessagesOf(visitor[c]))]
    /\ pc' = [pc EXCEPT ![c] = "save"]
    /\ UNCHANGED <<store, visitor, admin, read, history>>

\* MUTANT: the date is not among the paths that are saved.
SavedUndated(stored, copy, new) ==
    [stored EXCEPT !.assignedAdmin =
        Modified(@, copy.assignedAdmin, new.assignedAdmin)]

\* MUTANT: the copy replaces the document.
SavedWhole(stored, copy, new) == new

\* The document after conversation.save(): the paths that changed.
Saved(stored, copy, new) ==
    [assignedAdmin |-> Modified(stored.assignedAdmin, copy.assignedAdmin,
                                new.assignedAdmin),
     lastMessageAt |-> new.lastMessageAt]

SaveConversation(c) ==
    LET v == visitor[c]
    IN  /\ pc[c] = "save"
        /\ conversations' = [conversations EXCEPT ![v] =
                                Saved(@, read[c], edited[c])]
        /\ lastReply' = IF admin[c] = None THEN lastReply
                        ELSE [lastReply EXCEPT ![v] = admin[c]]
        /\ Return(c, "done")
        /\ UNCHANGED <<messages, visitor, admin, overlapped, contested>>

\* MUTANT: the message of a call that fails is removed.
AbortCleaningUp(c) ==
    /\ Running(c)
    /\ Return(c, "failed")
    /\ messages' = [messages EXCEPT ![c] = None]
    /\ UNCHANGED <<conversations, visitor, admin, history>>

\* A database call fails or the instance stops.
Abort(c) ==
    /\ Running(c)
    /\ Return(c, "failed")
    /\ UNCHANGED <<store, visitor, admin, history>>

Next == \E c \in Calls :
    \/ \E v \in Visitors :
        \/ VisitorWrites(c, v) \/ VisitorOpens(c, v) \/ RefuseReply(c, v)
        \/ \E a \in Admins : AdminReplies(c, a, v)
    \/ CreateConversation(c) \/ RefuseDuplicate(c)
    \/ InsertMessage(c) \/ StampConversation(c) \/ SaveConversation(c)
    \/ Abort(c)

Spec == Init /\ [][Next]_vars

-----------------------------------------------------------------------------
(* Properties of every interleaving, with failures at any await.           *)

TypeOK ==
    /\ conversations \in [Visitors -> Conversation \cup {None}]
    /\ messages \in [Calls -> Message \cup {None}]
    /\ pc \in [Calls -> PC]
    /\ visitor \in [Calls -> Visitors \cup {None}]
    /\ admin \in [Calls -> Admins \cup {None}]
    /\ read \in [Calls -> Conversation \cup {None}]
    /\ edited \in [Calls -> Conversation \cup {None}]
    /\ lastReply \in [Visitors -> Admins]
    /\ overlapped \subseteq Calls
    /\ contested \subseteq Visitors

\* A conversation is assigned to the first administrator or to one who has
\* replied in it, however its calls overlap and fail; and to the one whose
\* reply was last saved, whatever stale copies a visitor's calls save meanwhile
\* (sendPublicSupportMessage next to sendPublicSupportAdminReply).  Only where
\* two administrators replied at once may it be another: one of them who held
\* it already does not write it again.
AssignedToReplier ==
    \A v \in Visitors : Exists(v) =>
        LET assigned == conversations[v].assignedAdmin
        IN  /\ \/ assigned = FirstAdmin
               \/ \E m \in MessagesOf(v) : messages[m].admin = assigned
            /\ v \notin contested => assigned = lastReply[v]

\* The date that the administrators' inbox is sorted by is not before any
\* message whose sender was told of success, unless that very message was sent
\* while another call about its conversation ran: no later call, even one that
\* overlaps others, takes the date back behind it.
LastMessageIsCovered ==
    \A m \in Calls :
        (messages[m] # None /\ pc[m] = "done" /\ m \notin overlapped)
        => m \in conversations[messages[m].conversation].lastMessageAt

\* The unique index turns a visitor away only when this call ran while another
\* of his was opening the conversation; it is there afterwards, so a retry is
\* not refused (getPublicSupportConversation).
RefusedOnlyWhenOverlapped ==
    \A c \in Calls : pc[c] = "refused" =>
        c \in overlapped /\ Exists(visitor[c])

\* The conversations, messages and answers that the users of the service see.
Feed == INSTANCE SupportFeed WITH
    opened <- {v \in Visitors : Exists(v)},
    wrote <- [c \in Calls |-> IF messages[c] = None THEN None
                              ELSE messages[c].conversation],
    answered <- {c \in Calls : messages[c] # None /\ pc[c] = "done"}

\* The service keeps what SupportFeed promises to those who use it: the
\* conversations, messages and answers of handlers that overlap and fail map
\* to a feed where each is one atomic step.
ImplementsFeed == Feed!FeedSpec

=============================================================================

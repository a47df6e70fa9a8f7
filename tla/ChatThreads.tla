---------------------------- MODULE ChatThreads ----------------------------
(***************************************************************************)
(* Chat threads and messages (src/chat/chat.service.ts): plain threads of  *)
(* two users, threads of a group buy, and the support threads of dealers.  *)
(* sendMessage and sendDealerSupportMessage find a thread or create one,   *)
(* insert the message and then save the date of the last message;          *)
(* markRead adds its user to the readers of a thread's messages.           *)
(*                                                                         *)
(* A thread and a message are named by the call that made them.            *)
(***************************************************************************)
EXTENDS Naturals, FiniteSets

CONSTANTS
    Users,          \* accounts; they are never deleted
    Dealers,        \* those with the role dealer
    Admins,         \* those with the role admin
    FirstAdmin,     \* the oldest administrator account
    GroupBuys,      \* group buys that may have a thread
    Calls,          \* calls that send, open a support thread or mark read
    None            \* an absent value

ASSUME RolesAssumption ==
    /\ Dealers \subseteq Users
    /\ Admins \subseteq Users
    /\ Dealers \cap Admins = {}     \* no code gives an account both
    /\ FirstAdmin \in Admins

\* What a thread is for: its type, its purpose, and whom it is opened with.
Purpose == [type : {"direct", "group"}, support : BOOLEAN,
            participants : SUBSET Users, groupBuy : GroupBuys \cup {None}]

\* A ChatThread document.  The date lastMessageAt is represented by the
\* messages of the thread that the database held when it was taken.
Thread == [purpose : Purpose, participants : SUBSET Users,
           lastMessageAt : SUBSET Calls]

\* A ChatMessage document.  "receiver" is whom the request names, if it names
\* anybody: no code checks that he takes part in the thread.
Message == [thread : Calls, sender : Users, receiver : Users \cup {None},
            readBy : SUBSET Users]

ASSUME NoneAssumption ==
    None \notin Users \cup GroupBuys \cup Calls \cup Purpose \cup Thread
                \cup Message

VARIABLES
    threads,        \* the collection of threads
    messages,       \* the collection of messages
    pc,             \* where each call is
    user,           \* who makes it
    receiver,       \* whom the message names
    purpose,        \* the thread it looks for, until it has one
    thread,         \* the thread it found or created
    stamp,          \* new Date() of the call, as in lastMessageAt
    marked,         \* history: the messages each user has marked read
    raced,          \* history: purposes two calls opened a thread for at once
    overlapped,     \* history: messages sent in a thread at once with another
    addressed       \* history: the calls whose thread and receiver are chosen
                    \* together, which excludes messages to a thread or a group

store == <<threads, messages>>
locals == <<pc, user, receiver, purpose, thread, stamp>>
vars == <<store, locals, marked, raced, overlapped, addressed>>

PC == {"idle", "create", "open", "join", "insert", "stamp", "save", "mark",
       "done", "failed"}

-----------------------------------------------------------------------------
\* The threads the calls look for.  FirstAdmin is what findFirstByRole answers.
Direct(u, v) == [type |-> "direct", support |-> FALSE,
                 participants |-> {u, v}, groupBuy |-> None]
Support(u) == [type |-> "direct", support |-> TRUE,
               participants |-> {u, FirstAdmin}, groupBuy |-> None]
Group(g) == [type |-> "group", support |-> FALSE,
             participants |-> {}, groupBuy |-> g]

Exists(t) == threads[t] # None

\* MUTANT: any thread of the sender will do.
MatchesLoosely(t, p) ==
    /\ t.purpose.type = p.type
    /\ p.participants \cap t.participants # {}
    /\ t.purpose.groupBuy = p.groupBuy
    /\ p.support => t.purpose.support

\* MUTANT: the filter of a support thread is used for every thread.
MatchesSupport(t, p) ==
    /\ t.purpose.type = p.type
    /\ p.participants \subseteq t.participants
    /\ t.purpose.support

\* The filter of the findOne calls.  A direct thread has two participants
\* ($size: 2), equal ones when a user writes to himself.  The filter of a plain
\* message does not mention the purpose, so it finds support threads as well.
Matches(t, p) ==
    /\ t.purpose.type = p.type
    /\ p.participants \subseteq t.participants
    /\ t.purpose.groupBuy = p.groupBuy
    /\ p.support => t.purpose.support

Found(p) == {t \in Calls : Exists(t) /\ Matches(threads[t], p)}

\* MUTANT: nobody checks who takes part.
TakesPartAnyone(u, t) == Exists(t)

\* ensureParticipant accepts.
TakesPart(u, t) == Exists(t) /\ u \in threads[t].participants

MessagesOf(t) == {m \in Calls : messages[m] # None /\ messages[m].thread = t}

Init ==
    /\ threads = [c \in Calls |-> None]
    /\ messages = [c \in Calls |-> None]
    /\ pc = [c \in Calls |-> "idle"]
    /\ user = [c \in Calls |-> None]
    /\ receiver = [c \in Calls |-> None]
    /\ purpose = [c \in Calls |-> None]
    /\ thread = [c \in Calls |-> None]
    /\ stamp = [c \in Calls |-> {}]
    /\ marked = [u \in Users |-> {}]
    /\ raced = {}
    /\ overlapped = {}
    /\ addressed = {}

-----------------------------------------------------------------------------
(* Finding or creating the thread.                                         *)

\* Call d has found no thread for p and not created it yet.
Creating(d, p) == pc[d] \in {"create", "open"} /\ purpose[d] = p

\* A findOne for purpose p by user u in call c.  It answers with some thread
\* that matches, which the user of a group thread may have to join, or with
\* none, and the call goes on at "creating".
Find(c, u, p, creating) ==
    /\ user' = [user EXCEPT ![c] = u]
    /\ \/ \E t \in Found(p) :
            /\ thread' = [thread EXCEPT ![c] = t]
            /\ pc' = [pc EXCEPT ![c] =
                    IF p.type = "group" /\ u \notin threads[t].participants
                    THEN "join" ELSE "insert"]
            /\ UNCHANGED <<purpose, raced>>
       \/ /\ Found(p) = {}
          /\ purpose' = [purpose EXCEPT ![c] = p]
          /\ pc' = [pc EXCEPT ![c] = creating]
          /\ raced' = IF \E d \in Calls : Creating(d, p)
                      THEN raced \cup {p} ELSE raced
          /\ UNCHANGED thread
    /\ UNCHANGED <<store, stamp, marked, overlapped>>

\* sendMessage of u to the receiver v.
SendDirect(c, u, v) ==
    /\ pc[c] = "idle"
    /\ receiver' = [receiver EXCEPT ![c] = v]
    /\ addressed' = addressed \cup {c}
    /\ Find(c, u, Direct(u, v), "create")

\* sendMessage of u to the group buy g; it makes u a participant.  The message
\* keeps whatever receiver v the request names, or none.
SendToGroup(c, u, g, v) ==
    /\ pc[c] = "idle"
    /\ receiver' = [receiver EXCEPT ![c] = v]
    /\ UNCHANGED addressed
    /\ Find(c, u, Group(g), "create")

\* sendDealerSupportMessage of a dealer.  The receiver is the first of the
\* participants that does not read like the dealer's id.  Those of a thread
\* that was found are populated documents, which do not, so the first one is
\* taken: the dealer.  Those of a new thread are ids, and the other is the
\* administrator.
SendSupport(c, u) ==
    /\ pc[c] = "idle"
    /\ receiver' = [receiver EXCEPT ![c] =
            IF Found(Support(u)) # {} THEN u ELSE FirstAdmin]
    /\ addressed' = addressed \cup {c}
    /\ Find(c, u, Support(u), "create")

\* getDealerSupportThread by itself: there is nothing to send, and nothing to
\* do when the thread exists.
OpenSupport(c, u) ==
    /\ pc[c] = "idle"
    /\ Found(Support(u)) = {}
    /\ UNCHANGED <<receiver, addressed>>
    /\ Find(c, u, Support(u), "open")

\* sendMessage of u to a thread by its id, whatever its type.  The message keeps
\* whatever receiver v the request names, or none.
SendToThread(c, u, t, v) ==
    /\ pc[c] = "idle"
    /\ TakesPart(u, t)
    /\ pc' = [pc EXCEPT ![c] = "insert"]
    /\ user' = [user EXCEPT ![c] = u]
    /\ thread' = [thread EXCEPT ![c] = t]
    /\ receiver' = [receiver EXCEPT ![c] = v]
    /\ UNCHANGED <<store, purpose, stamp, marked, raced, overlapped, addressed>>

\* sendDealerSupportMessage of an administrator, in a support thread; the
\* receiver is the other participant.
ReplySupport(c, u, t) ==
    /\ pc[c] = "idle"
    /\ TakesPart(u, t)
    /\ threads[t].purpose.support
    /\ pc' = [pc EXCEPT ![c] = "insert"]
    /\ user' = [user EXCEPT ![c] = u]
    /\ thread' = [thread EXCEPT ![c] = t]
    /\ \E v \in threads[t].participants \ {u} :
            receiver' = [receiver EXCEPT ![c] = v]
    /\ addressed' = addressed \cup {c}
    /\ UNCHANGED <<store, purpose, stamp, marked, raced, overlapped>>

\* ensureParticipant refuses, or the purpose is not what an administrator's
\* support reply needs: 403 or 404.
RefuseCall(c, u, t) ==
    /\ pc[c] = "idle"
    /\ ~(TakesPart(u, t) /\ (u \in Admins => threads[t].purpose.support))
    /\ pc' = [pc EXCEPT ![c] = "failed"]
    /\ UNCHANGED <<store, user, receiver, purpose, thread, stamp, marked,
                   raced, overlapped, addressed>>

\* The call ends.
Return(c, outcome) ==
    /\ pc' = [pc EXCEPT ![c] = outcome]
    /\ user' = [user EXCEPT ![c] = None]
    /\ receiver' = [receiver EXCEPT ![c] = None]
    /\ thread' = [thread EXCEPT ![c] = None]
    /\ stamp' = [stamp EXCEPT ![c] = {}]
    /\ purpose' = [purpose EXCEPT ![c] = None]

\* threadModel.create; the participants of a group thread begin with the
\* sender.
CreateThread(c) ==
    /\ pc[c] \in {"create", "open"}
    /\ threads' = [threads EXCEPT ![c] =
            [purpose |-> purpose[c],
             participants |-> purpose[c].participants \cup {user[c]},
             lastMessageAt |-> {}]]
    /\ \/ /\ pc[c] = "create"
          /\ pc' = [pc EXCEPT ![c] = "insert"]
          /\ thread' = [thread EXCEPT ![c] = c]
          /\ purpose' = [purpose EXCEPT ![c] = None]
          /\ UNCHANGED <<user, receiver, stamp>>
       \/ pc[c] = "open" /\ Return(c, "done")
    /\ UNCHANGED <<messages, marked, raced, overlapped, addressed>>

\* existingGroupThread.save(): the participant is pushed.
JoinGroup(c) ==
    /\ pc[c] = "join"
    /\ threads' = [threads EXCEPT ![thread[c]].participants =
                        @ \cup {user[c]}]
    /\ pc' = [pc EXCEPT ![c] = "insert"]
    /\ UNCHANGED <<messages, user, receiver, purpose, thread, stamp, marked,
                   raced, overlapped, addressed>>

-----------------------------------------------------------------------------
(* Sending the message and marking messages read.                          *)

\* Call d has inserted a message in thread t and not saved the date yet.
Sending(d, t) == pc[d] \in {"stamp", "save"} /\ thread[d] = t

\* messageModel.create.
InsertMessage(c) ==
    /\ pc[c] = "insert"
    /\ messages' = [messages EXCEPT ![c] =
            [thread |-> thread[c], sender |-> user[c],
             receiver |-> receiver[c], readBy |-> {user[c]}]]
    /\ pc' = [pc EXCEPT ![c] = "stamp"]
    /\ LET others == {d \in Calls : Sending(d, thread[c])}
       IN  overlapped' = IF others = {} THEN overlapped
                         ELSE overlapped \cup others \cup {c}
    /\ UNCHANGED <<threads, user, receiver, purpose, thread, stamp, marked,
                   raced, addressed>>

\* thread.lastMessageAt = new Date().
StampThread(c) ==
    /\ pc[c] = "stamp"
    /\ stamp' = [stamp EXCEPT ![c] = MessagesOf(thread[c])]
    /\ pc' = [pc EXCEPT ![c] = "save"]
    /\ UNCHANGED <<store, user, receiver, purpose, thread, marked, raced,
                   overlapped, addressed>>

\* MUTANT: the date is not saved.
SavedNothing(t, date) == t

\* The thread after thread.save(): the date is all that changed.
Saved(t, date) == [t EXCEPT !.lastMessageAt = date]

SaveThread(c) ==
    /\ pc[c] = "save"
    /\ threads' = [threads EXCEPT ![thread[c]] = Saved(@, stamp[c])]
    /\ Return(c, "done")
    /\ UNCHANGED <<messages, marked, raced, overlapped, addressed>>

\* A database call fails or the instance stops.
Abort(c) ==
    /\ pc[c] \notin {"idle", "done", "failed"}
    /\ Return(c, "failed")
    /\ UNCHANGED <<store, marked, raced, overlapped, addressed>>

\* markRead: ensureParticipant.
BeginRead(c, u, t) ==
    /\ pc[c] = "idle"
    /\ TakesPart(u, t)
    /\ pc' = [pc EXCEPT ![c] = "mark"]
    /\ user' = [user EXCEPT ![c] = u]
    /\ thread' = [thread EXCEPT ![c] = t]
    /\ UNCHANGED <<store, receiver, purpose, stamp, marked, raced, overlapped,
                   addressed>>

\* MUTANT: the reader replaces the readers.
ReadOver(message, u) == [message EXCEPT !.readBy = {u}]

\* $addToSet of the reader.
ReadBy(message, u) == [message EXCEPT !.readBy = @ \cup {u}]

\* markRead: updateMany, taken as atomic; messages read already stay as they are.
MarkRead(c) ==
    LET read == MessagesOf(thread[c])
    IN  /\ pc[c] = "mark"
        /\ messages' = [m \in Calls |->
                IF m \in read THEN ReadBy(messages[m], user[c]) ELSE messages[m]]
        /\ marked' = [marked EXCEPT ![user[c]] = @ \cup read]
        /\ Return(c, "done")
        /\ UNCHANGED <<threads, raced, overlapped, addressed>>

Begin(c) ==
    \/ \E u, v \in Users : SendDirect(c, u, v)
    \/ \E u \in Dealers : SendSupport(c, u) \/ OpenSupport(c, u)
    \/ \E u \in Users, t \in Calls :
        BeginRead(c, u, t) \/ RefuseCall(c, u, t)
    \/ \E u \in Users, v \in Users \cup {None} :
        \/ \E g \in GroupBuys : SendToGroup(c, u, g, v)
        \/ \E t \in Calls : SendToThread(c, u, t, v)
    \/ \E u \in Admins, t \in Calls : ReplySupport(c, u, t)

Next == \E c \in Calls :
    \/ Begin(c)
    \/ CreateThread(c) \/ JoinGroup(c)
    \/ InsertMessage(c) \/ StampThread(c) \/ SaveThread(c)
    \/ MarkRead(c)
    \/ Abort(c)

Spec == Init /\ [][Next]_vars

-----------------------------------------------------------------------------
(* Properties of every interleaving, with failures at any await.           *)

TypeOK ==
    /\ threads \in [Calls -> Thread \cup {None}]
    /\ messages \in [Calls -> Message \cup {None}]
    /\ pc \in [Calls -> PC]
    /\ user \in [Calls -> Users \cup {None}]
    /\ receiver \in [Calls -> Users \cup {None}]
    /\ purpose \in [Calls -> Purpose \cup {None}]
    /\ thread \in [Calls -> Calls \cup {None}]
    /\ stamp \in [Calls -> SUBSET Calls]
    /\ marked \in [Users -> SUBSET Calls]
    /\ raced \subseteq Purpose
    /\ overlapped \subseteq Calls
    /\ addressed \subseteq Calls

\* Whoever wrote or read a message takes part in its thread, and nobody but
\* the two users of a direct thread ever does (ensureParticipant, markRead,
\* resolveThread).
MessagesStayAmongParticipants ==
    /\ \A t \in Calls : Exists(t) /\ threads[t].purpose.type = "direct" =>
            threads[t].participants = threads[t].purpose.participants
    /\ \A m \in Calls : messages[m] # None =>
            messages[m].readBy \subseteq threads[messages[m].thread].participants

\* A message sent to a user, or in dealer support, and not by sendMessage into a
\* thread or to a group, is stored in a thread of its sender and receiver alone,
\* whatever threads of theirs exist, whoever else opens one and wherever calls
\* fail (resolveThread, sendDealerSupportMessage).  Of the receiver that a
\* message to a thread or a group names besides, the code promises nothing.
AddressedMessagesArrive ==
    \A m \in addressed :
        messages[m] # None /\ messages[m].receiver # messages[m].sender
        => threads[messages[m].thread].participants =
                {messages[m].sender, messages[m].receiver}

\* Threads are opened twice for the same users, dealer or group buy only when
\* two calls looked for one at once.
ThreadsAreUnique ==
    \A s, t \in Calls :
        (s # t /\ Exists(s) /\ Exists(t)
            /\ threads[s].purpose = threads[t].purpose)
        => threads[s].purpose \in raced

\* The date a thread is sorted by in the inbox is not before any message that
\* was sent with success while nobody else was sending in the thread, and this
\* stays so whoever sends, overlaps or fails half-way in it later.
LastMessageIsCovered ==
    \A m \in Calls :
        (messages[m] # None /\ pc[m] = "done" /\ m \notin overlapped)
        => m \in threads[messages[m].thread].lastMessageAt

\* Once a user has marked a thread read, he stays among the readers of every
\* message it had, and the sender of a message among its readers, whoever
\* else reads or writes (markRead).
ReadMarksAreKept ==
    /\ \A u \in Users : \A m \in marked[u] : u \in messages[m].readBy
    /\ \A m \in Calls : messages[m] # None =>
            messages[m].sender \in messages[m].readBy

=============================================================================

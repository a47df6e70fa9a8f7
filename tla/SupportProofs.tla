--------------------------- MODULE SupportProofs ----------------------------
(***************************************************************************)
(* Proofs about public support for any visitors, administrators, calls and *)
(* number of requests.  Of SupportInbox, the service: the invariants of    *)
(* every interleaving of its calls, and the refinement of SupportFeed.  Of *)
(* SupportConsole, the administrator's page over that promise: what it     *)
(* shows and selects, and that it keeps the promise.                       *)
(***************************************************************************)
EXTENDS SupportInbox, SupportConsole, SequenceTheorems, TLAPS

\* What a call holds fits the collections: it found or made its conversation,
\* edits its copy in memory, and stored its message before that.
CallsAreFit ==
    \A c \in Calls :
        /\ Running(c) \/ pc[c] = "refused" => visitor[c] \in Visitors
        /\ pc[c] \in {"insert", "stamp", "save"} =>
            Exists(visitor[c]) /\ read[c] \in Conversation
        /\ pc[c] = "save" =>
            /\ edited[c] \in Conversation
            /\ edited[c].assignedAdmin = IF admin[c] = None
                                         THEN read[c].assignedAdmin
                                         ELSE admin[c]
        /\ pc[c] \in {"stamp", "save"} =>
            messages[c] = [conversation |-> visitor[c], admin |-> admin[c]]
        /\ messages[c] # None =>
            /\ pc[c] \in {"stamp", "save", "done", "failed"}
            /\ Exists(messages[c].conversation)

\* Calls that meet on a conversation are recorded, a call that finds its
\* conversation opened by another one, and two administrators' replies.
MeetingsAreRecorded ==
    /\ \A c, d \in Calls :
        (c # d /\ Running(c) /\ Running(d) /\ visitor[c] = visitor[d])
            => c \in overlapped
    /\ \A c \in Calls :
        (pc[c] \in {"create", "open"} /\ Exists(visitor[c]))
            => c \in overlapped
    /\ \A c, d \in Calls :
        (/\ Running(c) /\ Running(d) /\ visitor[c] = visitor[d]
         /\ admin[c] # None /\ admin[d] # None /\ admin[c] # admin[d])
            => visitor[c] \in contested

\* An administrator whom no other one met replies to the assignment that is
\* stored, unless it is his own since.
RepliesHoldTheAssignment ==
    \A c \in Calls :
        (/\ pc[c] \in {"insert", "stamp", "save"}
         /\ admin[c] # None /\ visitor[c] \notin contested) =>
            conversations[visitor[c]].assignedAdmin
                \in {read[c].assignedAdmin, admin[c]}

\* A call is about to save a date that covers its own message, and those that
\* were answered and met no other call.
DatesCover ==
    \A c, m \in Calls :
        (/\ pc[c] = "save"
         /\ messages[m] # None /\ messages[m].conversation = visitor[c]
         /\ m = c \/ (pc[m] = "done" /\ m \notin overlapped)) =>
            m \in edited[c].lastMessageAt

\* Nobody has replied in a conversation that was never opened.
UnopenedHaveNoReply ==
    \A v \in Visitors : ~Exists(v) => lastReply[v] = FirstAdmin

\* The inductive invariant.
InboxInv ==
    /\ TypeOK
    /\ CallsAreFit
    /\ MeetingsAreRecorded
    /\ RepliesHoldTheAssignment
    /\ DatesCover
    /\ UnopenedHaveNoReply
    /\ AssignedToReplier
    /\ LastMessageIsCovered
    /\ RefusedOnlyWhenOverlapped

-----------------------------------------------------------------------------
\* A document is there, and a visitor is not the absent value.
LEMMA Presence ==
    /\ None \notin Conversation
    /\ None \notin Message
    /\ None \notin Visitors
    /\ None \notin Admins
    /\ Opened \in Conversation
    /\ Opened.assignedAdmin = FirstAdmin
BY NoneAssumption, NoVisitorAssumption, FirstAdminAssumption
   DEF Opened, Conversation

LEMMA InitInbox == Init => InboxInv
<1> SUFFICES ASSUME Init PROVE InboxInv
  OBVIOUS
<1>1. TypeOK
  BY Presence, FirstAdminAssumption DEF Init, TypeOK, PC
<1>2. /\ \A c \in Calls : pc[c] = "idle" /\ messages[c] = None
      /\ \A v \in Visitors : Exists(v) => conversations[v] = Opened
      /\ \A v \in Visitors : lastReply[v] = FirstAdmin
  BY DEF Init, Exists
<1>3. /\ CallsAreFit
      /\ MeetingsAreRecorded
      /\ RepliesHoldTheAssignment
      /\ DatesCover
      /\ UnopenedHaveNoReply
  BY <1>2 DEF CallsAreFit, MeetingsAreRecorded, RepliesHoldTheAssignment,
     DatesCover, UnopenedHaveNoReply, Running
<1>4. AssignedToReplier
  BY <1>2, Presence DEF AssignedToReplier
<1>5. LastMessageIsCovered /\ RefusedOnlyWhenOverlapped
  BY <1>2 DEF LastMessageIsCovered, RefusedOnlyWhenOverlapped
<1> QED BY <1>1, <1>3, <1>4, <1>5 DEF InboxInv

-----------------------------------------------------------------------------
\* A call that starts holds what is stored, and meets those under way.
LEMMA StartInv ==
    ASSUME InboxInv, NEW c \in Calls, NEW v \in Visitors,
           NEW a \in Admins \cup {None}, NEW p \in {"create", "open", "insert"},
           pc[c] = "idle", pc' = [pc EXCEPT ![c] = p],
           p = "insert" <=> Exists(v), Start(c, v, a)
    PROVE  InboxInv'
<1>1. /\ visitor' = [visitor EXCEPT ![c] = v]
      /\ admin' = [admin EXCEPT ![c] = a]
      /\ read' = [read EXCEPT ![c] = conversations[v]]
      /\ UNCHANGED <<conversations, messages, edited, lastReply>>
  BY DEF Start, store
<1>2. /\ overlapped \subseteq overlapped'
      /\ overlapped' \subseteq Calls
      /\ \A d \in Calls : Running(d) /\ visitor[d] = v =>
            c \in overlapped' /\ d \in overlapped'
      /\ contested \subseteq contested'
      /\ contested' \subseteq contested \cup {v}
      /\ \A d \in Calls :
            (/\ Running(d) /\ visitor[d] = v
             /\ admin[d] # None /\ a # None /\ admin[d] # a)
                => v \in contested'
  BY DEF Start, UnderWay, InboxInv, TypeOK
<1>3. TypeOK'
  BY <1>1, <1>2 DEF InboxInv, TypeOK, PC
<1>4. /\ pc'[c] = p
      /\ visitor'[c] = v
      /\ admin'[c] = a
      /\ read'[c] = conversations[v]
      /\ \A d \in Calls \ {c} :
            /\ pc'[d] = pc[d]
            /\ visitor'[d] = visitor[d]
            /\ admin'[d] = admin[d]
            /\ read'[d] = read[d]
  BY <1>1 DEF InboxInv, TypeOK
<1>5. messages[c] = None
  BY DEF InboxInv, CallsAreFit
<1>6. CallsAreFit'
  <2>1. Exists(v) => conversations[v] \in Conversation
    BY DEF InboxInv, TypeOK, Exists
  <2> QED BY <1>1, <1>4, <1>5, <2>1
          DEF InboxInv, CallsAreFit, Running, Exists
<1>7. MeetingsAreRecorded'
  <2>1. \A d, e \in Calls :
            (d # e /\ Running(d)' /\ Running(e)' /\ visitor'[d] = visitor'[e])
                => d \in overlapped'
    BY <1>2, <1>4 DEF InboxInv, MeetingsAreRecorded, Running
  <2>2. \A d \in Calls : (pc'[d] \in {"create", "open"} /\ Exists(visitor'[d]))
                            => d \in overlapped'
    BY <1>2, <1>4 DEF InboxInv, MeetingsAreRecorded
  <2>3. \A d, e \in Calls :
            (/\ Running(d)' /\ Running(e)' /\ visitor'[d] = visitor'[e]
             /\ admin'[d] # None /\ admin'[e] # None /\ admin'[d] # admin'[e])
                => visitor'[d] \in contested'
    BY <1>2, <1>4 DEF InboxInv, MeetingsAreRecorded, Running
  <2> QED BY <1>1, <2>1, <2>2, <2>3 DEF MeetingsAreRecorded, Exists
<1>8. RepliesHoldTheAssignment' /\ DatesCover'
  <2>1. RepliesHoldTheAssignment'
    BY <1>1, <1>2, <1>4 DEF InboxInv, RepliesHoldTheAssignment
  <2>2. DatesCover'
    BY <1>1, <1>2, <1>4, <1>5 DEF InboxInv, DatesCover
  <2> QED BY <2>1, <2>2
<1>9. UnopenedHaveNoReply' /\ AssignedToReplier'
  BY <1>1, <1>2 DEF InboxInv, UnopenedHaveNoReply, AssignedToReplier, Exists,
     MessagesOf
<1>10. LastMessageIsCovered'
  BY <1>1, <1>2, <1>4 DEF InboxInv, LastMessageIsCovered
<1>11. RefusedOnlyWhenOverlapped'
  BY <1>1, <1>2, <1>4 DEF InboxInv, RefusedOnlyWhenOverlapped, Exists
<1> QED BY <1>3, <1>6, <1>7, <1>8, <1>9, <1>10, <1>11 DEF InboxInv

\* What the end of a call leaves of it and of the others.
LEMMA ReturnFacts ==
    ASSUME TypeOK, NEW c \in Calls, NEW outcome \in {"done", "refused", "failed"},
           Return(c, outcome)
    PROVE  /\ pc' \in [Calls -> PC]
           /\ read' \in [Calls -> Conversation \cup {None}]
           /\ edited' \in [Calls -> Conversation \cup {None}]
           /\ pc'[c] = outcome
           /\ \A d \in Calls \ {c} :
                /\ pc'[d] = pc[d]
                /\ read'[d] = read[d]
                /\ edited'[d] = edited[d]
BY DEF Return, TypeOK, PC

\* A call that ends and leaves the collections alone.
LEMMA EndInv ==
    ASSUME InboxInv, NEW c \in Calls, NEW outcome \in {"refused", "failed"},
           Running(c), Return(c, outcome),
           outcome = "refused" => /\ pc[c] \in {"create", "open"}
                                  /\ Exists(visitor[c]),
           UNCHANGED <<store, visitor, admin, history>>
    PROVE  InboxInv'
<1>1. UNCHANGED <<conversations, messages, visitor, admin, lastReply, overlapped,
                     contested>>
  BY DEF store, history
<1>2. /\ pc'[c] = outcome
      /\ \A d \in Calls \ {c} :
            pc'[d] = pc[d] /\ read'[d] = read[d] /\ edited'[d] = edited[d]
  BY ReturnFacts DEF InboxInv
<1>3. TypeOK'
  BY <1>1, ReturnFacts DEF InboxInv, TypeOK
<1>4. CallsAreFit'
  BY <1>1, <1>2 DEF InboxInv, CallsAreFit, Running, Exists
<1>5. MeetingsAreRecorded'
  BY <1>1, <1>2 DEF InboxInv, MeetingsAreRecorded, Running, Exists
<1>6. RepliesHoldTheAssignment' /\ DatesCover'
  BY <1>1, <1>2 DEF InboxInv, RepliesHoldTheAssignment, DatesCover
<1>7. UnopenedHaveNoReply' /\ AssignedToReplier'
  BY <1>1 DEF InboxInv, UnopenedHaveNoReply, AssignedToReplier, Exists,
     MessagesOf
<1>8. LastMessageIsCovered'
  BY <1>1, <1>2 DEF InboxInv, LastMessageIsCovered
<1>9. RefusedOnlyWhenOverlapped'
  <2>1. outcome = "refused" => c \in overlapped
    BY DEF InboxInv, MeetingsAreRecorded
  <2> QED BY <1>1, <1>2, <2>1 DEF InboxInv, RefusedOnlyWhenOverlapped, Exists
<1> QED BY <1>3, <1>4, <1>5, <1>6, <1>7, <1>8, <1>9 DEF InboxInv

LEMMA RefuseReplyInv ==
    ASSUME InboxInv, NEW c \in Calls, NEW v \in Visitors, RefuseReply(c, v)
    PROVE  InboxInv'
<1>1. /\ UNCHANGED <<conversations, messages, visitor, admin, read, edited,
                     lastReply, overlapped,
                     contested>>
      /\ pc[c] = "idle"
      /\ pc' = [pc EXCEPT ![c] = "failed"]
  BY DEF RefuseReply, store, history
<1>2. TypeOK'
  BY <1>1 DEF InboxInv, TypeOK, PC
<1>3. /\ pc'[c] = "failed"
      /\ \A d \in Calls \ {c} : pc'[d] = pc[d]
  BY <1>1 DEF InboxInv, TypeOK
<1>4. CallsAreFit' /\ MeetingsAreRecorded'
  BY <1>1, <1>3 DEF InboxInv, CallsAreFit, MeetingsAreRecorded, Running, Exists
<1>5. /\ RepliesHoldTheAssignment' /\ DatesCover'
      /\ UnopenedHaveNoReply' /\ AssignedToReplier'
  BY <1>1, <1>3 DEF InboxInv, RepliesHoldTheAssignment, DatesCover,
     UnopenedHaveNoReply, AssignedToReplier, Exists, MessagesOf
<1>6. LastMessageIsCovered' /\ RefusedOnlyWhenOverlapped'
  BY <1>1, <1>3 DEF InboxInv, LastMessageIsCovered, RefusedOnlyWhenOverlapped,
     Exists
<1> QED BY <1>2, <1>4, <1>5, <1>6 DEF InboxInv

\* Opening a conversation: every other call that is about to do so has met
\* this one.
LEMMA CreateConversationInv ==
    ASSUME InboxInv, NEW c \in Calls, CreateConversation(c)
    PROVE  InboxInv'
<1> DEFINE v == visitor[c]
<1>1. /\ Running(c)
      /\ v \in Visitors
      /\ ~Exists(v)
      /\ messages[c] = None
      /\ lastReply[v] = FirstAdmin
  BY DEF CreateConversation, InboxInv, CallsAreFit, UnopenedHaveNoReply, Running
<1>2. /\ conversations' = [conversations EXCEPT ![v] = Opened]
      /\ UNCHANGED <<messages, visitor, admin, lastReply, overlapped,
                     contested>>
  BY DEF CreateConversation, history
<1>3. /\ pc' \in [Calls -> PC]
      /\ read' \in [Calls -> Conversation \cup {None}]
      /\ edited' \in [Calls -> Conversation \cup {None}]
      /\ \A d \in Calls \ {c} :
            pc'[d] = pc[d] /\ read'[d] = read[d] /\ edited'[d] = edited[d]
      /\ \/ pc'[c] = "insert" /\ read'[c] = Opened
         \/ pc'[c] = "done"
  <2>1. CASE pc[c] = "create"
    BY <2>1, Presence DEF CreateConversation, InboxInv, TypeOK, PC
  <2>2. CASE pc[c] = "open"
    BY <2>2, ReturnFacts DEF CreateConversation, InboxInv
  <2> QED BY <2>1, <2>2 DEF CreateConversation
<1>4. /\ conversations' \in [Visitors -> Conversation \cup {None}]
      /\ conversations'[v] = Opened
      /\ \A w \in Visitors \ {v} : conversations'[w] = conversations[w]
  BY <1>1, <1>2, Presence DEF InboxInv, TypeOK
<1> HIDE DEF v
<1>5. \A w \in Visitors : Exists(w)' <=> (w = v \/ Exists(w))
  BY <1>1, <1>4, Presence DEF Exists
<1>6. TypeOK'
  BY <1>2, <1>3, <1>4 DEF InboxInv, TypeOK
<1>7. CallsAreFit'
  <2> SUFFICES ASSUME NEW d \in Calls
               PROVE  /\ Running(d)' \/ pc'[d] = "refused" =>
                            visitor'[d] \in Visitors
                      /\ pc'[d] \in {"insert", "stamp", "save"} =>
                            Exists(visitor[d])' /\ read'[d] \in Conversation
                      /\ pc'[d] = "save" =>
                            /\ edited'[d] \in Conversation
                            /\ edited'[d].assignedAdmin =
                                IF admin'[d] = None THEN read'[d].assignedAdmin
                                ELSE admin'[d]
                      /\ pc'[d] \in {"stamp", "save"} =>
                            messages'[d] = [conversation |-> visitor'[d],
                                            admin |-> admin'[d]]
                      /\ messages'[d] # None =>
                            /\ pc'[d] \in {"stamp", "save", "done", "failed"}
                            /\ Exists(messages[d].conversation)'
    BY DEF CallsAreFit
  <2>1. CASE d = c
    BY <1>1, <1>2, <1>3, <1>5, <2>1, Presence DEF Running, v
  <2>2. CASE d # c
    <3>1. messages[d] # None => messages[d].conversation \in Visitors
      BY DEF InboxInv, TypeOK, Message
    <3> QED BY <1>2, <1>3, <1>5, <2>2, <3>1 DEF InboxInv, CallsAreFit, Running
  <2> QED BY <2>1, <2>2
<1>8. MeetingsAreRecorded'
  <2>1. \A d, e \in Calls :
            (d # e /\ Running(d)' /\ Running(e)' /\ visitor'[d] = visitor'[e])
                => d \in overlapped'
    BY <1>1, <1>2, <1>3 DEF InboxInv, MeetingsAreRecorded, Running
  <2>2. ASSUME NEW d \in Calls, pc'[d] \in {"create", "open"},
               Exists(visitor[d])'
        PROVE  d \in overlapped'
    <3>1. d # c /\ pc[d] \in {"create", "open"}
      BY <1>3, <2>2
    <3>2. Running(d) /\ visitor[d] \in Visitors
      BY <3>1 DEF InboxInv, CallsAreFit, Running
    <3>3. CASE visitor[d] = v
      BY <1>1, <1>2, <3>1, <3>2, <3>3 DEF InboxInv, MeetingsAreRecorded, v
    <3>4. CASE visitor[d] # v
      BY <1>2, <1>5, <2>2, <3>1, <3>2, <3>4 DEF InboxInv, MeetingsAreRecorded
    <3> QED BY <3>3, <3>4
  <2>3. \A d, e \in Calls :
            (/\ Running(d)' /\ Running(e)' /\ visitor'[d] = visitor'[e]
             /\ admin'[d] # None /\ admin'[e] # None /\ admin'[d] # admin'[e])
                => visitor'[d] \in contested'
    BY <1>1, <1>2, <1>3 DEF InboxInv, MeetingsAreRecorded, Running
  <2> QED BY <2>1, <2>2, <2>3 DEF MeetingsAreRecorded
<1>9. RepliesHoldTheAssignment' /\ DatesCover'
  <2>1. ASSUME NEW d \in Calls, pc'[d] \in {"insert", "stamp", "save"},
               admin'[d] # None, visitor'[d] \notin contested'
        PROVE  conversations'[visitor'[d]].assignedAdmin
                    \in {read'[d].assignedAdmin, admin'[d]}
    <3>1. CASE d = c
      BY <1>2, <1>3, <1>4, <2>1, <3>1 DEF v
    <3>2. CASE d # c
      <4>1. Exists(visitor[d]) /\ visitor[d] \in Visitors
        BY <1>3, <2>1, <3>2 DEF InboxInv, CallsAreFit, Running
      <4>2. visitor[d] # v
        BY <1>1, <4>1
      <4> QED BY <1>2, <1>3, <1>4, <2>1, <3>2, <4>1, <4>2
              DEF InboxInv, RepliesHoldTheAssignment
    <3> QED BY <3>1, <3>2
  <2>2. \A d \in Calls : pc'[d] = "save" => d # c
    BY <1>3
  <2>3. \A m \in Calls : messages[m] # None => m # c
    BY <1>1
  <2>4. DatesCover'
    BY <1>2, <1>3, <2>2, <2>3 DEF InboxInv, DatesCover
  <2> QED BY <2>1, <2>4 DEF RepliesHoldTheAssignment
<1>10. UnopenedHaveNoReply'
  BY <1>2, <1>5 DEF InboxInv, UnopenedHaveNoReply
<1>11. AssignedToReplier'
  BY <1>1, <1>2, <1>4, <1>5, Presence
     DEF InboxInv, AssignedToReplier, MessagesOf
<1>12. LastMessageIsCovered'
  <2> SUFFICES ASSUME NEW m \in Calls, messages'[m] # None, pc'[m] = "done",
                      m \notin overlapped'
               PROVE  m \in conversations'[messages'[m].conversation].lastMessageAt
    BY DEF LastMessageIsCovered
  <2>1. m # c /\ pc[m] = "done"
    BY <1>1, <1>2, <1>3
  <2>2. messages[m].conversation \in Visitors
        /\ Exists(messages[m].conversation)
    BY <1>2 DEF InboxInv, TypeOK, Message, CallsAreFit
  <2> QED BY <1>1, <1>2, <1>4, <2>1, <2>2 DEF InboxInv, LastMessageIsCovered
<1>13. RefusedOnlyWhenOverlapped'
  <2>1. ASSUME NEW d \in Calls, pc'[d] = "refused"
        PROVE  d \in overlapped' /\ Exists(visitor[d])'
    <3>1. d \in overlapped /\ Exists(visitor[d])
      BY <1>3, <2>1 DEF InboxInv, RefusedOnlyWhenOverlapped
    <3>2. visitor[d] \in Visitors
      BY <1>3, <2>1 DEF InboxInv, CallsAreFit
    <3> QED BY <1>2, <1>5, <3>1, <3>2
  <2> QED BY <2>1 DEF RefusedOnlyWhenOverlapped
<1> QED BY <1>6, <1>7, <1>8, <1>9, <1>10, <1>11, <1>12, <1>13 DEF InboxInv

\* A message is stored, which no date has to cover yet.
LEMMA InsertMessageInv ==
    ASSUME InboxInv, NEW c \in Calls, InsertMessage(c)
    PROVE  InboxInv'
<1> DEFINE new == [conversation |-> visitor[c], admin |-> admin[c]]
<1>1. /\ pc[c] = "insert"
      /\ messages' = [messages EXCEPT ![c] = new]
      /\ pc' = [pc EXCEPT ![c] = "stamp"]
      /\ UNCHANGED <<conversations, visitor, admin, read, edited, lastReply, overlapped,
                     contested>>
  BY DEF InsertMessage, history
<1>2. /\ Running(c)
      /\ visitor[c] \in Visitors
      /\ Exists(visitor[c])
      /\ messages[c] = None
      /\ new \in Message
      /\ new # None
  BY <1>1, Presence DEF InboxInv, TypeOK, CallsAreFit, Running, Message
<1>3. /\ messages'[c] = new
      /\ pc'[c] = "stamp"
      /\ \A d \in Calls \ {c} : messages'[d] = messages[d] /\ pc'[d] = pc[d]
  BY <1>1 DEF InboxInv, TypeOK
<1>4. TypeOK'
  BY <1>1, <1>2 DEF InboxInv, TypeOK, PC
<1>5. CallsAreFit'
  BY <1>1, <1>2, <1>3 DEF InboxInv, CallsAreFit, Running, Exists
<1>6. MeetingsAreRecorded'
  BY <1>1, <1>3 DEF InboxInv, MeetingsAreRecorded, Running, Exists
<1>7. RepliesHoldTheAssignment' /\ DatesCover'
  <2>1. RepliesHoldTheAssignment'
    BY <1>1, <1>3 DEF InboxInv, RepliesHoldTheAssignment
  <2>2. DatesCover'
    BY <1>1, <1>3 DEF InboxInv, DatesCover
  <2> QED BY <2>1, <2>2
<1>8. UnopenedHaveNoReply'
  BY <1>1 DEF InboxInv, UnopenedHaveNoReply, Exists
<1>9. AssignedToReplier'
  <2>1. \A v \in Visitors : \A m \in MessagesOf(v) :
            m \in MessagesOf(v)' /\ messages'[m] = messages[m]
    BY <1>2, <1>3 DEF MessagesOf
  <2> QED BY <1>1, <2>1 DEF InboxInv, AssignedToReplier, Exists
<1>10. LastMessageIsCovered' /\ RefusedOnlyWhenOverlapped'
  BY <1>1, <1>3 DEF InboxInv, LastMessageIsCovered, RefusedOnlyWhenOverlapped,
     Exists
<1> QED BY <1>4, <1>5, <1>6, <1>7, <1>8, <1>9, <1>10 DEF InboxInv

\* The copy in memory takes its assignment and its date.
LEMMA StampConversationInv ==
    ASSUME InboxInv, NEW c \in Calls, StampConversation(c)
    PROVE  InboxInv'
<1> DEFINE new == Edit(read[c], admin[c], MessagesOf(visitor[c]))
<1>1. /\ pc[c] = "stamp"
      /\ edited' = [edited EXCEPT ![c] = new]
      /\ pc' = [pc EXCEPT ![c] = "save"]
      /\ UNCHANGED <<conversations, messages, visitor, admin, read, lastReply, overlapped,
                     contested>>
  BY DEF StampConversation, store, history
<1>2. /\ read[c] \in Conversation
      /\ admin[c] \in Admins \cup {None}
      /\ MessagesOf(visitor[c]) \subseteq Calls
  BY <1>1 DEF InboxInv, TypeOK, CallsAreFit, MessagesOf
<1>3. /\ new \in Conversation
      /\ new.assignedAdmin = IF admin[c] = None THEN read[c].assignedAdmin
                             ELSE admin[c]
      /\ new.lastMessageAt = MessagesOf(visitor[c])
  BY <1>2 DEF Edit, Conversation
<1> HIDE DEF new
<1>4. /\ edited'[c] = new
      /\ pc'[c] = "save"
      /\ \A d \in Calls \ {c} : edited'[d] = edited[d] /\ pc'[d] = pc[d]
  BY <1>1 DEF InboxInv, TypeOK
<1>5. TypeOK'
  BY <1>1, <1>3 DEF InboxInv, TypeOK, PC
<1>6. CallsAreFit'
  BY <1>1, <1>3, <1>4 DEF InboxInv, CallsAreFit, Running, Exists
<1>7. MeetingsAreRecorded'
  BY <1>1, <1>4 DEF InboxInv, MeetingsAreRecorded, Running, Exists
<1>8. RepliesHoldTheAssignment' /\ DatesCover'
  <2>1. RepliesHoldTheAssignment'
    BY <1>1, <1>4 DEF InboxInv, RepliesHoldTheAssignment
  <2>2. DatesCover'
    BY <1>1, <1>3, <1>4 DEF InboxInv, DatesCover, MessagesOf
  <2> QED BY <2>1, <2>2
<1>9. UnopenedHaveNoReply' /\ AssignedToReplier'
  BY <1>1 DEF InboxInv, UnopenedHaveNoReply, AssignedToReplier, Exists,
     MessagesOf
<1>10. LastMessageIsCovered' /\ RefusedOnlyWhenOverlapped'
  BY <1>1, <1>4 DEF InboxInv, LastMessageIsCovered, RefusedOnlyWhenOverlapped,
     Exists
<1> QED BY <1>5, <1>6, <1>7, <1>8, <1>9, <1>10 DEF InboxInv

\* A conversation is saved: with the assignment that is stored, or with the
\* replier's, and with every message that has to be covered.
LEMMA SaveConversationInv ==
    ASSUME InboxInv, NEW c \in Calls, SaveConversation(c)
    PROVE  InboxInv'
<1> DEFINE v == visitor[c]
           new == Saved(conversations[v], read[c], edited[c])
<1>1. /\ pc[c] = "save"
      /\ Running(c)
      /\ v \in Visitors
      /\ Exists(v)
      /\ conversations[v] \in Conversation
      /\ read[c] \in Conversation
      /\ edited[c] \in Conversation
      /\ admin[c] \in Admins \cup {None}
      /\ edited[c].assignedAdmin = IF admin[c] = None THEN read[c].assignedAdmin
                                   ELSE admin[c]
      /\ messages[c] = [conversation |-> v, admin |-> admin[c]]
  BY DEF SaveConversation, InboxInv, TypeOK, CallsAreFit, Running, Exists
<1>2. /\ conversations' = [conversations EXCEPT ![v] = new]
      /\ lastReply' = IF admin[c] = None THEN lastReply
                      ELSE [lastReply EXCEPT ![v] = admin[c]]
      /\ Return(c, "done")
      /\ UNCHANGED <<messages, visitor, admin, overlapped, contested>>
  BY DEF SaveConversation
<1>3. /\ new \in Conversation
      /\ new.lastMessageAt = edited[c].lastMessageAt
      /\ \/ new.assignedAdmin = conversations[v].assignedAdmin
         \/ admin[c] # None /\ new.assignedAdmin = admin[c]
      /\ admin[c] = None => new.assignedAdmin = conversations[v].assignedAdmin
      /\ admin[c] # None /\ v \notin contested => new.assignedAdmin = admin[c]
  BY <1>1 DEF InboxInv, RepliesHoldTheAssignment, Saved, Modified, Conversation
<1> HIDE DEF v, new
<1>4. /\ conversations'[v] = new
      /\ \A w \in Visitors \ {v} : conversations'[w] = conversations[w]
      /\ conversations' \in [Visitors -> Conversation \cup {None}]
  BY <1>1, <1>2, <1>3 DEF InboxInv, TypeOK
<1>5. \A w \in Visitors : Exists(w)' <=> Exists(w)
  BY <1>1, <1>3, <1>4, Presence DEF Exists
<1>6. /\ pc'[c] = "done"
      /\ \A d \in Calls \ {c} :
            pc'[d] = pc[d] /\ read'[d] = read[d] /\ edited'[d] = edited[d]
  BY <1>2, ReturnFacts DEF InboxInv
<1>7. /\ lastReply' \in [Visitors -> Admins]
      /\ \A w \in Visitors \ {v} : lastReply'[w] = lastReply[w]
      /\ lastReply'[v] = IF admin[c] = None THEN lastReply[v] ELSE admin[c]
  BY <1>1, <1>2 DEF InboxInv, TypeOK
<1>8. TypeOK'
  BY <1>2, <1>4, <1>7, ReturnFacts DEF InboxInv, TypeOK
<1>9. \A m \in Calls : messages[m] # None => messages[m].conversation \in Visitors
  BY DEF InboxInv, TypeOK, Message
<1>10. CallsAreFit'
  BY <1>1, <1>2, <1>5, <1>6, <1>9 DEF InboxInv, CallsAreFit, Running
<1>11. MeetingsAreRecorded'
  <2>1. \A d, e \in Calls :
            (d # e /\ Running(d)' /\ Running(e)' /\ visitor'[d] = visitor'[e])
                => d \in overlapped'
    BY <1>2, <1>6 DEF InboxInv, MeetingsAreRecorded, Running
  <2>2. \A d \in Calls : (pc'[d] \in {"create", "open"} /\ Exists(visitor[d])')
                            => d \in overlapped'
    BY <1>2, <1>5, <1>6 DEF InboxInv, MeetingsAreRecorded, CallsAreFit, Running
  <2>3. \A d, e \in Calls :
            (/\ Running(d)' /\ Running(e)' /\ visitor'[d] = visitor'[e]
             /\ admin'[d] # None /\ admin'[e] # None /\ admin'[d] # admin'[e])
                => visitor'[d] \in contested'
    BY <1>2, <1>6 DEF InboxInv, MeetingsAreRecorded, Running
  <2> QED BY <2>1, <2>2, <2>3 DEF MeetingsAreRecorded
<1>12. RepliesHoldTheAssignment' /\ DatesCover'
  <2>1. ASSUME NEW d \in Calls, pc'[d] \in {"insert", "stamp", "save"},
               admin'[d] # None, visitor'[d] \notin contested'
        PROVE  conversations'[visitor'[d]].assignedAdmin
                    \in {read'[d].assignedAdmin, admin'[d]}
    <3>1. d # c /\ pc[d] = pc'[d] /\ Running(d) /\ visitor[d] \in Visitors
      BY <1>6, <2>1 DEF InboxInv, CallsAreFit, Running
    <3>2. conversations[visitor[d]].assignedAdmin
                \in {read[d].assignedAdmin, admin[d]}
      BY <1>2, <2>1, <3>1 DEF InboxInv, RepliesHoldTheAssignment
    <3>3. CASE visitor[d] = v /\ admin[c] # None
      <4>1. admin[d] = admin[c]
        BY <1>1, <1>2, <2>1, <3>1, <3>3 DEF InboxInv, MeetingsAreRecorded, v
      <4> QED BY <1>2, <1>3, <1>4, <2>1, <3>3, <4>1
    <3>4. CASE visitor[d] = v /\ admin[c] = None
      BY <1>2, <1>3, <1>4, <1>6, <3>1, <3>2, <3>4
    <3>5. CASE visitor[d] # v
      BY <1>2, <1>4, <1>6, <3>1, <3>2, <3>5
    <3> QED BY <3>3, <3>4, <3>5
  <2>2. ASSUME NEW d \in Calls, NEW m \in Calls, pc'[d] = "save",
               messages'[m] # None, messages'[m].conversation = visitor'[d],
               m = d \/ (pc'[m] = "done" /\ m \notin overlapped')
        PROVE  m \in edited'[d].lastMessageAt
    <3>1. d # c /\ pc[d] = "save" /\ edited'[d] = edited[d]
      BY <1>6, <2>2
    <3>2. ASSUME m = c PROVE c \in overlapped
      <4>1. visitor[d] = v
        BY <1>1, <1>2, <2>2, <3>2
      <4> QED BY <1>1, <3>1, <4>1 DEF InboxInv, MeetingsAreRecorded, Running, v
    <3> QED BY <1>2, <1>6, <2>2, <3>1, <3>2 DEF InboxInv, DatesCover
  <2> QED BY <2>1, <2>2 DEF RepliesHoldTheAssignment, DatesCover
<1>13. UnopenedHaveNoReply'
  BY <1>1, <1>5, <1>7 DEF InboxInv, UnopenedHaveNoReply
<1>14. AssignedToReplier'
  <2>1. \A w \in Visitors : MessagesOf(w)' = MessagesOf(w)
    BY <1>2 DEF MessagesOf
  <2>2. ASSUME NEW w \in Visitors, Exists(w)', w # v
        PROVE  LET assigned == conversations'[w].assignedAdmin
               IN  /\ \/ assigned = FirstAdmin
                      \/ \E m \in MessagesOf(w)' : messages'[m].admin = assigned
                   /\ w \notin contested' => assigned = lastReply'[w]
    BY <1>2, <1>4, <1>5, <1>7, <2>1, <2>2 DEF InboxInv, AssignedToReplier
  <2>3. /\ \/ new.assignedAdmin = FirstAdmin
           \/ \E m \in MessagesOf(v) : messages[m].admin = new.assignedAdmin
        /\ v \notin contested => new.assignedAdmin = lastReply'[v]
    <3>1. /\ \/ conversations[v].assignedAdmin = FirstAdmin
             \/ \E m \in MessagesOf(v) :
                    messages[m].admin = conversations[v].assignedAdmin
          /\ v \notin contested =>
                conversations[v].assignedAdmin = lastReply[v]
      BY <1>1 DEF InboxInv, AssignedToReplier
    <3>2. c \in MessagesOf(v) /\ messages[c].admin = admin[c]
      BY <1>1, <1>9, Presence DEF InboxInv, TypeOK, MessagesOf, Message
    <3> QED BY <1>3, <1>7, <3>1, <3>2
  <2> QED BY <1>2, <1>4, <2>1, <2>2, <2>3 DEF AssignedToReplier
<1>15. LastMessageIsCovered'
  <2> SUFFICES ASSUME NEW m \in Calls, messages'[m] # None, pc'[m] = "done",
                      m \notin overlapped'
               PROVE  m \in conversations'[messages'[m].conversation].lastMessageAt
    BY DEF LastMessageIsCovered
  <2>1. CASE messages[m].conversation = v
    <3>1. m = c \/ pc[m] = "done"
      BY <1>6
    <3>2. m \in edited[c].lastMessageAt
      BY <1>1, <1>2, <2>1, <3>1 DEF InboxInv, DatesCover, v
    <3> QED BY <1>2, <1>3, <1>4, <2>1, <3>2
  <2>2. CASE messages[m].conversation # v
    <3>1. m # c
      BY <1>1, <2>2
    <3> QED BY <1>2, <1>4, <1>6, <1>9, <2>2, <3>1
            DEF InboxInv, LastMessageIsCovered
  <2> QED BY <2>1, <2>2
<1>16. RefusedOnlyWhenOverlapped'
  <2>1. ASSUME NEW d \in Calls, pc'[d] = "refused"
        PROVE  d \in overlapped' /\ Exists(visitor[d])'
    <3>1. d \in overlapped /\ Exists(visitor[d])
      BY <1>6, <2>1 DEF InboxInv, RefusedOnlyWhenOverlapped
    <3>2. visitor[d] \in Visitors
      BY <1>6, <2>1 DEF InboxInv, CallsAreFit
    <3> QED BY <1>2, <1>5, <3>1, <3>2
  <2> QED BY <2>1 DEF RefusedOnlyWhenOverlapped
<1> QED BY <1>8, <1>10, <1>11, <1>12, <1>13, <1>14, <1>15, <1>16 DEF InboxInv

LEMMA NextInbox == InboxInv /\ [Next]_vars => InboxInv'
<1> SUFFICES ASSUME InboxInv, [Next]_vars PROVE InboxInv'
  OBVIOUS
<1>1. ASSUME NEW c \in Calls, NEW v \in Visitors,
             \/ VisitorWrites(c, v) \/ VisitorOpens(c, v)
             \/ \E a \in Admins : AdminReplies(c, a, v)
      PROVE  InboxInv'
  <2>1. CASE VisitorWrites(c, v)
    <3>1. pc' = [pc EXCEPT ![c] = IF Exists(v) THEN "insert" ELSE "create"]
      BY <2>1 DEF VisitorWrites
    <3> QED BY <2>1, <3>1, StartInv DEF VisitorWrites
  <2>2. CASE VisitorOpens(c, v)
    BY <2>2, StartInv DEF VisitorOpens
  <2>3. ASSUME NEW a \in Admins, AdminReplies(c, a, v) PROVE InboxInv'
    BY <2>3, StartInv DEF AdminReplies
  <2> QED BY <1>1, <2>1, <2>2, <2>3
<1>2. ASSUME NEW c \in Calls, NEW v \in Visitors, RefuseReply(c, v)
      PROVE  InboxInv'
  BY <1>2, RefuseReplyInv
<1>3. ASSUME NEW c \in Calls, CreateConversation(c) PROVE InboxInv'
  BY <1>3, CreateConversationInv
<1>4. ASSUME NEW c \in Calls, RefuseDuplicate(c) PROVE InboxInv'
  BY <1>4, EndInv DEF RefuseDuplicate, Running
<1>5. ASSUME NEW c \in Calls, InsertMessage(c) PROVE InboxInv'
  BY <1>5, InsertMessageInv
<1>6. ASSUME NEW c \in Calls, StampConversation(c) PROVE InboxInv'
  BY <1>6, StampConversationInv
<1>7. ASSUME NEW c \in Calls, SaveConversation(c) PROVE InboxInv'
  BY <1>7, SaveConversationInv
<1>8. ASSUME NEW c \in Calls, Abort(c) PROVE InboxInv'
  BY <1>8, EndInv DEF Abort
<1>9. CASE UNCHANGED vars
  BY <1>9 DEF vars, store, history, InboxInv, TypeOK, CallsAreFit,
     MeetingsAreRecorded, RepliesHoldTheAssignment, DatesCover,
     UnopenedHaveNoReply, AssignedToReplier, LastMessageIsCovered,
     RefusedOnlyWhenOverlapped, Running, Exists, MessagesOf
<1> QED BY <1>1, <1>2, <1>3, <1>4, <1>5, <1>6, <1>7, <1>8, <1>9 DEF Next

\* The inductive invariant holds in every reachable state.
THEOREM InboxInvariant == Spec => []InboxInv
BY InitInbox, NextInbox, PTL DEF Spec

\* Every field keeps its type: a conversation never loses its assignment.
THEOREM InboxTypesHold == Spec => []TypeOK
<1>1. InboxInv => TypeOK
  BY DEF InboxInv
<1> QED BY <1>1, InboxInvariant, PTL

\* However replies and messages overlap and fail, a conversation is assigned to
\* the first administrator or to one who replied in it; and to the last one
\* whose reply was saved, unless two administrators replied at once.
THEOREM ConversationsAreAssigned == Spec => []AssignedToReplier
<1>1. InboxInv => AssignedToReplier
  BY DEF InboxInv
<1> QED BY <1>1, InboxInvariant, PTL

\* The inbox is sorted by a date that covers every message whose sender was told
\* of success and that met no other call, whatever overlaps later.
THEOREM InboxDatesCoverMessages == Spec => []LastMessageIsCovered
<1>1. InboxInv => LastMessageIsCovered
  BY DEF InboxInv
<1> QED BY <1>1, InboxInvariant, PTL

\* The unique index turns a visitor away only next to another call of his.
THEOREM RefusalsOnlyWhenOverlapped == Spec => []RefusedOnlyWhenOverlapped
<1>1. InboxInv => RefusedOnlyWhenOverlapped
  BY DEF InboxInv
<1> QED BY <1>1, InboxInvariant, PTL

-----------------------------------------------------------------------------
(* The inbox implements SupportFeed.                                       *)

\* The refinement mapping of ImplementsFeed.
OpenedMap == {v \in Visitors : Exists(v)}
WroteMap == [c \in Calls |-> IF messages[c] = None THEN None
                             ELSE messages[c].conversation]
AnsweredMap == {c \in Calls : messages[c] # None /\ pc[c] = "done"}
feedMap == <<OpenedMap, WroteMap, AnsweredMap>>

\* A step that changes neither what exists, nor a message, nor an answer.
LEMMA FeedStutter ==
    ASSUME \A v \in Visitors : Exists(v)' <=> Exists(v),
           messages' = messages,
           \A c \in Calls : messages[c] # None =>
                (pc'[c] = "done" <=> pc[c] = "done")
    PROVE  UNCHANGED feedMap
<1>1. OpenedMap' = OpenedMap
  BY DEF OpenedMap
<1>2. WroteMap' = WroteMap
  BY DEF WroteMap
<1>3. AnsweredMap' = AnsweredMap
  BY DEF AnsweredMap
<1> QED BY <1>1, <1>2, <1>3 DEF feedMap

\* A call that starts, or ends without success, leaves the feed as it is.
LEMMA QuietCallStutters ==
    ASSUME TypeOK, CallsAreFit, NEW c \in Calls, UNCHANGED store,
           pc' = [pc EXCEPT ![c] = pc'[c]],
           pc'[c] # "done", pc[c] # "done"
    PROVE  UNCHANGED feedMap
<1>1. UNCHANGED <<conversations, messages>>
  BY DEF store
<1>2. \A d \in Calls : pc'[d] = "done" <=> pc[d] = "done"
  BY DEF TypeOK
<1> QED BY <1>1, <1>2, FeedStutter DEF Exists

LEMMA InitFeed == Init => Feed!FeedInit
<1> SUFFICES ASSUME Init PROVE Feed!FeedInit
  OBVIOUS
<1>1. \A c \in Calls : messages[c] = None
  BY DEF Init
<1>2. WroteMap = [c \in Calls |-> None] /\ AnsweredMap = {}
  BY <1>1 DEF WroteMap, AnsweredMap
<1>3. OpenedMap \in SUBSET Visitors
  BY DEF OpenedMap
<1> QED BY <1>2, <1>3 DEF Feed!FeedInit, OpenedMap, WroteMap, AnsweredMap

\* The steps of the handlers that the feed sees, and those it does not.
LEMMA NextFeed ==
    ASSUME InboxInv, Next
    PROVE  Feed!FeedNext \/ UNCHANGED feedMap
<1>1. ASSUME NEW c \in Calls, CreateConversation(c)
      PROVE  \E v \in Visitors : Feed!Open(v)
  <2>0. PICK v \in Visitors : v = visitor[c]
    BY <1>1 DEF CreateConversation, InboxInv, CallsAreFit, Running
  <2>1. /\ ~Exists(v)
        /\ messages[c] = None
        /\ messages' = messages
        /\ conversations' = [conversations EXCEPT ![v] = Opened]
    BY <1>1, <2>0 DEF CreateConversation, InboxInv, CallsAreFit, Running
  <2>2. \A d \in Calls \ {c} : pc'[d] = pc[d]
    BY <1>1 DEF CreateConversation, Return, InboxInv, TypeOK
  <2>3. \A w \in Visitors : Exists(w)' <=> (w = v \/ Exists(w))
    BY <2>1, Presence DEF InboxInv, TypeOK, Exists
  <2>4. v \notin OpenedMap /\ OpenedMap' = OpenedMap \cup {v}
    BY <2>1, <2>3 DEF OpenedMap
  <2>5. WroteMap' = WroteMap /\ AnsweredMap' = AnsweredMap
    BY <2>1, <2>2 DEF WroteMap, AnsweredMap
  <2>6. Feed!Open(v)
    BY <2>4, <2>5 DEF Feed!Open, OpenedMap, WroteMap, AnsweredMap
  <2> QED BY <2>6
<1>2. ASSUME NEW c \in Calls, InsertMessage(c)
      PROVE  \E v \in Visitors : Feed!Write(c, v)
  <2>0. PICK v \in Visitors : v = visitor[c]
    BY <1>2 DEF InsertMessage, InboxInv, CallsAreFit, Running
  <2> DEFINE new == [conversation |-> v, admin |-> admin[c]]
  <2>1. /\ Exists(v)
        /\ messages[c] = None
        /\ messages' = [messages EXCEPT ![c] = new]
        /\ UNCHANGED conversations
        /\ pc' = [pc EXCEPT ![c] = "stamp"]
        /\ pc[c] = "insert"
    BY <1>2, <2>0 DEF InsertMessage, InboxInv, CallsAreFit, Running
  <2>2. new # None /\ new.conversation = v
    BY <2>1, Presence DEF InboxInv, TypeOK, Message
  <2> HIDE DEF new
  <2>3. /\ messages'[c] = new
        /\ \A d \in Calls \ {c} : messages'[d] = messages[d] /\ pc'[d] = pc[d]
        /\ pc'[c] # "done"
    BY <2>1 DEF InboxInv, TypeOK
  <2>4. v \in OpenedMap /\ OpenedMap' = OpenedMap
    BY <2>1 DEF OpenedMap, Exists
  <2>5. WroteMap[c] = None /\ WroteMap' = [WroteMap EXCEPT ![c] = v]
    <3>1. WroteMap[c] = None
      BY <2>1 DEF WroteMap
    <3>2. WroteMap'[c] = v
      BY <2>2, <2>3 DEF WroteMap
    <3>3. \A d \in Calls \ {c} : WroteMap'[d] = WroteMap[d]
      BY <2>3 DEF WroteMap
    <3>4. /\ WroteMap = [d \in Calls |-> WroteMap[d]]
          /\ WroteMap' = [d \in Calls |-> WroteMap'[d]]
      BY DEF WroteMap
    <3> QED BY <3>1, <3>2, <3>3, <3>4
  <2>6. AnsweredMap' = AnsweredMap
    BY <2>1, <2>2, <2>3 DEF AnsweredMap
  <2>7. Feed!Write(c, v)
    BY <2>4, <2>5, <2>6 DEF Feed!Write, OpenedMap, WroteMap, AnsweredMap
  <2> QED BY <2>7
<1>3. ASSUME NEW c \in Calls, SaveConversation(c)
      PROVE  Feed!End(c)
  <2> DEFINE v == visitor[c]
             new == Saved(conversations[v], read[c], edited[c])
  <2>1. /\ pc[c] = "save"
        /\ v \in Visitors
        /\ Exists(v)
        /\ messages[c] = [conversation |-> v, admin |-> admin[c]]
        /\ messages' = messages
        /\ conversations' = [conversations EXCEPT ![v] = new]
        /\ Return(c, "done")
    BY <1>3 DEF SaveConversation, InboxInv, CallsAreFit, Running
  <2>2. new # None
    <3>1. /\ conversations[v] \in Conversation
          /\ read[c] \in Conversation
          /\ edited[c] \in Conversation
      BY <2>1 DEF InboxInv, TypeOK, CallsAreFit, Exists
    <3>2. new \in Conversation
      BY <3>1 DEF Saved, Modified, Conversation
    <3> QED BY <3>2, Presence
  <2>3. messages[c] # None /\ messages[c].conversation = v
    BY <2>1, Presence DEF InboxInv, TypeOK, Message
  <2> HIDE DEF v, new
  <2>4. \A w \in Visitors : Exists(w)' <=> Exists(w)
    BY <2>1, <2>2 DEF InboxInv, TypeOK, Exists
  <2>5. /\ pc'[c] = "done"
        /\ \A d \in Calls \ {c} : pc'[d] = pc[d]
    BY <2>1, ReturnFacts DEF InboxInv
  <2>6. OpenedMap' = OpenedMap /\ WroteMap' = WroteMap
    BY <2>1, <2>4 DEF OpenedMap, WroteMap
  <2>7. WroteMap[c] # None
    BY <2>1, <2>3, Presence DEF WroteMap
  <2>8. c \notin AnsweredMap /\ AnsweredMap' = AnsweredMap \cup {c}
    BY <2>1, <2>3, <2>5 DEF AnsweredMap
  <2> QED BY <2>6, <2>7, <2>8 DEF Feed!End, OpenedMap, WroteMap, AnsweredMap
<1>4. ASSUME NEW c \in Calls, NEW v \in Visitors,
             \/ VisitorWrites(c, v) \/ VisitorOpens(c, v) \/ RefuseReply(c, v)
             \/ \E a \in Admins : AdminReplies(c, a, v)
      PROVE  UNCHANGED feedMap
  <2>1. /\ UNCHANGED store
        /\ pc[c] = "idle"
        /\ \E p \in {"create", "open", "insert", "failed"} :
                pc' = [pc EXCEPT ![c] = p]
    BY <1>4 DEF VisitorWrites, VisitorOpens, RefuseReply, AdminReplies, Start
  <2>2. pc' = [pc EXCEPT ![c] = pc'[c]] /\ pc'[c] # "done"
    BY <2>1 DEF InboxInv, TypeOK
  <2> QED BY <2>1, <2>2, QuietCallStutters DEF InboxInv
<1>5. ASSUME NEW c \in Calls,
             RefuseDuplicate(c) \/ StampConversation(c) \/ Abort(c)
      PROVE  UNCHANGED feedMap
  <2>1. /\ UNCHANGED store
        /\ pc[c] # "done"
        /\ \E p \in {"refused", "save", "failed"} : pc' = [pc EXCEPT ![c] = p]
    BY <1>5 DEF RefuseDuplicate, StampConversation, Abort, Return, Running
  <2>2. pc' = [pc EXCEPT ![c] = pc'[c]] /\ pc'[c] # "done"
    BY <2>1 DEF InboxInv, TypeOK
  <2> QED BY <2>1, <2>2, QuietCallStutters DEF InboxInv
<1>6. ASSUME NEW c \in Calls,
             CreateConversation(c) \/ InsertMessage(c) \/ SaveConversation(c)
      PROVE  Feed!FeedNext
  BY <1>1, <1>2, <1>3, <1>6 DEF Feed!FeedNext
<1> QED BY <1>4, <1>5, <1>6 DEF Next

\* The handlers keep the promise of SupportFeed: every step of theirs is a
\* step of the feed or changes nothing that its users see.
THEOREM InboxRefinesFeed == Spec => ImplementsFeed
<1>1. Init => Feed!FeedInit
  BY InitFeed
<1>2. InboxInv /\ [Next]_vars => [Feed!FeedNext]_feedMap
  <2> SUFFICES ASSUME InboxInv, [Next]_vars
               PROVE  Feed!FeedNext \/ UNCHANGED feedMap
    OBVIOUS
  <2>1. CASE Next
    BY <2>1, NextFeed
  <2>2. CASE UNCHANGED vars
    BY <2>2, FeedStutter DEF vars, store, Exists
  <2> QED BY <2>1, <2>2
<1>3. InboxInv /\ [Next]_vars => [Feed!FeedNext]_(Feed!feed)
  BY <1>2 DEF feedMap, OpenedMap, WroteMap, AnsweredMap, Feed!feed
<1> QED BY <1>1, <1>3, InboxInvariant, PTL
        DEF Spec, ImplementsFeed, Feed!FeedSpec

-----------------------------------------------------------------------------
(* The administrator's page.                                               *)

\* Requests of one kind, and whether one is the latest of its kind.
OfKind(kind) == {i \in DOMAIN http : http[i].kind = kind}

Latest(kind, i) == i \in OfKind(kind) /\ \A j \in OfKind(kind) : j <= i

\* The page is still to ask for messages: a list, or a reply that asks for one,
\* is to arrive.
Reloading == OfKind("list") \cup OfKind("reply") # {}

\* A list is answered with conversations, a fetch with messages of the
\* conversation it is about, a reply with the call that wrote in it.
RequestFits(r) ==
    /\ r.kind = "list" /\ r.answer # None => r.answer \subseteq opened
    /\ r.kind \in {"messages", "reply"} => r.about \in opened
    /\ r.kind = "messages" /\ r.answer # None =>
            r.answer \subseteq MessagesIn(r.about)
    /\ r.kind = "reply" /\ r.answer # None => r.answer \in Stored

AnswersFit == \A i \in DOMAIN http : RequestFits(http[i])

\* What is shown has been stored.
ShownStored == \A m \in Calls : shown[m] > 0 => m \in Stored

\* Requests are served in the order sent.
ServedInOrder ==
    \A i, j \in DOMAIN http :
        i < j /\ http[i].answer = None => http[j].answer = None

\* Conversations are never closed, so each list has those of the one before.
ListsGrow ==
    /\ \A i \in OfKind("list") :
            http[i].answer # None => supportThreads \subseteq http[i].answer
    /\ \A i, j \in OfKind("list") :
            i < j /\ http[j].answer # None => http[i].answer \subseteq http[j].answer
    /\ \A i \in OfKind("messages") : http[i].about \in supportThreads

\* The messages of the selected conversation that the page is to show, but for
\* those it will still hear of.
Owed == {m \in expected \ ToSet(wire) : wrote[m] = selected}

\* Unless the list is to be reloaded, the messages asked for last are those of
\* the selected conversation, and nothing owed is missing.
MessagesFit ==
    /\ loading => Reloading
    /\ ~Reloading => \A i \in OfKind("messages") : Latest("messages", i) =>
            /\ http[i].about = selected
            /\ http[i].answer # None => Owed \subseteq http[i].answer
    /\ ~Reloading /\ OfKind("messages") = {} =>
            /\ \A m \in Calls : shown[m] > 0 => wrote[m] = selected
            /\ \A m \in Owed : shown[m] > 0

\* What holds while the requests keep their order.
InOrder == ServedInOrder /\ ListsGrow /\ MessagesFit

\* What holds in any order.
AnyOrder ==
    /\ ConsoleTypeOK
    /\ AnswersFit
    /\ ShownStored
    /\ ShownOnce
    /\ disturbed => expected = {}

\* The inductive invariant of the page.
PageInv == AnyOrder /\ (~disturbed => InOrder)

-----------------------------------------------------------------------------
(* The page's requests.                                                    *)

\* What RemoveAt leaves of a sequence.
LEMMA RestFacts ==
    ASSUME NEW S, NEW s \in Seq(S), NEW i \in 1 .. Len(s)
    PROVE  /\ RemoveAt(s, i) \in Seq(S)
           /\ Len(RemoveAt(s, i)) = Len(s) - 1
           /\ \A k \in 1 .. (Len(s) - 1) :
                RemoveAt(s, i)[k] = IF k < i THEN s[k] ELSE s[k + 1]
<1> DEFINE a == SubSeq(s, 1, i - 1)
           b == SubSeq(s, i + 1, Len(s))
<1>0. Len(s) \in Nat /\ i \in Nat /\ i >= 1 /\ i <= Len(s)
  OBVIOUS
<1>1. /\ a \in Seq(S) /\ Len(a) = i - 1
      /\ \A k \in 1 .. (i - 1) : a[k] = s[k]
  OBVIOUS
<1>2. /\ b \in Seq(S) /\ Len(b) = Len(s) - i
      /\ \A k \in 1 .. (Len(s) - i) : b[k] = s[i + k]
  OBVIOUS
<1> HIDE DEF a, b
<1> DEFINE r == RemoveAt(s, i)
<1>3. /\ r \in Seq(S) /\ Len(r) = Len(a) + Len(b)
      /\ \A k \in 1 .. Len(a) + Len(b) :
            r[k] = IF k <= Len(a) THEN a[k] ELSE b[k - Len(a)]
  <2>1. r = a \o b
    BY DEF RemoveAt, a, b
  <2> HIDE DEF r
  <2> QED BY <1>1, <1>2, <2>1, ConcatProperties
<1> HIDE DEF r
<1>4. ASSUME NEW k \in 1 .. (Len(s) - 1)
      PROVE  r[k] = IF k < i THEN s[k] ELSE s[k + 1]
  <2>1. k \in 1 .. Len(a) + Len(b)
    BY <1>0, <1>1, <1>2
  <2>2. CASE k < i
    BY <1>0, <1>1, <1>3, <2>1, <2>2
  <2>3. CASE k >= i
    <3>1. k - Len(a) = k - i + 1
      BY <1>0, <1>1, <2>3
    <3>4. r[k] = b[k - Len(a)]
      <4>1. ~(k <= Len(a))
        BY <1>0, <1>1, <2>3
      <4> QED BY <1>3, <2>1, <4>1
    <3>2. k - i + 1 \in 1 .. (Len(s) - i) /\ i + (k - i + 1) = k + 1
      BY <1>0, <2>3
    <3>3. b[k - i + 1] = s[i + (k - i + 1)]
      BY <1>2, <3>2
    <3> QED BY <1>0, <2>3, <3>1, <3>2, <3>3, <3>4
  <2> QED BY <1>0, <2>2, <2>3
<1>5. Len(r) = Len(s) - 1
  BY <1>0, <1>1, <1>2, <1>3
<1> QED BY <1>3, <1>4, <1>5 DEF r

LEMMA RestOfHttp ==
    ASSUME http \in Seq(Request), NEW i \in DOMAIN http
    PROVE  /\ Rest(i) \in Seq(Request)
           /\ Len(Rest(i)) = Len(http) - 1
           /\ \A k \in 1 .. (Len(http) - 1) :
                Rest(i)[k] = IF k < i THEN http[k] ELSE http[k + 1]
<1>1. i \in 1 .. Len(http)
  OBVIOUS
<1> QED BY <1>1, RestFacts DEF Rest

\* A request is sent after those that are pending.
LEMMA SendFacts ==
    ASSUME NEW pending \in Seq(Request), NEW kind, NEW v,
           kind \in {"list", "messages", "reply"}, v \in Visitors \cup {None},
           Send(kind, v, pending)
    PROVE  /\ http' \in Seq(Request)
           /\ Len(http') = Len(pending) + 1
           /\ Len(http') <= MaxInFlight
           /\ \A k \in 1 .. Len(pending) : http'[k] = pending[k]
           /\ http'[Len(pending) + 1].kind = kind
           /\ http'[Len(pending) + 1].about = v
           /\ http'[Len(pending) + 1].answer = None
<1> DEFINE r == [kind |-> kind, about |-> v, answer |-> None]
<1>1. r.kind = kind /\ r.about = v /\ r.answer = None /\ r \in Request
  BY DEF Request
<1>2. Len(pending) < MaxInFlight /\ http' = Append(pending, r)
  BY DEF Send
<1> HIDE DEF r
<1>3. Len(pending) + 1 <= MaxInFlight
  BY <1>2, MaxInFlightAssumption
<1> QED BY <1>1, <1>2, <1>3

\* An answer stays with its request.
LEMMA AnswerFacts ==
    ASSUME http \in Seq(Request), NEW i \in DOMAIN http, NEW answer,
           answer \in (SUBSET Visitors) \cup (SUBSET Calls) \cup Calls,
           Answer(i, answer)
    PROVE  /\ http' \in Seq(Request)
           /\ Len(http') = Len(http)
           /\ \A k \in DOMAIN http :
                /\ http'[k].kind = http[k].kind
                /\ http'[k].about = http[k].about
                /\ http'[k].answer = IF k = i THEN answer ELSE http[k].answer
<1> DEFINE r == [http[i] EXCEPT !.answer = answer]
<1>1. http[i] \in Request
  OBVIOUS
<1>2. /\ r.kind = http[i].kind /\ r.about = http[i].about /\ r.answer = answer
      /\ r \in Request
  BY <1>1 DEF Request
<1>3. http' = [http EXCEPT ![i] = r]
  BY DEF Answer
<1> HIDE DEF r
<1>4. /\ http' \in Seq(Request)
      /\ Len(http') = Len(http)
      /\ \A k \in DOMAIN http : http'[k] = IF k = i THEN r ELSE http[k]
  BY <1>2, <1>3, ExceptSeq
<1> QED BY <1>2, <1>4

\* The histories after a step.
LEMMA RecordFacts ==
    ASSUME NEW disturbs \in BOOLEAN, NEW told, Record(disturbs, told)
    PROVE  /\ disturbed' = disturbs
           /\ expected' = IF disturbs THEN {} ELSE expected \cup told
BY DEF Record

-----------------------------------------------------------------------------
(* Types, and the implementation of what public support promises.          *)

\* A step of the service is one that was promised; the page and the network
\* leave the service alone, but for what serves a reply.
LEMMA PageStepIsFeedStep ==
    ASSUME ConsoleTypeOK, AnswersFit, [ConsoleNext]_consoleVars
    PROVE  [FeedNext]_feed
<1>1. CASE Others
  BY <1>1 DEF Others, FeedNext
<1>2. CASE \E c \in Calls : EndCall(c) \/ Announce(c)
  BY <1>2 DEF EndCall, Announce, FeedNext
<1>3. CASE Disconnect \/ Reconnect \/ Operate \/ Hear
  BY <1>3 DEF Disconnect, Reconnect, Operate, Refresh, Reply, Click, Hear
<1>4. ASSUME NEW i \in DOMAIN http,
             \/ ServeRead(i) \/ ListArrives(i) \/ MessagesArrive(i)
             \/ ReplyArrives(i) \/ RequestFails(i)
      PROVE  UNCHANGED feed
  BY <1>4 DEF ServeRead, ListArrives, MessagesArrive, ReplyArrives,
              RequestFails
<1>5. ASSUME NEW i \in DOMAIN http, NEW c \in Calls, ServeReply(i, c)
      PROVE  FeedNext
  <2>1. http[i].about \in Visitors
    BY <1>5 DEF ServeReply, AnswersFit, RequestFits, ConsoleTypeOK
  <2>2. Write(c, http[i].about)
    BY <1>5 DEF ServeReply
  <2> QED BY <2>1, <2>2 DEF FeedNext
<1>6. CASE UNCHANGED consoleVars
  BY <1>6 DEF consoleVars
<1> QED BY <1>1, <1>2, <1>3, <1>4, <1>5, <1>6 DEF ConsoleNext, Network

\* What a step of the service keeps.
LEMMA FeedKeeps ==
    ASSUME ConsoleTypeOK, [FeedNext]_feed
    PROVE  /\ opened \subseteq opened' /\ opened' \subseteq Visitors
           /\ wrote' \in [Calls -> opened' \cup {None}]
           /\ answered \subseteq answered' /\ answered' \subseteq Stored'
           /\ \A m \in Stored : wrote'[m] = wrote[m]
           /\ Stored \subseteq Stored'
           /\ \A v \in opened : MessagesIn(v) \subseteq MessagesIn(v)'
<1>1. /\ opened \subseteq Visitors /\ wrote \in [Calls -> opened \cup {None}]
      /\ answered \subseteq Stored
  BY DEF ConsoleTypeOK
<1>2. ASSUME NEW v \in Visitors, Open(v)
      PROVE  /\ opened \subseteq opened' /\ opened' \subseteq Visitors
             /\ UNCHANGED <<wrote, answered>>
  BY <1>1, <1>2 DEF Open
<1>3. ASSUME NEW c \in Calls, End(c)
      PROVE  /\ UNCHANGED <<opened, wrote>>
             /\ answered' = answered \cup {c} /\ c \in Stored
  BY <1>3 DEF End, Stored
<1>4. ASSUME NEW c \in Calls, NEW v \in Visitors, Write(c, v)
      PROVE  /\ UNCHANGED <<opened, answered>>
             /\ wrote' = [wrote EXCEPT ![c] = v]
             /\ v \in opened /\ wrote[c] = None /\ v # None
  BY <1>4, NoVisitorAssumption DEF Write
<1>5. /\ opened \subseteq opened' /\ opened' \subseteq Visitors
      /\ wrote' \in [Calls -> opened' \cup {None}]
      /\ answered \subseteq answered'
      /\ \A m \in Stored : wrote'[m] = wrote[m]
  <2>1. CASE UNCHANGED feed
    BY <1>1, <2>1 DEF feed
  <2>2. CASE \E v \in Visitors : Open(v)
    BY <1>1, <1>2, <2>2
  <2>3. CASE \E c \in Calls : End(c)
    BY <1>1, <1>3, <2>3
  <2>4. ASSUME NEW c \in Calls, NEW v \in Visitors, Write(c, v)
        PROVE  /\ opened \subseteq opened' /\ opened' \subseteq Visitors
               /\ wrote' \in [Calls -> opened' \cup {None}]
               /\ answered \subseteq answered'
               /\ \A m \in Stored : wrote'[m] = wrote[m]
    BY <1>1, <1>4, <2>4 DEF Stored
  <2> QED BY <2>1, <2>2, <2>3, <2>4 DEF FeedNext
<1>6. Stored \subseteq Stored'
  BY <1>5 DEF Stored
<1>7. answered' \subseteq Stored'
  <2>1. answered' \subseteq answered \/ \E c \in Stored :
                                            answered' = answered \cup {c}
    BY <1>2, <1>3, <1>4 DEF FeedNext, feed
  <2> QED BY <1>1, <1>6, <2>1
<1>8. \A v \in opened : MessagesIn(v) \subseteq MessagesIn(v)'
  <2>1. None \notin opened
    BY <1>1, NoVisitorAssumption
  <2> QED BY <1>5, <2>1 DEF MessagesIn, Stored
<1> QED BY <1>5, <1>6, <1>7, <1>8

\* A request that fits goes on to fit while the service works.
LEMMA FitsStays ==
    ASSUME ConsoleTypeOK, [FeedNext]_feed, NEW r, RequestFits(r)
    PROVE  RequestFits(r)'
<1>1. /\ opened \subseteq opened' /\ Stored \subseteq Stored'
      /\ \A v \in opened : MessagesIn(v) \subseteq MessagesIn(v)'
  BY FeedKeeps
<1> QED BY <1>1 DEF RequestFits

\* The requests under way go on to fit, and new ones are not answered yet.
LEMMA FitsWithNew ==
    ASSUME ConsoleTypeOK, AnswersFit, [FeedNext]_feed,
           \A k \in DOMAIN http' :
                \/ \E j \in DOMAIN http : http'[k] = http[j]
                \/ /\ http'[k].answer = None
                   /\ http'[k].kind = "list" \/ http'[k].about \in opened
    PROVE  AnswersFit'
<1> SUFFICES ASSUME NEW k \in DOMAIN http', NEW r, r = http'[k]
             PROVE  RequestFits(r)'
  BY DEF AnswersFit, RequestFits
<1>1. CASE \E j \in DOMAIN http : r = http[j]
  <2>1. RequestFits(r)
    BY <1>1 DEF AnswersFit
  <2> QED BY <2>1, FitsStays
<1>2. CASE r.answer = None /\ (r.kind = "list" \/ r.about \in opened)
  BY <1>2, FeedKeeps DEF RequestFits
<1> QED BY <1>1, <1>2

LEMMA RecordType ==
    ASSUME ConsoleTypeOK, [FeedNext]_feed, NEW disturbs \in BOOLEAN,
           NEW told, told \subseteq Stored', Record(disturbs, told)
    PROVE  /\ disturbed' \in BOOLEAN
           /\ expected' \subseteq Stored'
           /\ disturbed' => expected' = {}
<1>1. expected \subseteq Stored'
  BY FeedKeeps DEF ConsoleTypeOK
<1> QED BY <1>1, RecordFacts

\* What the service does is well-typed for the page, which waits.
LEMMA FeedStepType ==
    ASSUME AnyOrder, [FeedNext]_feed, UNCHANGED <<view, http>>,
           wire' \in Seq(answered'), connected' \in BOOLEAN,
           joined' \subseteq joined,
           disturbed' \in BOOLEAN, expected' \subseteq Stored',
           disturbed' => expected' = {}
    PROVE  AnyOrder'
<1>1. ConsoleTypeOK'
  BY FeedKeeps DEF AnyOrder, ConsoleTypeOK, view
<1>2. AnswersFit'
  BY FitsWithNew DEF AnyOrder
<1>3. ShownStored' /\ ShownOnce'
  BY FeedKeeps DEF AnyOrder, ShownStored, ShownOnce, view
<1> QED BY <1>1, <1>2, <1>3 DEF AnyOrder

LEMMA OthersType ==
    ASSUME AnyOrder, Others \/ \E c \in Calls : EndCall(c)
    PROVE  AnyOrder'
<1>1. [FeedNext]_feed
  BY PageStepIsFeedStep DEF AnyOrder, ConsoleNext
<1>2. UNCHANGED <<gateway, page>>
  BY DEF Others, EndCall
<1>3. /\ answered \subseteq answered' /\ Stored \subseteq Stored'
  BY <1>1, FeedKeeps DEF AnyOrder
<1>4. wire' \in Seq(answered')
  <2>1. wire \in Seq(answered) /\ wire' = wire
    BY <1>2 DEF AnyOrder, ConsoleTypeOK, gateway
  <2> QED BY <1>3, <2>1
<1>5. expected' \subseteq Stored'
  BY <1>2, <1>3 DEF AnyOrder, ConsoleTypeOK, page
<1> QED BY <1>1, <1>2, <1>4, <1>5, FeedStepType
        DEF gateway, page, AnyOrder, ConsoleTypeOK

\* The messages on the wire after an announcement.
LEMMA AnnounceFacts ==
    ASSUME AnyOrder, NEW c \in Calls, Announce(c), connected
    PROVE  /\ wire' \in Seq(answered') /\ ToSet(wire') = ToSet(wire) \cup {c}
           /\ Record(disturbed, {c})
<1>1. PICK n \in Copies(wrote[c]) : wire' = wire \o [i \in 1 .. n |-> c]
  BY DEF Announce
<1>2. n \in {1, 2}
  BY <1>1 DEF Copies
<1>3. wire \in Seq(answered) /\ answered' = answered \cup {c}
  BY DEF AnyOrder, ConsoleTypeOK, Announce, End
<1> DEFINE more == [i \in 1 .. n |-> c]
<1>4. /\ more \in Seq({c}) /\ Len(more) = n
      /\ \A i \in 1 .. n : more[i] = c
  BY <1>2
<1> HIDE DEF more
<1>5. wire \in Seq(answered') /\ more \in Seq(answered')
  BY <1>3, <1>4
<1>6. wire' = wire \o more
  BY <1>1 DEF more
<1>7. /\ wire' \in Seq(answered') /\ Len(wire') = Len(wire) + Len(more)
      /\ \A i \in 1 .. Len(wire) + Len(more) :
            wire'[i] = IF i <= Len(wire) THEN wire[i] ELSE more[i - Len(wire)]
  BY <1>5, <1>6, ConcatProperties
<1>8. ToSet(wire') = ToSet(wire) \cup {c}
  <2>1. ASSUME NEW i \in DOMAIN wire' PROVE wire'[i] \in ToSet(wire) \cup {c}
    <3>1. i \in 1 .. Len(wire) + n
      BY <1>4, <1>7
    <3>2. CASE i <= Len(wire)
      <4>1. i \in DOMAIN wire /\ wire'[i] = wire[i]
        BY <1>3, <1>4, <1>7, <3>1, <3>2
      <4> QED BY <4>1 DEF ToSet
    <3>3. CASE ~(i <= Len(wire))
      <4>1. i - Len(wire) \in 1 .. n
        BY <1>2, <1>3, <3>1, <3>3
      <4> QED BY <1>4, <1>7, <3>1, <3>3, <4>1
    <3> QED BY <3>2, <3>3
  <2>2. ASSUME NEW i \in DOMAIN wire PROVE wire[i] \in ToSet(wire')
    <3>1. i \in DOMAIN wire' /\ wire'[i] = wire[i]
      BY <1>2, <1>3, <1>4, <1>7
    <3> QED BY <3>1 DEF ToSet
  <2>3. c \in ToSet(wire')
    <3>1. /\ Len(wire) + 1 \in DOMAIN wire' /\ ~(Len(wire) + 1 <= Len(wire))
          /\ Len(wire) + 1 - Len(wire) = 1 /\ 1 \in 1 .. n
      BY <1>2, <1>3, <1>4, <1>7
    <3>2. wire'[Len(wire) + 1] = c
      BY <1>4, <1>7, <3>1
    <3> QED BY <3>1, <3>2 DEF ToSet
  <2> QED BY <2>1, <2>2, <2>3 DEF ToSet
<1> QED BY <1>7, <1>8 DEF Announce

LEMMA AnnounceType ==
    ASSUME AnyOrder, NEW c \in Calls, Announce(c)
    PROVE  AnyOrder'
<1>1. [FeedNext]_feed
  BY PageStepIsFeedStep DEF AnyOrder, ConsoleNext
<1>2. /\ UNCHANGED <<connected, joined, view, http>>
      /\ c \in answered'
  BY DEF Announce, End
<1>3. /\ answered \subseteq answered' /\ Stored \subseteq Stored'
      /\ answered' \subseteq Stored'
  BY <1>1, FeedKeeps DEF AnyOrder
<1>4. CASE connected
  <2>1. wire' \in Seq(answered') /\ Record(disturbed, {c})
    BY <1>4, AnnounceFacts
  <2>2. {c} \subseteq Stored' /\ disturbed \in BOOLEAN /\ ConsoleTypeOK
    BY <1>2, <1>3 DEF AnyOrder, ConsoleTypeOK
  <2>3. /\ disturbed' \in BOOLEAN /\ expected' \subseteq Stored'
        /\ disturbed' => expected' = {}
    BY <1>1, <2>1, <2>2, RecordType
  <2> QED BY <1>1, <1>2, <2>1, <2>3, FeedStepType DEF AnyOrder, ConsoleTypeOK
<1>5. CASE ~connected
  <2>1. UNCHANGED <<wire, disturbed, expected>>
    BY <1>5 DEF Announce
  <2>2. wire \in Seq(answered) /\ expected \subseteq Stored'
    BY <1>3 DEF AnyOrder, ConsoleTypeOK
  <2>3. wire' \in Seq(answered')
    BY <1>3, <2>1, <2>2
  <2> QED BY <1>1, <1>2, <2>1, <2>2, <2>3, FeedStepType
          DEF AnyOrder, ConsoleTypeOK
<1> QED BY <1>4, <1>5

LEMMA SocketType ==
    ASSUME AnyOrder, Disconnect \/ Reconnect
    PROVE  AnyOrder'
<1>1. UNCHANGED feed /\ UNCHANGED <<view, http>>
  BY DEF Disconnect, Reconnect, page
<1>2. Stored' = Stored
  BY <1>1 DEF Stored, feed
<1>3. CASE Disconnect
  <2>1. wire' = <<>> /\ connected' = FALSE /\ joined' = {}
    BY <1>3 DEF Disconnect
  <2>2. expected' \subseteq expected /\ disturbed' = disturbed
    BY <1>3 DEF Disconnect
  <2>3. expected \subseteq Stored /\ disturbed \in BOOLEAN
        /\ (disturbed => expected = {})
    BY DEF AnyOrder, ConsoleTypeOK
  <2>4. wire' \in Seq(answered')
    BY <2>1
  <2>6. connected' \in BOOLEAN
    BY <2>1
  <2>5. expected' \subseteq Stored' /\ (disturbed' => expected' = {})
    BY <1>2, <2>2, <2>3
  <2> QED BY <1>1, <2>1, <2>2, <2>3, <2>4, <2>5, <2>6, FeedStepType
<1>4. CASE Reconnect
  BY <1>1, <1>2, <1>4, FeedStepType
     DEF Reconnect, AnyOrder, ConsoleTypeOK, page, feed
<1> QED BY <1>3, <1>4

\* What appendSupportMessage shows.
LEMMA AppendedFacts ==
    ASSUME AnyOrder, NEW m \in Stored
    PROVE  /\ Appended(m) \in [Calls -> {0, 1}]
           /\ \A n \in Calls : Appended(m)[n] > 0 <=> shown[n] > 0 \/ n = m
<1>1. shown \in [Calls -> Nat] /\ (\A n \in Calls : shown[n] <= 1) /\ m \in Calls
  BY DEF AnyOrder, ConsoleTypeOK, ShownOnce, Stored
<1>2. \A n \in Calls : shown[n] \in {0, 1}
  BY <1>1
<1>3. Appended(m) =
        [n \in Calls |-> IF n = m /\ shown[n] = 0 THEN 1 ELSE shown[n]]
  BY <1>1 DEF Appended
<1> QED BY <1>1, <1>2, <1>3

LEMMA OnceFacts ==
    ASSUME NEW set
    PROVE  /\ Once(set) \in [Calls -> {0, 1}]
           /\ \A n \in Calls : Once(set)[n] > 0 <=> n \in set
BY DEF Once

\* A step of the page, with what it sends, selects and shows.
LEMMA PageStepType ==
    ASSUME AnyOrder, UNCHANGED feed, NEW disturbs \in BOOLEAN, NEW told,
           Record(disturbs, told), told \subseteq Stored,
           http' \in Seq(Request), Len(http') <= MaxInFlight,
           \A k \in DOMAIN http' :
                \/ \E j \in DOMAIN http : http'[k] = http[j]
                \/ /\ http'[k].answer = None
                   /\ http'[k].kind = "list" \/ http'[k].about \in opened,
           wire' \in Seq(answered), connected' \in BOOLEAN,
           joined' \subseteq Visitors, supportThreads' \subseteq opened,
           loading' \in BOOLEAN, selected' \in supportThreads' \cup {None},
           shown' = shown \/ shown' \in [Calls -> {0, 1}],
           \A m \in Calls : shown'[m] > 0 => shown[m] > 0 \/ m \in Stored
    PROVE  AnyOrder'
<1>1. Stored' = Stored /\ UNCHANGED <<opened, wrote, answered>>
  BY DEF Stored, feed
<1>2. /\ disturbed' \in BOOLEAN /\ expected' \subseteq Stored'
      /\ disturbed' => expected' = {}
  BY <1>1, RecordType DEF AnyOrder
<1>3. AnswersFit'
  BY FitsWithNew DEF AnyOrder
<1>4. shown' \in [Calls -> Nat] /\ ShownOnce'
  BY DEF AnyOrder, ConsoleTypeOK, ShownOnce
<1>5. ShownStored'
  BY <1>1 DEF AnyOrder, ShownStored
<1>6. ConsoleTypeOK'
  BY <1>1, <1>2, <1>4 DEF AnyOrder, ConsoleTypeOK
<1> QED BY <1>2, <1>3, <1>4, <1>5, <1>6 DEF AnyOrder

\* One that tells the page of no message.
LEMMA PageStepQuiet ==
    ASSUME AnyOrder, UNCHANGED feed, NEW disturbs \in BOOLEAN,
           Record(disturbs, {}),
           http' \in Seq(Request), Len(http') <= MaxInFlight,
           \A k \in DOMAIN http' :
                \/ \E j \in DOMAIN http : http'[k] = http[j]
                \/ /\ http'[k].answer = None
                   /\ http'[k].kind = "list" \/ http'[k].about \in opened,
           wire' \in Seq(answered), connected' \in BOOLEAN,
           joined' \subseteq Visitors, supportThreads' \subseteq opened,
           loading' \in BOOLEAN, selected' \in supportThreads' \cup {None},
           shown' = shown \/ shown' \in [Calls -> {0, 1}],
           \A m \in Calls : shown'[m] > 0 => shown[m] > 0 \/ m \in Stored
    PROVE  AnyOrder'
<1>1. PICK told : told = {} /\ Record(disturbs, told)
  OBVIOUS
<1>2. told \subseteq Stored
  BY <1>1
<1>3. Record(disturbs, told)
  BY <1>1
<1> QED BY <1>2, <1>3, PageStepType

\* What LoadSupportThreads and SelectSupportThread make of pending requests.
LEMMA LoadFacts ==
    ASSUME NEW pending \in Seq(Request), LoadSupportThreads(pending)
    PROVE  /\ http' \in Seq(Request)
           /\ Len(http') = Len(pending) + 1
           /\ Len(http') <= MaxInFlight
           /\ \A k \in 1 .. Len(pending) : http'[k] = pending[k]
           /\ http'[Len(pending) + 1].kind = "list"
           /\ http'[Len(pending) + 1].answer = None
           /\ loading' = TRUE
BY SendFacts DEF LoadSupportThreads

LEMMA SelectFacts ==
    ASSUME NEW pending \in Seq(Request), NEW v \in Visitors,
           SelectSupportThread(v, pending)
    PROVE  /\ http' \in Seq(Request)
           /\ Len(http') = Len(pending) + 1
           /\ Len(http') <= MaxInFlight
           /\ \A k \in 1 .. Len(pending) : http'[k] = pending[k]
           /\ http'[Len(pending) + 1].kind = "messages"
           /\ http'[Len(pending) + 1].about = v
           /\ http'[Len(pending) + 1].answer = None
           /\ loading' = FALSE /\ selected' = v
           /\ joined' = joined \cup {v}
BY SendFacts DEF SelectSupportThread

LEMMA TypeFacts ==
    ASSUME AnyOrder
    PROVE  /\ opened \subseteq Visitors
           /\ wrote \in [Calls -> opened \cup {None}]
           /\ answered \subseteq Stored
           /\ wire \in Seq(answered)
           /\ connected \in BOOLEAN
           /\ joined \subseteq Visitors
           /\ supportThreads \subseteq opened
           /\ loading \in BOOLEAN
           /\ selected \in supportThreads \cup {None}
           /\ shown \in [Calls -> Nat]
           /\ http \in Seq(Request) /\ Len(http) <= MaxInFlight
           /\ disturbed \in BOOLEAN
           /\ expected \subseteq Stored
           /\ None \notin opened
BY NoVisitorAssumption DEF AnyOrder, ConsoleTypeOK

\* Requests after one more was sent.
LEMMA PendingAndNew ==
    ASSUME http \in Seq(Request), NEW pending \in Seq(Request),
           \A k \in 1 .. Len(pending) :
                \E j \in DOMAIN http : pending[k] = http[j],
           http' \in Seq(Request), Len(http') = Len(pending) + 1,
           \A k \in 1 .. Len(pending) : http'[k] = pending[k],
           LET last == http'[Len(pending) + 1]
           IN  /\ last.answer = None
               /\ last.kind = "list" \/ last.about \in opened
    PROVE  \A k \in DOMAIN http' :
                \/ \E j \in DOMAIN http : http'[k] = http[j]
                \/ /\ http'[k].answer = None
                   /\ http'[k].kind = "list" \/ http'[k].about \in opened
<1> TAKE k \in DOMAIN http'
<1>1. k \in 1 .. Len(pending) \/ k = Len(pending) + 1
  OBVIOUS
<1>2. CASE k \in 1 .. Len(pending)
  BY <1>2
<1>3. CASE k = Len(pending) + 1
  BY <1>3
<1> QED BY <1>1, <1>2, <1>3

LEMMA OperateType ==
    ASSUME AnyOrder, Operate
    PROVE  AnyOrder'
<1>1. /\ http \in Seq(Request) /\ supportThreads \subseteq opened
      /\ opened \subseteq Visitors /\ disturbed \in BOOLEAN
      /\ \A k \in 1 .. Len(http) : \E j \in DOMAIN http : http[k] = http[j]
      /\ (disturbed /\ http # <<>>) \in BOOLEAN
  BY TypeFacts
<1>2. CASE Refresh
  <2>1. LoadSupportThreads(http) /\ Record(disturbed /\ http # <<>>, Stored)
        /\ UNCHANGED <<feed, gateway, supportThreads, selected, shown>>
    BY <1>2 DEF Refresh, StartFromRest
  <2>2. /\ http' \in Seq(Request) /\ Len(http') <= MaxInFlight
        /\ loading' = TRUE
        /\ \A k \in DOMAIN http' :
                \/ \E j \in DOMAIN http : http'[k] = http[j]
                \/ /\ http'[k].answer = None
                   /\ http'[k].kind = "list" \/ http'[k].about \in opened
    BY <1>1, <2>1, LoadFacts, PendingAndNew
  <2> QED BY <1>1, <2>1, <2>2, TypeFacts, PageStepType DEF gateway
<1>3. CASE Reply
  <2>1. /\ Send("reply", selected, http) /\ Record(disturbed /\ http # <<>>, {})
        /\ selected \in opened /\ UNCHANGED <<feed, gateway, view>>
    BY <1>3, TypeFacts DEF Reply, StartFromRest
  <2>2. /\ http' \in Seq(Request) /\ Len(http') <= MaxInFlight
        /\ \A k \in DOMAIN http' :
                \/ \E j \in DOMAIN http : http'[k] = http[j]
                \/ /\ http'[k].answer = None
                   /\ http'[k].kind = "list" \/ http'[k].about \in opened
    BY <1>1, <2>1, SendFacts, PendingAndNew
  <2>3. UNCHANGED <<feed, wire, connected, joined, supportThreads, loading,
                    selected, shown>>
    BY <2>1 DEF gateway, view
  <2> QED BY <1>1, <2>1, <2>2, <2>3, TypeFacts, PageStepQuiet
<1>4. ASSUME NEW v \in Visitors, Click(v) PROVE AnyOrder'
  <2>1. /\ SelectSupportThread(v, http) /\ v \in supportThreads
        /\ Record(disturbed /\ http # <<>>, MessagesIn(v))
        /\ UNCHANGED <<feed, wire, connected, supportThreads, shown>>
    BY <1>4 DEF Click, StartFromRest
  <2>2. /\ http' \in Seq(Request) /\ Len(http') <= MaxInFlight
        /\ loading' = FALSE /\ selected' = v /\ joined' = joined \cup {v}
        /\ \A k \in DOMAIN http' :
                \/ \E j \in DOMAIN http : http'[k] = http[j]
                \/ /\ http'[k].answer = None
                   /\ http'[k].kind = "list" \/ http'[k].about \in opened
    BY <1>1, <2>1, SelectFacts, PendingAndNew
  <2>3. MessagesIn(v) \subseteq Stored
    BY NoVisitorAssumption DEF MessagesIn, Stored
  <2> QED BY <1>1, <2>1, <2>2, <2>3, TypeFacts, PageStepType
<1> QED BY <1>2, <1>3, <1>4 DEF Operate

\* The message heard, and what is left on the wire.
LEMMA HeadFacts ==
    ASSUME AnyOrder, wire # <<>>
    PROVE  /\ Head(wire) \in answered /\ Head(wire) \in Stored
           /\ Tail(wire) \in Seq(answered)
           /\ ToSet(wire) = ToSet(Tail(wire)) \cup {Head(wire)}
<1>1. wire \in Seq(answered) /\ answered \subseteq Stored
  BY TypeFacts
<1>2. /\ Head(wire) = wire[1] /\ Len(wire) \in Nat \ {0}
      /\ Tail(wire) \in Seq(answered)
      /\ Len(Tail(wire)) = Len(wire) - 1
      /\ \A i \in 1 .. (Len(wire) - 1) : Tail(wire)[i] = wire[i + 1]
  BY <1>1
<1>3. \A x \in ToSet(wire) : x \in ToSet(Tail(wire)) \cup {Head(wire)}
  <2> SUFFICES ASSUME NEW i \in DOMAIN wire
               PROVE  wire[i] \in ToSet(Tail(wire)) \cup {Head(wire)}
    BY DEF ToSet
  <2>1. CASE i = 1
    BY <1>2, <2>1
  <2>2. CASE i # 1
    <3>1. i - 1 \in 1 .. (Len(wire) - 1) /\ (i - 1) + 1 = i
      BY <1>1, <2>2
    <3>2. i - 1 \in DOMAIN Tail(wire) /\ Tail(wire)[i - 1] = wire[i]
      BY <1>2, <3>1
    <3> QED BY <3>2 DEF ToSet
  <2> QED BY <2>1, <2>2
<1>4. \A x \in ToSet(Tail(wire)) : x \in ToSet(wire)
  <2> SUFFICES ASSUME NEW i \in DOMAIN Tail(wire)
               PROVE  Tail(wire)[i] \in ToSet(wire)
    BY DEF ToSet
  <2>1. i \in 1 .. (Len(wire) - 1) /\ i + 1 \in DOMAIN wire
    BY <1>1, <1>2
  <2> QED BY <1>2, <2>1 DEF ToSet
<1>5. Head(wire) \in ToSet(wire)
  BY <1>1, <1>2 DEF ToSet
<1>6. Head(wire) \in answered
  BY <1>1, <1>2
<1> QED BY <1>1, <1>2, <1>3, <1>4, <1>5, <1>6

LEMMA HearType ==
    ASSUME AnyOrder, Hear
    PROVE  AnyOrder'
<1> DEFINE m == Head(wire)
<1>1. /\ wire # <<>> /\ wire' = Tail(wire) /\ LoadSupportThreads(http)
      /\ shown' = IF wrote[m] = selected THEN Appended(m) ELSE shown
      /\ Record(disturbed /\ http # <<>>, Stored)
      /\ UNCHANGED <<feed, connected, joined, supportThreads, selected>>
  BY DEF Hear, StartFromRest
<1>2. m \in Stored /\ wire' \in Seq(answered)
  BY <1>1, HeadFacts
<1> HIDE DEF m
<1>3. /\ http' \in Seq(Request) /\ Len(http') <= MaxInFlight
      /\ loading' = TRUE
      /\ \A k \in DOMAIN http' :
            \/ \E j \in DOMAIN http : http'[k] = http[j]
            \/ /\ http'[k].answer = None
               /\ http'[k].kind = "list" \/ http'[k].about \in opened
  <2>1. /\ http \in Seq(Request)
        /\ \A k \in 1 .. Len(http) : \E j \in DOMAIN http : http[k] = http[j]
    BY TypeFacts
  <2> QED BY <1>1, <2>1, LoadFacts, PendingAndNew
<1>4. /\ shown' = shown \/ shown' \in [Calls -> {0, 1}]
      /\ \A n \in Calls : shown'[n] > 0 => shown[n] > 0 \/ n \in Stored
  BY <1>1, <1>2, AppendedFacts
<1>5. (disturbed /\ http # <<>>) \in BOOLEAN /\ loading' \in BOOLEAN
  BY <1>3, TypeFacts
<1> QED BY <1>1, <1>2, <1>3, <1>4, <1>5, TypeFacts, PageStepType

\* The page's requests, when they are served.
LEMMA ServeType ==
    ASSUME AnyOrder, [FeedNext]_feed, NEW i \in DOMAIN http, NEW answer,
           answer \in (SUBSET Visitors) \cup (SUBSET Calls) \cup Calls,
           Answer(i, answer), UNCHANGED <<answered, gateway, view>>,
           http[i].kind = "list" => answer \subseteq opened',
           http[i].kind = "messages" =>
                answer \subseteq MessagesIn(http[i].about)',
           http[i].kind = "reply" => answer \in Stored'
    PROVE  AnyOrder'
<1>1. /\ http' \in Seq(Request) /\ Len(http') = Len(http)
      /\ \A k \in DOMAIN http :
            /\ http'[k].kind = http[k].kind
            /\ http'[k].about = http[k].about
            /\ http'[k].answer = IF k = i THEN answer ELSE http[k].answer
  BY TypeFacts, AnswerFacts
<1>2. DOMAIN http' = DOMAIN http /\ http \in Seq(Request)
  BY <1>1, TypeFacts
<1>3. AnswersFit'
  <2> SUFFICES ASSUME NEW k \in DOMAIN http, NEW r, r = http'[k]
               PROVE  RequestFits(r)'
    BY <1>2 DEF AnswersFit, RequestFits
  <2>1. ASSUME NEW old, old = http[k]
        PROVE  RequestFits(old)'
    BY <2>1, FitsStays DEF AnyOrder, AnswersFit
  <2>2. PICK old : old = http[k]
    OBVIOUS
  <2>3. RequestFits(old)'
    BY <2>1, <2>2
  <2> QED BY <1>1, <2>2, <2>3 DEF RequestFits
<1>4. /\ disturbed' \in BOOLEAN /\ expected' \subseteq Stored'
      /\ disturbed' => expected' = {}
  <2>1. (disturbed \/ Overtakes(i)) \in BOOLEAN
    BY DEF Overtakes
  <2> QED BY <2>1, RecordType DEF Answer, AnyOrder
<1>5. ConsoleTypeOK'
  BY <1>1, <1>4, TypeFacts, FeedKeeps
     DEF AnyOrder, ConsoleTypeOK, gateway, view
<1>6. ShownStored' /\ ShownOnce'
  BY FeedKeeps DEF AnyOrder, ShownStored, ShownOnce, view
<1> QED BY <1>3, <1>4, <1>5, <1>6 DEF AnyOrder

LEMMA ServeReadType ==
    ASSUME AnyOrder, NEW i \in DOMAIN http, ServeRead(i)
    PROVE  AnyOrder'
<1>1. UNCHANGED <<feed, gateway, view>>
  BY DEF ServeRead
<1>2. \A v : MessagesIn(v)' = MessagesIn(v)
  BY <1>1 DEF MessagesIn, feed
<1>3. UNCHANGED <<opened, answered>>
  BY <1>1 DEF feed
<1>4. CASE http[i].kind = "list" /\ Answer(i, opened)
  BY <1>1, <1>3, <1>4, TypeFacts, ServeType
<1>5. CASE http[i].kind = "messages" /\ Answer(i, MessagesIn(http[i].about))
  <2> DEFINE about == http[i].about
             answer == MessagesIn(about)
  <2>1. answer \in SUBSET Calls /\ UNCHANGED about
    <3>1. answer \in SUBSET Calls
      BY DEF MessagesIn
    <3>2. http[i] \in Request /\ http'[i].about = http[i].about
      BY <1>5, <3>1, TypeFacts, AnswerFacts
    <3> QED BY <3>1, <3>2
  <2>2. answer \subseteq MessagesIn(about)'
    BY <1>1, <2>1 DEF MessagesIn, feed
  <2> HIDE DEF answer
  <2> QED BY <1>1, <1>3, <1>5, <2>1, <2>2, ServeType DEF answer
<1> QED BY <1>4, <1>5 DEF ServeRead

LEMMA ServeReplyType ==
    ASSUME AnyOrder, NEW i \in DOMAIN http, NEW c \in Calls, ServeReply(i, c)
    PROVE  AnyOrder'
<1>1. /\ http[i].kind = "reply" /\ Write(c, http[i].about) /\ Answer(i, c)
      /\ UNCHANGED <<gateway, view>>
  BY DEF ServeReply
<1>2. http[i].about \in opened
  BY <1>1 DEF AnyOrder, AnswersFit, RequestFits
<1>3. c \in Stored'
  BY <1>1, <1>2, TypeFacts DEF Write, Stored
<1>4. [FeedNext]_feed
  BY PageStepIsFeedStep DEF ConsoleNext, Network, AnyOrder
<1>5. UNCHANGED answered
  BY <1>1 DEF Write
<1> QED BY <1>1, <1>3, <1>4, <1>5, ServeType

\* The page's requests, when they arrive or fail.
LEMMA ArriveType ==
    ASSUME AnyOrder, NEW i \in DOMAIN http,
           \/ ListArrives(i) \/ MessagesArrive(i) \/ ReplyArrives(i)
           \/ RequestFails(i)
    PROVE  AnyOrder'
<1>1. /\ http \in Seq(Request) /\ i \in 1 .. Len(http)
      /\ http[i] \in Request /\ RequestFits(http[i])
  BY TypeFacts DEF AnyOrder, AnswersFit
<1>2. /\ Rest(i) \in Seq(Request)
      /\ Len(Rest(i)) <= MaxInFlight
      /\ \A k \in 1 .. Len(Rest(i)) :
            \E j \in DOMAIN http : Rest(i)[k] = http[j]
  <2>1. /\ Rest(i) \in Seq(Request)
        /\ Len(Rest(i)) = Len(http) - 1
        /\ \A k \in 1 .. (Len(http) - 1) :
                Rest(i)[k] = IF k < i THEN http[k] ELSE http[k + 1]
    BY <1>1, RestOfHttp
  <2>2. Len(Rest(i)) <= MaxInFlight
    BY <1>1, <2>1, TypeFacts, MaxInFlightAssumption
  <2>3. \A k \in 1 .. (Len(http) - 1) :
            k \in DOMAIN http /\ k + 1 \in DOMAIN http
    BY <1>1
  <2> QED BY <2>1, <2>2, <2>3
<1>3. (disturbed \/ i > 1) \in BOOLEAN
  OBVIOUS
<1>4. CASE ListArrives(i)
  <2> DEFINE listing == http[i].answer
  <2>1. /\ listing \subseteq opened /\ supportThreads' = listing
        /\ Record(disturbed \/ i > 1, {})
        /\ UNCHANGED <<feed, wire, connected>>
    BY <1>1, <1>4 DEF ListArrives, RequestFits
  <2>2. CASE listing = {}
    <3>1. /\ loading' = FALSE /\ selected' = None /\ shown' = Once({})
          /\ http' = Rest(i) /\ UNCHANGED joined
      BY <1>4, <2>2 DEF ListArrives
    <3>2. /\ shown' \in [Calls -> {0, 1}]
          /\ \A m \in Calls : shown'[m] > 0 => m \in Stored
      BY <3>1, OnceFacts
    <3>3. \A k \in DOMAIN http' : \E j \in DOMAIN http : http'[k] = http[j]
      BY <1>2, <3>1
    <3>4. loading' \in BOOLEAN
      BY <3>1
    <3> QED BY <1>2, <1>3, <2>1, <3>1, <3>2, <3>3, <3>4, TypeFacts, PageStepQuiet
  <2>3. CASE listing # {}
    <3>1. UNCHANGED shown /\ \E v \in listing : SelectSupportThread(v, Rest(i))
      BY <1>4, <2>3 DEF ListArrives
    <3>2. PICK v \in listing : SelectSupportThread(v, Rest(i))
      BY <3>1
    <3>3. v \in opened /\ v \in Visitors /\ v \in supportThreads'
      BY <2>1, TypeFacts
    <3>4. /\ http' \in Seq(Request) /\ Len(http') <= MaxInFlight
          /\ loading' = FALSE /\ selected' = v /\ joined' = joined \cup {v}
          /\ \A k \in DOMAIN http' :
                \/ \E j \in DOMAIN http : http'[k] = http[j]
                \/ /\ http'[k].answer = None
                   /\ http'[k].kind = "list" \/ http'[k].about \in opened
      BY <1>1, <1>2, <3>2, <3>3, SelectFacts, PendingAndNew
    <3>5. loading' \in BOOLEAN
      BY <3>4
    <3> QED BY <1>3, <2>1, <3>1, <3>3, <3>4, <3>5, TypeFacts, PageStepQuiet
  <2> QED BY <2>2, <2>3
<1>5. CASE MessagesArrive(i)
  <2>1. /\ http[i].answer \subseteq MessagesIn(http[i].about)
        /\ http[i].about \in opened
    BY <1>1, <1>5 DEF MessagesArrive, RequestFits
  <2>2. /\ shown' = Once(http[i].answer) /\ http' = Rest(i)
        /\ Record(disturbed \/ i > 1, {})
        /\ UNCHANGED <<feed, wire, connected, joined, supportThreads, loading,
                       selected>>
    BY <1>5 DEF MessagesArrive, gateway
  <2>3. \A m \in http[i].answer : m \in Stored
    BY <2>1, TypeFacts DEF MessagesIn, Stored
  <2>4. /\ shown' \in [Calls -> {0, 1}]
        /\ \A m \in Calls : shown'[m] > 0 => m \in Stored
    BY <2>2, <2>3, OnceFacts
  <2>5. \A k \in DOMAIN http' : \E j \in DOMAIN http : http'[k] = http[j]
    BY <1>2, <2>2
  <2> QED BY <1>2, <1>3, <2>2, <2>4, <2>5, TypeFacts, PageStepQuiet
<1>6. CASE ReplyArrives(i)
  <2> DEFINE c == http[i].answer
  <2>1. /\ c \in answered /\ shown' = Appended(c)
        /\ LoadSupportThreads(Rest(i))
        /\ Record(disturbed \/ i > 1, Stored)
        /\ UNCHANGED <<feed, wire, connected, joined, supportThreads, selected>>
    BY <1>6 DEF ReplyArrives, gateway
  <2> HIDE DEF c
  <2>2. /\ shown' \in [Calls -> {0, 1}]
        /\ \A m \in Calls : shown'[m] > 0 => shown[m] > 0 \/ m \in Stored
    BY <2>1, TypeFacts, AppendedFacts
  <2>3. /\ http' \in Seq(Request) /\ Len(http') <= MaxInFlight
        /\ loading' = TRUE
        /\ \A k \in DOMAIN http' :
                \/ \E j \in DOMAIN http : http'[k] = http[j]
                \/ /\ http'[k].answer = None
                   /\ http'[k].kind = "list" \/ http'[k].about \in opened
    BY <1>1, <1>2, <2>1, LoadFacts, PendingAndNew
  <2>4. loading' \in BOOLEAN
    BY <2>3
  <2> QED BY <1>3, <2>1, <2>2, <2>3, <2>4, TypeFacts, PageStepType
<1>7. CASE RequestFails(i)
  <2>1. /\ http' = Rest(i) /\ Record(TRUE, {})
        /\ UNCHANGED <<feed, wire, connected, joined, supportThreads, loading,
                       selected, shown>>
    BY <1>7 DEF RequestFails, gateway, view
  <2>2. \A k \in DOMAIN http' : \E j \in DOMAIN http : http'[k] = http[j]
    BY <1>2, <2>1
  <2>3. PICK disturbs \in BOOLEAN : Record(disturbs, {})
    BY <2>1
  <2> QED BY <1>2, <2>1, <2>2, <2>3, TypeFacts, PageStepQuiet
<1> QED BY <1>4, <1>5, <1>6, <1>7

-----------------------------------------------------------------------------
(* While the requests keep their order.                                    *)

\* The requests left keep their order, and one more may be sent.
LEMMA RestServedInOrder ==
    ASSUME http \in Seq(Request), Len(http) \in Nat \ {0}, ServedInOrder,
           http' \in Seq(Request),
           \A k \in 1 .. (Len(http) - 1) : http'[k] = http[k + 1],
           \/ Len(http') = Len(http) - 1
           \/ Len(http') = Len(http) /\ http'[Len(http)].answer = None
    PROVE  ServedInOrder'
<1> SUFFICES ASSUME NEW j \in DOMAIN http', NEW k \in DOMAIN http',
                    j < k, http'[j].answer = None
             PROVE  http'[k].answer = None
  BY DEF ServedInOrder
<1> DEFINE n == Len(http)
           p == Len(http')
<1>1. /\ n \in Nat \ {0} /\ j \in 1 .. p /\ k \in 1 .. p
      /\ p = n - 1 \/ (p = n /\ http'[n].answer = None)
      /\ DOMAIN http = 1 .. n
  OBVIOUS
<1> HIDE DEF n, p
<1>2. j \in 1 .. (n - 1) /\ j + 1 \in 1 .. n
  BY <1>1
<1>3. http[j + 1].answer = None
  BY <1>2 DEF n
<1>4. CASE k \in 1 .. (n - 1)
  <2>1. k + 1 \in 1 .. n /\ j + 1 < k + 1
    BY <1>1, <1>4
  <2>2. http[k + 1].answer = None
    BY <1>1, <1>2, <1>3, <2>1 DEF ServedInOrder
  <2> QED BY <1>4, <2>2 DEF n
<1>5. CASE k \notin 1 .. (n - 1)
  <2>1. k = n /\ p = n
    BY <1>1, <1>5
  <2> QED BY <1>1, <2>1
<1> QED BY <1>4, <1>5

\* The requests left, by kind, when none of that kind is sent.
LEMMA RestOfKind ==
    ASSUME http \in Seq(Request), Len(http) \in Nat \ {0},
           http' \in Seq(Request), NEW kind,
           \A k \in 1 .. (Len(http) - 1) : http'[k] = http[k + 1],
           \/ Len(http') = Len(http) - 1
           \/ Len(http') = Len(http) /\ http'[Len(http)].kind # kind
    PROVE  /\ \A k \in OfKind(kind)' :
                k + 1 \in OfKind(kind) /\ http'[k] = http[k + 1]
           /\ \A k \in OfKind(kind)' :
                Latest(kind, k)' => Latest(kind, k + 1)
           /\ OfKind(kind)' = {} /\ http[1].kind # kind => OfKind(kind) = {}
           /\ OfKind(kind)' = {} /\ http[1].kind = kind => Latest(kind, 1)
<1>1. ASSUME NEW k \in OfKind(kind)'
      PROVE  k + 1 \in OfKind(kind) /\ k \in Nat /\ http'[k] = http[k + 1]
  <2>1. k \in 1 .. Len(http') /\ http'[k].kind = kind
    BY DEF OfKind
  <2>2. k \in 1 .. (Len(http) - 1) /\ k + 1 \in 1 .. Len(http)
    <3> DEFINE n == Len(http)
    <3>1. n \in Nat /\ (Len(http') = n - 1 \/ (Len(http') = n /\ k # n))
      BY <2>1
    <3> HIDE DEF n
    <3>2. k \in 1 .. (n - 1) /\ k + 1 \in 1 .. n
      BY <2>1, <3>1
    <3> QED BY <3>2 DEF n
  <2>3. http'[k] = http[k + 1]
    BY <2>2
  <2> QED BY <2>1, <2>2, <2>3 DEF OfKind
<1>2. ASSUME NEW k \in OfKind(kind), k # 1
      PROVE  k - 1 \in OfKind(kind)' /\ k \in Nat
  <2>1. k \in 2 .. Len(http) /\ http[k].kind = kind
    BY <1>2 DEF OfKind
  <2>2. k - 1 \in 1 .. (Len(http) - 1) /\ (k - 1) + 1 = k
        /\ k - 1 \in 1 .. Len(http')
    BY <2>1
  <2>3. http'[k - 1] = http[k]
    BY <2>2
  <2> QED BY <2>1, <2>2, <2>3 DEF OfKind
<1>3. ASSUME NEW k \in OfKind(kind)', Latest(kind, k)'
      PROVE  Latest(kind, k + 1)
  <2>1. \A j \in OfKind(kind)' : j <= k
    BY <1>3 DEF Latest
  <2>2. ASSUME NEW j \in OfKind(kind) PROVE j <= k + 1
    <3>1. CASE j = 1
      BY <1>1, <3>1
    <3>2. CASE j # 1
      BY <1>1, <1>2, <2>1, <3>2
    <3> QED BY <3>1, <3>2
  <2> QED BY <1>1, <2>2 DEF Latest
<1>4. ASSUME OfKind(kind)' = {}, http[1].kind # kind
      PROVE  OfKind(kind) = {}
  BY <1>2, <1>4 DEF OfKind
<1>5. ASSUME OfKind(kind)' = {}, http[1].kind = kind
      PROVE  Latest(kind, 1)
  <2>1. \A j \in OfKind(kind) : j = 1
    BY <1>2, <1>5
  <2>2. 1 \in OfKind(kind)
    BY <1>5 DEF OfKind
  <2> QED BY <2>1, <2>2 DEF Latest
<1> QED BY <1>1, <1>3, <1>4, <1>5

\* An arrival that keeps the order is that of the first request.
LEMMA FirstArrives ==
    ASSUME PageInv, NEW i \in DOMAIN http, NEW told,
           Record(disturbed \/ i > 1, told), ~disturbed'
    PROVE  /\ i = 1 /\ InOrder /\ expected' = expected \cup told
           /\ Len(http) \in Nat \ {0}
           /\ Rest(i) \in Seq(Request)
           /\ Len(Rest(i)) = Len(http) - 1
           /\ \A k \in 1 .. (Len(http) - 1) : Rest(i)[k] = http[k + 1]
<1>1. http \in Seq(Request) /\ disturbed \in BOOLEAN
  BY TypeFacts DEF PageInv
<1>2. (disturbed \/ i > 1) \in BOOLEAN
  OBVIOUS
<1>3. ~(disturbed \/ i > 1) /\ expected' = expected \cup told
  BY <1>2, RecordFacts
<1>4. i = 1 /\ Len(http) \in Nat \ {0} /\ InOrder
  BY <1>1, <1>3 DEF PageInv
<1> QED BY <1>1, <1>3, <1>4, RestOfHttp

\* From rest or in order: what the page sends keeps the order.
LEMMA SentInOrder ==
    ASSUME http \in Seq(Request), http' \in Seq(Request),
           Len(http') = Len(http) + 1,
           \A k \in 1 .. Len(http) : http'[k] = http[k],
           http'[Len(http) + 1].answer = None,
           http'[Len(http) + 1].kind = "messages" =>
                http'[Len(http) + 1].about \in supportThreads,
           UNCHANGED supportThreads,
           http = <<>> \/ (ServedInOrder /\ ListsGrow)
    PROVE  ServedInOrder' /\ ListsGrow'
<1> DEFINE n == Len(http)
<1>1. n \in Nat /\ DOMAIN http = 1 .. n /\ DOMAIN http' = 1 .. n + 1
  OBVIOUS
<1>2. /\ \A k \in 1 .. n : http'[k] = http[k]
      /\ http'[n + 1].answer = None
      /\ http'[n + 1].kind = "messages" => http'[n + 1].about \in supportThreads
  OBVIOUS
<1>3. n = 0 \/ (ServedInOrder /\ ListsGrow)
  OBVIOUS
<1> HIDE DEF n
<1>4. ServedInOrder'
  BY <1>1, <1>2, <1>3 DEF ServedInOrder
<1>5. ListsGrow'
  BY <1>1, <1>2, <1>3 DEF ListsGrow, OfKind
<1> QED BY <1>4, <1>5

\* What arrives first may be the list that the page then has; the lists after
\* it have what it has.
LEMMA RestListsGrow ==
    ASSUME http \in Seq(Request), Len(http) \in Nat \ {0},
           ServedInOrder, ListsGrow, http' \in Seq(Request),
           \A k \in 1 .. (Len(http) - 1) : http'[k] = http[k + 1],
           \/ Len(http') = Len(http) - 1
           \/ /\ Len(http') = Len(http) /\ http'[Len(http)].answer = None
              /\ http'[Len(http)].kind = "messages" =>
                    http'[Len(http)].about \in supportThreads',
           \/ UNCHANGED supportThreads
           \/ /\ http[1].kind = "list" /\ http[1].answer # None
              /\ supportThreads' = http[1].answer
    PROVE  ListsGrow'
<1> DEFINE n == Len(http)
<1>1. /\ n \in Nat \ {0} /\ DOMAIN http = 1 .. n
      /\ \A k \in DOMAIN http' :
            \/ k \in 1 .. (n - 1) /\ http'[k] = http[k + 1]
            \/ /\ k = n /\ http'[k].answer = None
               /\ http'[k].kind = "messages" =>
                    http'[k].about \in supportThreads'
  <2>1. n \in Nat \ {0} /\ DOMAIN http = 1 .. n /\ DOMAIN http' = 1 .. Len(http')
    OBVIOUS
  <2>2. CASE Len(http') = n - 1
    BY <2>1, <2>2
  <2>3. CASE /\ Len(http') = n /\ http'[n].answer = None
             /\ http'[n].kind = "messages" => http'[n].about \in supportThreads'
    <3>1. \A k \in 1 .. (n - 1) : http'[k] = http[k + 1]
      OBVIOUS
    <3> HIDE DEF n
    <3>2. Len(http') = n
      BY <2>3
    <3>3. \A k \in DOMAIN http' : k \in 1 .. (n - 1) \/ k = n
      BY <2>1, <3>2
    <3>4. /\ http'[n].answer = None
          /\ http'[n].kind = "messages" => http'[n].about \in supportThreads'
      BY <2>3
    <3> QED BY <2>1, <3>1, <3>3, <3>4
  <2> QED BY <2>1, <2>2, <2>3
<1> HIDE DEF n
<1>2. 1 \in DOMAIN http
  BY <1>1
<1>3. supportThreads \subseteq supportThreads'
  BY <1>2 DEF ListsGrow, OfKind
<1>4. ASSUME NEW k \in OfKind("list")', http'[k].answer # None
      PROVE  /\ k \in 1 .. (n - 1) /\ http'[k] = http[k + 1]
             /\ k + 1 \in OfKind("list")
             /\ supportThreads' \subseteq http'[k].answer
  <2>1. k \in 1 .. (n - 1) /\ http'[k] = http[k + 1] /\ http'[k].kind = "list"
    BY <1>1, <1>4 DEF OfKind
  <2>2. k + 1 \in OfKind("list") /\ 1 < k + 1
    BY <1>1, <2>1 DEF OfKind
  <2>3. supportThreads' \subseteq http[k + 1].answer
    BY <1>2, <1>4, <2>1, <2>2 DEF ListsGrow, OfKind
  <2> QED BY <2>1, <2>2, <2>3
<1>5. ASSUME NEW j \in OfKind("list")', NEW k \in OfKind("list")',
             j < k, http'[k].answer # None
      PROVE  http'[j].answer \subseteq http'[k].answer
  <2>1. /\ k \in 1 .. (n - 1) /\ http'[k] = http[k + 1]
        /\ k + 1 \in OfKind("list")
    BY <1>4, <1>5
  <2>2. j \in 1 .. (n - 1) /\ http'[j] = http[j + 1] /\ http'[j].kind = "list"
    BY <1>1, <1>5, <2>1 DEF OfKind
  <2>3. j + 1 \in OfKind("list") /\ j + 1 < k + 1
    BY <1>1, <1>5, <2>1, <2>2 DEF OfKind
  <2> QED BY <1>5, <2>1, <2>2, <2>3 DEF ListsGrow
<1>6. ASSUME NEW k \in OfKind("messages")'
      PROVE  http'[k].about \in supportThreads'
  <2>1. k \in DOMAIN http' /\ http'[k].kind = "messages"
    BY DEF OfKind
  <2>2. CASE k \in 1 .. (n - 1) /\ http'[k] = http[k + 1]
    <3>1. k + 1 \in OfKind("messages")
      BY <1>1, <2>1, <2>2 DEF OfKind
    <3> QED BY <1>3, <2>2, <3>1 DEF ListsGrow
  <2> QED BY <1>1, <2>1, <2>2
<1> QED BY <1>4, <1>5, <1>6 DEF ListsGrow

\* While the list is to be reloaded, no more is asked of the page.
LEMMA ReloadAsked ==
    ASSUME http' \in Seq(Request), NEW n \in Nat, Len(http') = n + 1,
           http'[n + 1].kind \in {"list", "reply"}
    PROVE  MessagesFit'
<1>1. n + 1 \in (OfKind("list") \cup OfKind("reply"))'
  BY DEF OfKind
<1>2. Reloading'
  BY <1>1 DEF Reloading
<1> QED BY <1>2 DEF MessagesFit

\* When the messages of the selected conversation have just been asked for,
\* what is shown does not matter.
LEMMA MessagesAsked ==
    ASSUME http' \in Seq(Request), NEW n \in Nat, Len(http') = n + 1,
           http'[n + 1].kind = "messages", http'[n + 1].about = selected',
           http'[n + 1].answer = None, ~loading'
    PROVE  MessagesFit'
<1>1. n + 1 \in OfKind("messages")' /\ \A i \in DOMAIN http' : i <= n + 1
  BY DEF OfKind
<1>2. \A i \in DOMAIN http' : Latest("messages", i)' => i = n + 1
  BY <1>1 DEF Latest, OfKind
<1>3. \A i \in OfKind("messages")' : Latest("messages", i)' =>
            http'[i].about = selected' /\ http'[i].answer = None
  BY <1>2 DEF OfKind
<1>4. OfKind("messages")' # {}
  BY <1>1
<1> QED BY <1>3, <1>4 DEF MessagesFit

\* What the service does owes the page nothing at once.
LEMMA FeedStepInOrder ==
    ASSUME PageInv, [FeedNext]_feed, UNCHANGED <<view, http>>, ~disturbed,
           Owed' \subseteq Owed
    PROVE  InOrder'
<1>1. InOrder /\ UNCHANGED <<supportThreads, loading, selected, shown, http>>
  BY DEF PageInv, view
<1>2. ServedInOrder' /\ ListsGrow'
  BY <1>1 DEF InOrder, ServedInOrder, ListsGrow, OfKind
<1>3. UNCHANGED <<OfKind("messages"), Reloading>>
  BY <1>1 DEF OfKind, Reloading
<1>4. \A i \in OfKind("messages") :
            Latest("messages", i)' = Latest("messages", i)
  BY <1>3 DEF Latest
<1>5. \A m \in Calls : shown[m] > 0 => wrote'[m] = wrote[m]
  BY FeedKeeps DEF PageInv, AnyOrder, ShownStored
<1>6. MessagesFit'
  BY <1>1, <1>3, <1>4, <1>5 DEF InOrder, MessagesFit
<1> QED BY <1>2, <1>6 DEF InOrder

\* What was told stays in the conversation it was written in.
LEMMA ToldStays ==
    ASSUME PageInv, [FeedNext]_feed
    PROVE  \A m \in expected : wrote'[m] = wrote[m]
BY FeedKeeps DEF PageInv, AnyOrder, ConsoleTypeOK

LEMMA ServiceInOrder ==
    ASSUME PageInv, ~disturbed',
           \/ Others \/ \E c \in Calls : EndCall(c) \/ Announce(c)
           \/ Disconnect \/ Reconnect
    PROVE  InOrder'
<1>1. [FeedNext]_feed
  BY PageStepIsFeedStep DEF PageInv, AnyOrder, ConsoleNext
<1>2. UNCHANGED <<view, http>>
  BY DEF Others, EndCall, Announce, Disconnect, Reconnect, page
<1>3. \A m \in expected : wrote'[m] = wrote[m]
  BY <1>1, ToldStays
<1>4. disturbed \in BOOLEAN /\ UNCHANGED selected
  BY <1>2, TypeFacts DEF PageInv, view
<1>5. CASE \/ Others \/ (\E c \in Calls : EndCall(c)) \/ Reconnect
  <2>1. UNCHANGED <<wire, expected, disturbed>>
    BY <1>5 DEF Others, EndCall, Reconnect, gateway, page
  <2>2. Owed' \subseteq Owed
    BY <1>3, <1>4, <2>1 DEF Owed
  <2> QED BY <1>1, <1>2, <2>1, <2>2, FeedStepInOrder
<1>6. ASSUME NEW c \in Calls, Announce(c) PROVE InOrder'
  <2>1. CASE connected
    <3>1. ToSet(wire') = ToSet(wire) \cup {c} /\ Record(disturbed, {c})
      BY <1>6, <2>1, AnnounceFacts DEF PageInv
    <3>2. ~disturbed /\ expected' = expected \cup {c}
      BY <1>4, <3>1, RecordFacts
    <3>3. Owed' \subseteq Owed
      BY <1>3, <1>4, <3>1, <3>2 DEF Owed
    <3> QED BY <1>1, <1>2, <3>2, <3>3, FeedStepInOrder
  <2>2. CASE ~connected
    <3>1. UNCHANGED <<wire, expected, disturbed>>
      BY <1>6, <2>2 DEF Announce
    <3>2. Owed' \subseteq Owed
      BY <1>3, <1>4, <3>1 DEF Owed
    <3> QED BY <1>1, <1>2, <3>1, <3>2, FeedStepInOrder
  <2> QED BY <2>1, <2>2
<1>7. CASE Disconnect
  <2>1. /\ wire' = <<>> /\ expected' = expected \ ToSet(wire)
        /\ UNCHANGED disturbed
    BY <1>7 DEF Disconnect
  <2>2. Owed' \subseteq Owed
    BY <1>3, <1>4, <2>1 DEF Owed
  <2> QED BY <1>1, <1>2, <2>1, <2>2, FeedStepInOrder
<1> QED BY <1>5, <1>6, <1>7

\* Of an undisturbed page and of one at rest.
LEMMA FromRest ==
    ASSUME PageInv, NEW told, Record(disturbed /\ http # <<>>, told),
           ~disturbed'
    PROVE  http = <<>> \/ (ServedInOrder /\ ListsGrow)
<1>1. disturbed \in BOOLEAN /\ (disturbed /\ http # <<>>) \in BOOLEAN
  BY TypeFacts DEF PageInv
<1>2. ~(disturbed /\ http # <<>>)
  BY <1>1, RecordFacts
<1> QED BY <1>1, <1>2 DEF PageInv, InOrder

LEMMA OperateInOrder ==
    ASSUME PageInv, Operate \/ Hear, ~disturbed'
    PROVE  InOrder'
<1>1. http \in Seq(Request) /\ Len(http) \in Nat /\ opened \subseteq Visitors
      /\ selected \in supportThreads \cup {None} /\ supportThreads \subseteq opened
  BY TypeFacts DEF PageInv
<1>2. CASE Refresh \/ Hear
  <2>1. /\ LoadSupportThreads(http) /\ Record(disturbed /\ http # <<>>, Stored)
        /\ UNCHANGED supportThreads
    BY <1>2 DEF Refresh, Hear, StartFromRest
  <2>2. /\ http' \in Seq(Request) /\ Len(http') = Len(http) + 1
        /\ \A k \in 1 .. Len(http) : http'[k] = http[k]
        /\ http'[Len(http) + 1].kind = "list"
        /\ http'[Len(http) + 1].answer = None
    BY <1>1, <2>1, LoadFacts
  <2>3. ServedInOrder' /\ ListsGrow'
    BY <1>1, <2>1, <2>2, FromRest, SentInOrder
  <2> QED BY <1>1, <2>2, <2>3, ReloadAsked DEF InOrder
<1>3. CASE Reply
  <2>1. \E told : Record(disturbed /\ http # <<>>, told)
    BY <1>3 DEF Reply, StartFromRest
  <2>2. Send("reply", selected, http) /\ UNCHANGED supportThreads
    BY <1>3 DEF Reply, view
  <2>3. /\ http' \in Seq(Request) /\ Len(http') = Len(http) + 1
        /\ \A k \in 1 .. Len(http) : http'[k] = http[k]
        /\ http'[Len(http) + 1].kind = "reply"
        /\ http'[Len(http) + 1].answer = None
    BY <1>1, <2>2, SendFacts
  <2>4. ServedInOrder' /\ ListsGrow'
    BY <1>1, <2>1, <2>2, <2>3, FromRest, SentInOrder
  <2> QED BY <1>1, <2>3, <2>4, ReloadAsked DEF InOrder
<1>4. ASSUME NEW v \in Visitors, Click(v) PROVE InOrder'
  <2>1. /\ Record(disturbed /\ http # <<>>, MessagesIn(v))
        /\ SelectSupportThread(v, http) /\ v \in supportThreads
        /\ UNCHANGED supportThreads
    BY <1>4 DEF Click, StartFromRest
  <2>2. /\ http' \in Seq(Request) /\ Len(http') = Len(http) + 1
        /\ \A k \in 1 .. Len(http) : http'[k] = http[k]
        /\ http'[Len(http) + 1].kind = "messages"
        /\ http'[Len(http) + 1].about = v
        /\ http'[Len(http) + 1].answer = None
        /\ loading' = FALSE /\ selected' = v
    BY <1>1, <2>1, SelectFacts
  <2>3. ServedInOrder' /\ ListsGrow'
    BY <1>1, <2>1, <2>2, FromRest, SentInOrder
  <2> QED BY <1>1, <2>2, <2>3, MessagesAsked DEF InOrder
<1> QED BY <1>2, <1>3, <1>4 DEF Operate

\* A request is served.
LEMMA AnswerInOrder ==
    ASSUME PageInv, NEW i \in DOMAIN http, NEW answer,
           answer \in (SUBSET Visitors) \cup (SUBSET Calls) \cup Calls,
           Answer(i, answer), UNCHANGED <<gateway, view>>, ~disturbed'
    PROVE  /\ http' \in Seq(Request) /\ DOMAIN http' = DOMAIN http
           /\ \A k \in DOMAIN http :
                /\ http'[k].kind = http[k].kind
                /\ http'[k].about = http[k].about
                /\ http'[k].answer = IF k = i THEN answer ELSE http[k].answer
           /\ InOrder /\ expected' = expected
           /\ http[i].answer = None
           /\ \A j \in DOMAIN http : j < i => http[j].answer # None
           /\ \A j \in DOMAIN http : i < j => http[j].answer = None
           /\ ServedInOrder'
<1>1. /\ http \in Seq(Request) /\ disturbed \in BOOLEAN
      /\ DOMAIN http = 1 .. Len(http)
  BY TypeFacts DEF PageInv
<1>2. /\ http' \in Seq(Request) /\ Len(http') = Len(http)
      /\ \A k \in DOMAIN http :
            /\ http'[k].kind = http[k].kind
            /\ http'[k].about = http[k].about
            /\ http'[k].answer = IF k = i THEN answer ELSE http[k].answer
  BY <1>1, AnswerFacts
<1>3. ~disturbed /\ ~Overtakes(i) /\ expected' = expected
  <2>1. (disturbed \/ Overtakes(i)) \in BOOLEAN
    BY DEF Overtakes
  <2>2. PICK told : told = {} /\ Record(disturbed \/ Overtakes(i), told)
    BY DEF Answer
  <2>3. /\ disturbed' = (disturbed \/ Overtakes(i))
        /\ expected' = IF disturbed \/ Overtakes(i) THEN {}
                       ELSE expected \cup told
    BY <2>1, <2>2, RecordFacts
  <2> QED BY <1>1, <2>2, <2>3
<1>4. InOrder /\ http[i].answer = None /\ DOMAIN http' = DOMAIN http
  BY <1>1, <1>2, <1>3 DEF PageInv, Answer
<1>5. \A j \in DOMAIN http : j < i => http[j].answer # None
  BY <1>1, <1>3 DEF Overtakes
<1>6. \A j \in DOMAIN http : i < j => http[j].answer = None
  BY <1>4 DEF InOrder, ServedInOrder
<1>7. ServedInOrder'
  <2> SUFFICES ASSUME NEW j \in DOMAIN http, NEW k \in DOMAIN http, j < k,
                      http'[j].answer = None
               PROVE  http'[k].answer = None
    BY <1>4 DEF ServedInOrder
  <2>1. http[j].answer = None
    BY <1>2, <1>4
  <2>2. k # i
    BY <1>5, <2>1
  <2> QED BY <1>2, <1>4, <2>1, <2>2 DEF InOrder, ServedInOrder
<1> QED BY <1>2, <1>3, <1>4, <1>5, <1>6, <1>7

LEMMA ServeReadInOrder ==
    ASSUME PageInv, NEW i \in DOMAIN http, ServeRead(i), ~disturbed'
    PROVE  InOrder'
<1>1. PICK answer :
        /\ Answer(i, answer)
        /\ \/ http[i].kind = "list" /\ answer = opened
           \/ http[i].kind = "messages" /\ answer = MessagesIn(http[i].about)
  BY DEF ServeRead
<1>2. answer \in (SUBSET Visitors) \cup (SUBSET Calls) \cup Calls
  BY <1>1, TypeFacts DEF PageInv, MessagesIn
<1>3. UNCHANGED <<feed, gateway, view>>
  BY DEF ServeRead
<1>4. /\ http' \in Seq(Request) /\ DOMAIN http' = DOMAIN http
      /\ \A k \in DOMAIN http :
            /\ http'[k].kind = http[k].kind
            /\ http'[k].about = http[k].about
            /\ http'[k].answer = IF k = i THEN answer ELSE http[k].answer
      /\ InOrder /\ expected' = expected
      /\ http[i].answer = None
      /\ \A j \in DOMAIN http : j < i => http[j].answer # None
      /\ \A j \in DOMAIN http : i < j => http[j].answer = None
      /\ ServedInOrder'
  BY <1>1, <1>2, <1>3, AnswerInOrder
<1>5. \A kind : OfKind(kind)' = OfKind(kind)
  BY <1>4 DEF OfKind
<1>6. UNCHANGED <<wrote, wire, supportThreads, loading, selected, shown>>
  BY <1>3 DEF feed, gateway, view
<1>7. /\ supportThreads \subseteq opened
      /\ \A k \in DOMAIN http : RequestFits(http[k])
      /\ DOMAIN http \subseteq Int
  BY TypeFacts DEF PageInv, AnyOrder, AnswersFit
<1>8. ListsGrow'
  <2>1. ASSUME NEW k \in OfKind("list"), http'[k].answer # None
        PROVE  supportThreads \subseteq http'[k].answer
    <3>1. k \in DOMAIN http /\ http[k].kind = "list"
      BY DEF OfKind
    <3>2. CASE k = i
      BY <1>1, <1>4, <1>7, <3>1, <3>2
    <3>3. CASE k # i
      BY <1>4, <2>1, <3>1, <3>3 DEF InOrder, ListsGrow
    <3> QED BY <3>2, <3>3
  <2>2. ASSUME NEW j \in OfKind("list"), NEW k \in OfKind("list"), j < k,
               http'[k].answer # None
        PROVE  http'[j].answer \subseteq http'[k].answer
    <3>1. /\ j \in DOMAIN http /\ http[j].kind = "list"
          /\ k \in DOMAIN http /\ http[k].kind = "list"
      BY DEF OfKind
    <3>2. CASE k = i
      <4>1. j # i /\ http[j].answer # None
        BY <1>4, <1>7, <2>2, <3>1, <3>2
      <4>2. http[j].answer \subseteq opened
        BY <1>7, <3>1, <4>1 DEF RequestFits
      <4> QED BY <1>1, <1>4, <3>1, <3>2, <4>1, <4>2
    <3>3. CASE k # i
      <4>1. http[k].answer # None /\ j # i
        BY <1>4, <2>2, <3>1, <3>3
      <4> QED BY <1>4, <2>2, <3>1, <3>3, <4>1 DEF InOrder, ListsGrow
    <3> QED BY <3>2, <3>3
  <2>3. ASSUME NEW k \in OfKind("messages")
        PROVE  http'[k].about \in supportThreads
    BY <1>4 DEF InOrder, ListsGrow, OfKind
  <2> QED BY <1>5, <1>6, <2>1, <2>2, <2>3 DEF ListsGrow
<1>9. MessagesFit'
  <2>1. Owed' = Owed /\ Reloading' = Reloading
    BY <1>4, <1>5, <1>6 DEF Owed, Reloading
  <2>2. \A k \in OfKind("messages") :
            Latest("messages", k)' = Latest("messages", k)
    BY <1>5 DEF Latest
  <2>3. Owed \subseteq MessagesIn(selected)
    BY TypeFacts DEF PageInv, Owed, MessagesIn, Stored
  <2>4. ASSUME ~Reloading, NEW k \in OfKind("messages"), Latest("messages", k)
        PROVE  /\ http'[k].about = selected
               /\ http'[k].answer # None => Owed \subseteq http'[k].answer
    <3>1. k \in DOMAIN http /\ http[k].kind = "messages"
      BY DEF OfKind
    <3>2. /\ http[k].about = selected
          /\ http[k].answer # None => Owed \subseteq http[k].answer
      BY <1>4, <2>4 DEF InOrder, MessagesFit
    <3>3. CASE k = i
      BY <1>1, <1>4, <2>3, <3>1, <3>2, <3>3
    <3>4. CASE k # i
      BY <1>4, <3>1, <3>2, <3>4
    <3> QED BY <3>3, <3>4
  <2>5. /\ loading => Reloading
        /\ ~Reloading /\ OfKind("messages") = {} =>
            /\ \A m \in Calls : shown[m] > 0 => wrote[m] = selected
            /\ \A m \in Owed : shown[m] > 0
    BY <1>4 DEF InOrder, MessagesFit
  <2> QED BY <1>5, <1>6, <2>1, <2>2, <2>4, <2>5 DEF MessagesFit
<1> QED BY <1>4, <1>8, <1>9 DEF InOrder

LEMMA ServeReplyInOrder ==
    ASSUME PageInv, NEW i \in DOMAIN http, NEW c \in Calls, ServeReply(i, c),
           ~disturbed'
    PROVE  InOrder'
<1>1. /\ http[i].kind = "reply" /\ Answer(i, c) /\ UNCHANGED <<gateway, view>>
  BY DEF ServeReply
<1>2. /\ DOMAIN http' = DOMAIN http
      /\ \A k \in DOMAIN http :
            /\ http'[k].kind = http[k].kind
            /\ http'[k].about = http[k].about
            /\ http'[k].answer = IF k = i THEN c ELSE http[k].answer
      /\ InOrder /\ ServedInOrder'
  BY <1>1, AnswerInOrder
<1>3. \A kind : OfKind(kind)' = OfKind(kind)
  BY <1>2 DEF OfKind
<1>4. UNCHANGED supportThreads
  BY <1>1 DEF view
<1>5. ListsGrow'
  <2>1. \A k \in OfKind("list") \cup OfKind("messages") :
            /\ http'[k].about = http[k].about
            /\ k \in OfKind("list") => http'[k].answer = http[k].answer
    BY <1>1, <1>2 DEF OfKind
  <2> QED BY <1>2, <1>3, <1>4, <2>1 DEF InOrder, ListsGrow
<1>6. i \in OfKind("reply")'
  BY <1>1, <1>3 DEF OfKind
<1>7. Reloading'
  BY <1>6 DEF Reloading
<1> QED BY <1>2, <1>5, <1>7 DEF InOrder, MessagesFit

LEMMA ListArrivesInOrder ==
    ASSUME PageInv, NEW i \in DOMAIN http, ListArrives(i), ~disturbed'
    PROVE  /\ InOrder'
           /\ selected' = selected \/ selected = None
<1> DEFINE listing == http[1].answer
<1>1. PICK told : told = {} /\ Record(disturbed \/ i > 1, told)
  BY DEF ListArrives
<1>2. /\ i = 1 /\ InOrder /\ expected' = expected
      /\ Len(http) \in Nat \ {0}
      /\ Rest(1) \in Seq(Request)
      /\ Len(Rest(1)) = Len(http) - 1
      /\ \A k \in 1 .. (Len(http) - 1) : Rest(1)[k] = http[k + 1]
  <2>1. told = {} /\ Record(disturbed \/ i > 1, told)
    BY <1>1
  <2>2. /\ i = 1 /\ InOrder /\ expected' = expected \cup told
        /\ Len(http) \in Nat \ {0}
        /\ Rest(i) \in Seq(Request)
        /\ Len(Rest(i)) = Len(http) - 1
        /\ \A k \in 1 .. (Len(http) - 1) : Rest(i)[k] = http[k + 1]
    BY <2>1, FirstArrives
  <2> QED BY <2>1, <2>2
<1>3. /\ http \in Seq(Request) /\ selected \in supportThreads \cup {None}
      /\ opened \subseteq Visitors /\ expected \subseteq Stored
      /\ RequestFits(http[1])
  BY <1>2, TypeFacts DEF PageInv, AnyOrder, AnswersFit
<1>4. /\ http[1].kind = "list" /\ listing # None /\ supportThreads' = listing
      /\ UNCHANGED <<feed, wire, connected>>
  BY <1>2 DEF ListArrives
<1>5. listing \subseteq opened /\ supportThreads \subseteq listing
  BY <1>2, <1>3, <1>4 DEF RequestFits, InOrder, ListsGrow, OfKind
<1>6. CASE listing = {}
  <2>1. /\ loading' = FALSE /\ selected' = None /\ shown' = Once({})
        /\ http' = Rest(1)
    BY <1>2, <1>6 DEF ListArrives
  <2>2. /\ http' \in Seq(Request) /\ Len(http') = Len(http) - 1
        /\ \A k \in 1 .. (Len(http) - 1) : http'[k] = http[k + 1]
    BY <1>2, <2>1
  <2>3. ServedInOrder' /\ ListsGrow'
    BY <1>2, <1>3, <1>4, <2>2, RestServedInOrder, RestListsGrow DEF InOrder
  <2>4. OfKind("messages")' = {}
    BY <1>4, <1>6, <2>3 DEF ListsGrow
  <2>5. Owed' = {}
    BY <1>2, <1>3, <1>4, <2>1 DEF Owed, Stored, feed
  <2>6. \A m \in Calls : ~(shown'[m] > 0)
    BY <2>1, OnceFacts
  <2>7. MessagesFit'
    BY <2>1, <2>4, <2>5, <2>6 DEF MessagesFit
  <2>8. selected = None
    BY <1>3, <1>5, <1>6
  <2> QED BY <2>3, <2>7, <2>8 DEF InOrder
<1>7. CASE listing # {}
  <2>1. \E v \in listing :
            (selected \in listing => v = selected)
                /\ SelectSupportThread(v, Rest(1))
    BY <1>2, <1>7 DEF ListArrives
  <2>2. PICK v \in listing : /\ selected \in listing => v = selected
                             /\ SelectSupportThread(v, Rest(1))
    BY <2>1
  <2>3. v \in Visitors
    BY <1>3, <1>5
  <2>4. Len(Rest(1)) + 1 = Len(http)
    BY <1>2
  <2>5. /\ http' \in Seq(Request) /\ Len(http') = Len(http)
        /\ \A k \in 1 .. (Len(http) - 1) : http'[k] = http[k + 1]
        /\ http'[Len(http)].kind = "messages"
        /\ http'[Len(http)].about = v
        /\ http'[Len(http)].answer = None
        /\ loading' = FALSE /\ selected' = v
    BY <1>2, <2>2, <2>3, <2>4, SelectFacts
  <2>6. v \in supportThreads'
    BY <1>4
  <2>7. ServedInOrder' /\ ListsGrow'
    BY <1>2, <1>3, <1>4, <2>5, <2>6, RestServedInOrder, RestListsGrow
       DEF InOrder
  <2>8. MessagesFit'
    <3>1. Len(http) - 1 \in Nat /\ (Len(http) - 1) + 1 = Len(http)
      BY <1>2
    <3> QED BY <2>5, <3>1, MessagesAsked
  <2>9. selected' = selected \/ selected = None
    BY <1>3, <1>5, <2>2, <2>5
  <2> QED BY <2>7, <2>8, <2>9 DEF InOrder
<1> QED BY <1>6, <1>7

LEMMA MessagesArriveInOrder ==
    ASSUME PageInv, NEW i \in DOMAIN http, MessagesArrive(i), ~disturbed'
    PROVE  InOrder'
<1>1. PICK told : told = {} /\ Record(disturbed \/ i > 1, told)
  BY DEF MessagesArrive
<1>2. /\ i = 1 /\ InOrder /\ expected' = expected
      /\ Len(http) \in Nat \ {0}
      /\ Rest(1) \in Seq(Request)
      /\ Len(Rest(1)) = Len(http) - 1
      /\ \A k \in 1 .. (Len(http) - 1) : Rest(1)[k] = http[k + 1]
  <2>1. told = {} /\ Record(disturbed \/ i > 1, told)
    BY <1>1
  <2>2. /\ i = 1 /\ InOrder /\ expected' = expected \cup told
        /\ Len(http) \in Nat \ {0}
        /\ Rest(i) \in Seq(Request)
        /\ Len(Rest(i)) = Len(http) - 1
        /\ \A k \in 1 .. (Len(http) - 1) : Rest(i)[k] = http[k + 1]
    BY <2>1, FirstArrives
  <2> QED BY <2>1, <2>2
<1>3. http \in Seq(Request) /\ RequestFits(http[1])
  BY <1>2, TypeFacts DEF PageInv, AnyOrder, AnswersFit
<1>4. /\ http[1].kind = "messages" /\ http[1].answer # None
      /\ shown' = Once(http[1].answer) /\ http' = Rest(1)
      /\ UNCHANGED <<feed, wire, supportThreads, loading, selected>>
  BY <1>2 DEF MessagesArrive, gateway
<1>5. /\ http' \in Seq(Request) /\ Len(http') = Len(http) - 1
      /\ \A k \in 1 .. (Len(http) - 1) : http'[k] = http[k + 1]
  BY <1>2, <1>4
<1>6. ServedInOrder' /\ ListsGrow'
  BY <1>2, <1>3, <1>4, <1>5, RestServedInOrder, RestListsGrow DEF InOrder
<1>7. ~Reloading' => ~Reloading
  <2>1. /\ OfKind("list")' = {} => OfKind("list") = {}
        /\ OfKind("reply")' = {} => OfKind("reply") = {}
    BY <1>2, <1>3, <1>4, <1>5, RestOfKind
  <2> QED BY <2>1 DEF Reloading
<1>8. /\ \A k \in OfKind("messages")' :
            k + 1 \in OfKind("messages") /\ http'[k] = http[k + 1]
      /\ \A k \in OfKind("messages")' :
            Latest("messages", k)' => Latest("messages", k + 1)
      /\ OfKind("messages")' = {} => Latest("messages", 1)
  BY <1>2, <1>3, <1>4, <1>5, RestOfKind
<1>9. Owed' = Owed
  BY <1>2, <1>4 DEF Owed, feed
<1>10. MessagesFit'
  <2>1. loading' => Reloading'
    BY <1>2, <1>4, <1>7 DEF InOrder, MessagesFit
  <2>2. ASSUME ~Reloading', NEW k \in OfKind("messages")',
               Latest("messages", k)'
        PROVE  /\ http'[k].about = selected
               /\ http'[k].answer # None => Owed \subseteq http'[k].answer
    BY <1>2, <1>7, <1>8, <2>2 DEF InOrder, MessagesFit
  <2>3. ASSUME ~Reloading', OfKind("messages")' = {}
        PROVE  /\ \A m \in Calls : shown'[m] > 0 => wrote[m] = selected
               /\ \A m \in Owed : shown'[m] > 0
    <3>1. 1 \in OfKind("messages")
      BY <1>8, <2>3 DEF Latest
    <3>2. http[1].about = selected /\ Owed \subseteq http[1].answer
      BY <1>2, <1>4, <1>7, <1>8, <2>3, <3>1 DEF InOrder, MessagesFit
    <3>3. http[1].answer \subseteq MessagesIn(selected)
      BY <1>3, <1>4, <3>2 DEF RequestFits
    <3>4. \A m \in Calls : shown'[m] > 0 <=> m \in http[1].answer
      BY <1>4, OnceFacts
    <3>5. \A m \in MessagesIn(selected) : m \in Calls /\ wrote[m] = selected
      BY DEF MessagesIn
    <3> QED BY <3>2, <3>3, <3>4, <3>5
  <2> QED BY <1>4, <1>9, <2>1, <2>2, <2>3 DEF MessagesFit, feed
<1> QED BY <1>6, <1>10 DEF InOrder

LEMMA ReplyArrivesInOrder ==
    ASSUME PageInv, NEW i \in DOMAIN http, ReplyArrives(i), ~disturbed'
    PROVE  InOrder'
<1>1. Record(disturbed \/ i > 1, Stored)
  BY DEF ReplyArrives
<1>2. /\ i = 1 /\ InOrder
      /\ Len(http) \in Nat \ {0}
      /\ Rest(1) \in Seq(Request)
      /\ Len(Rest(1)) = Len(http) - 1
      /\ \A k \in 1 .. (Len(http) - 1) : Rest(1)[k] = http[k + 1]
  BY <1>1, FirstArrives
<1>3. http \in Seq(Request)
  BY TypeFacts DEF PageInv
<1>4. LoadSupportThreads(Rest(1)) /\ UNCHANGED supportThreads
  BY <1>2 DEF ReplyArrives
<1>5. /\ http' \in Seq(Request) /\ Len(http') = Len(http)
      /\ \A k \in 1 .. (Len(http) - 1) : http'[k] = http[k + 1]
      /\ http'[Len(http)].kind = "list"
      /\ http'[Len(http)].answer = None
  <2>1. Len(Rest(1)) + 1 = Len(http)
    BY <1>2
  <2> QED BY <1>2, <1>4, <2>1, LoadFacts
<1>6. ServedInOrder' /\ ListsGrow'
  BY <1>2, <1>3, <1>4, <1>5, RestServedInOrder, RestListsGrow DEF InOrder
<1>7. MessagesFit'
  <2>1. Len(http) - 1 \in Nat /\ (Len(http) - 1) + 1 = Len(http)
    BY <1>2
  <2> QED BY <1>5, <2>1, ReloadAsked
<1> QED BY <1>6, <1>7 DEF InOrder

-----------------------------------------------------------------------------
LEMMA InitPage == ConsoleInit => PageInv
<1> SUFFICES ASSUME ConsoleInit PROVE PageInv
  OBVIOUS
<1>1. /\ opened \subseteq Visitors /\ answered = {}
      /\ wrote = [c \in Calls |-> None]
      /\ wire = <<>> /\ http = <<>> /\ shown = Once({}) /\ expected = {}
      /\ joined = {} /\ supportThreads = {} /\ selected = None
  BY DEF ConsoleInit, FeedInit
<1>2. connected \in BOOLEAN /\ loading \in BOOLEAN /\ disturbed \in BOOLEAN
      /\ ~loading
  BY DEF ConsoleInit
<1>3. /\ shown \in [Calls -> Nat] /\ \A m \in Calls : ~(shown[m] > 0)
      /\ \A m \in Calls : shown[m] <= 1
  BY <1>1, OnceFacts
<1>4. ConsoleTypeOK
  <2>1. wire \in Seq(answered) /\ http \in Seq(Request) /\ Len(http) <= MaxInFlight
    BY <1>1, MaxInFlightAssumption
  <2>2. wrote \in [Calls -> opened \cup {None}]
    BY <1>1
  <2> QED BY <1>1, <1>2, <1>3, <2>1, <2>2 DEF ConsoleTypeOK
<1>5. DOMAIN http = {}
  BY <1>1
<1>6. AnyOrder
  BY <1>1, <1>3, <1>4, <1>5 DEF AnyOrder, AnswersFit, ShownStored, ShownOnce
<1>7. InOrder
  BY <1>1, <1>2, <1>3, <1>5
     DEF InOrder, ServedInOrder, ListsGrow, MessagesFit, OfKind, Owed
<1> QED BY <1>6, <1>7 DEF PageInv

LEMMA NextPage == PageInv /\ [ConsoleNext]_consoleVars => PageInv'
<1> SUFFICES ASSUME PageInv, [ConsoleNext]_consoleVars PROVE PageInv'
  OBVIOUS
<1>1. CASE UNCHANGED consoleVars
  BY <1>1 DEF consoleVars, feed, gateway, page, view, PageInv, AnyOrder,
     ConsoleTypeOK, AnswersFit, RequestFits, MessagesIn, Stored, ShownStored,
     ShownOnce, InOrder, ServedInOrder, ListsGrow, MessagesFit, OfKind, Latest,
     Reloading, Owed
<1>2. CASE \/ Others \/ \E c \in Calls : EndCall(c) \/ Announce(c)
           \/ Disconnect \/ Reconnect
  <2>1. AnyOrder'
    BY <1>2, OthersType, AnnounceType, SocketType DEF PageInv
  <2> QED BY <1>2, <2>1, ServiceInOrder DEF PageInv
<1>3. CASE Operate \/ Hear
  BY <1>3, OperateType, HearType, OperateInOrder DEF PageInv
<1>4. ASSUME NEW i \in DOMAIN http,
             \/ ServeRead(i) \/ \E c \in Calls : ServeReply(i, c)
             \/ ListArrives(i) \/ MessagesArrive(i) \/ ReplyArrives(i)
             \/ RequestFails(i)
      PROVE  PageInv'
  <2>1. AnyOrder'
    BY <1>4, ServeReadType, ServeReplyType, ArriveType DEF PageInv
  <2>2. ASSUME ~disturbed' PROVE InOrder'
    <3>1. ~RequestFails(i)
      BY <2>2 DEF RequestFails, Record
    <3> QED BY <1>4, <2>2, <3>1, ServeReadInOrder, ServeReplyInOrder,
               ListArrivesInOrder, MessagesArriveInOrder, ReplyArrivesInOrder
  <2> QED BY <2>1, <2>2 DEF PageInv
<1> QED BY <1>1, <1>2, <1>3, <1>4 DEF ConsoleNext, Network

\* The inductive invariant holds in every state of the page.
THEOREM PageInvariant == ConsoleSpec => []PageInv
<1>1. ConsoleInit => PageInv
  BY InitPage
<1>2. PageInv /\ [ConsoleNext]_consoleVars => PageInv'
  BY NextPage
<1> QED BY <1>1, <1>2, PTL DEF ConsoleSpec

\* However messages, requests and the socket interleave, the page and the wire
\* are well-formed: the page selects only what it lists, and hears only of
\* calls that have been answered with success.
THEOREM PageIsWellTyped == ConsoleSpec => []ConsoleTypeOK
<1>1. PageInv => ConsoleTypeOK
  BY DEF PageInv, AnyOrder
<1> QED BY <1>1, PageInvariant, PTL

\* No message is shown twice, in any order of announcements and answers
\* (appendSupportMessage, selectSupportThread).
THEOREM MessagesAreShownOnce == ConsoleSpec => []ShownOnce
<1>1. PageInv => ShownOnce
  BY DEF PageInv, AnyOrder
<1> QED BY <1>1, PageInvariant, PTL

\* At rest, after requests that kept their order, the page shows messages of
\* the selected conversation only, and all of those it was told of
\* (selectSupportThread, the listener of support:publicMessage).
THEOREM SelectedIsShown == ConsoleSpec => []ShowsSelected
<1>1. PageInv => ShowsSelected
  <2> SUFFICES ASSUME PageInv, Settled
               PROVE  /\ ~loading
                      /\ \A m \in Calls : shown[m] > 0 => wrote[m] = selected
                      /\ \A m \in expected : wrote[m] = selected => shown[m] > 0
    BY DEF ShowsSelected
  <2>1. MessagesFit /\ http = <<>> /\ wire = <<>>
    BY DEF PageInv, InOrder, Settled
  <2>2. ToSet(wire) = {} /\ \A kind : OfKind(kind) = {}
    BY <2>1 DEF ToSet, OfKind
  <2>3. ~Reloading
    BY <2>2 DEF Reloading
  <2> QED BY <2>1, <2>2, <2>3 DEF MessagesFit, Owed
<1> QED BY <1>1, PageInvariant, PTL

\* No reload of the list takes the operator to another conversation, as long
\* as requests keep their order: conversations are never closed, so the
\* selected one is in every later list (loadSupportThreads).
THEOREM SelectionIsKept == ConsoleSpec => SelectionKept
<1> DEFINE Kept == selected' # selected =>
                    selected = None \/ disturbed' \/ \E v \in Visitors : Click(v)
<1>1. PageInv /\ [ConsoleNext]_consoleVars => Kept
  <2> SUFFICES ASSUME PageInv, [ConsoleNext]_consoleVars,
                      selected' # selected, ~disturbed'
               PROVE  selected = None \/ \E v \in Visitors : Click(v)
    OBVIOUS
  <2>1. CASE \/ Others \/ \E c \in Calls : EndCall(c) \/ Announce(c)
             \/ Disconnect \/ Reconnect \/ Refresh \/ Reply \/ Hear
             \/ UNCHANGED consoleVars
    BY <2>1 DEF Others, EndCall, Announce, Disconnect, Reconnect, Refresh,
       Reply, Hear, consoleVars, page, view
  <2>2. ASSUME NEW i \in DOMAIN http,
               \/ ServeRead(i) \/ \E c \in Calls : ServeReply(i, c)
               \/ ListArrives(i) \/ MessagesArrive(i) \/ ReplyArrives(i)
               \/ RequestFails(i)
        PROVE  selected = None
    <3>1. ListArrives(i)
      BY <2>2 DEF ServeRead, ServeReply, MessagesArrive, ReplyArrives,
         RequestFails, view
    <3> QED BY <3>1, ListArrivesInOrder
  <2> QED BY <2>1, <2>2 DEF ConsoleNext, Operate, Network
<1>2. PageInv /\ [ConsoleNext]_consoleVars => [Kept]_consoleVars
  BY <1>1
<1> QED BY <1>2, PageInvariant, PTL DEF ConsoleSpec, SelectionKept

\* The page, its socket and its replies add nothing to what public support
\* promises: with them, calls still write at most one message each, in an open
\* conversation, and only a call that has written succeeds.
THEOREM ConsoleRefinesFeed == ConsoleSpec => FeedSpec
<1>1. ConsoleInit => FeedInit
  BY DEF ConsoleInit
<1>2. PageInv /\ [ConsoleNext]_consoleVars => [FeedNext]_feed
  BY PageStepIsFeedStep DEF PageInv, AnyOrder
<1> QED BY <1>1, <1>2, PageInvariant, PTL DEF ConsoleSpec, FeedSpec

=============================================================================

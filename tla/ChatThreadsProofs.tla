------------------------- MODULE ChatThreadsProofs -------------------------
(***************************************************************************)
(* Proofs about ChatThreads for every number of users, group buys and      *)
(* calls, any interleaving and any failure.                                *)
(***************************************************************************)
EXTENDS ChatThreads, TLAPS

\* The purposes that the service opens threads for.
Proper(p) ==
    /\ p.type = "direct" => \E u, v \in Users : p.participants = {u, v}
    /\ p.type = "group" => p.participants = {} /\ ~p.support

\* Message m of s to r may go to thread t, if it is to reach r.
Addressed(m, s, r, t) ==
    \/ m \notin addressed
    \/ r = s
    \/ threads[t].purpose.type = "direct" /\ threads[t].participants = {s, r}

Creates(c) == pc[c] \in {"create", "open"}

Sends(c) == pc[c] \in {"stamp", "save"}

\* What a call has established, and what no other call undoes.
CallFits(c) ==
    /\ pc[c] = "idle" => receiver[c] = None /\ c \notin addressed
    /\ pc[c] \in {"idle", "create", "open"} => threads[c] = None
    /\ messages[c] # None => pc[c] \in {"stamp", "save", "done", "failed"}
    /\ Creates(c) =>
        /\ user[c] \in Users /\ purpose[c] \in Purpose /\ Proper(purpose[c])
        /\ purpose[c].type = "direct" => user[c] \in purpose[c].participants
        /\ \/ c \notin addressed
           \/ receiver[c] = user[c]
           \/ /\ purpose[c].type = "direct"
              /\ purpose[c].participants = {user[c], receiver[c]}
    /\ pc[c] = "join" =>
        /\ user[c] \in Users /\ thread[c] \in Calls /\ Exists(thread[c])
        /\ threads[thread[c]].purpose.type = "group"
        /\ c \notin addressed
    /\ pc[c] \in {"insert", "stamp", "save", "mark"} =>
        user[c] \in Users /\ thread[c] \in Calls /\ TakesPart(user[c], thread[c])
    /\ pc[c] = "insert" => Addressed(c, user[c], receiver[c], thread[c])
    /\ Sends(c) => messages[c] # None /\ messages[c].thread = thread[c]
    /\ pc[c] = "save" => c \in stamp[c]

\* A direct thread is, for good, the one of its two users.
ThreadFits(t) ==
    Exists(t) =>
        /\ Proper(threads[t].purpose)
        /\ threads[t].purpose.type = "direct" =>
                threads[t].participants = threads[t].purpose.participants

MessageFits(m) ==
    messages[m] # None =>
        /\ Exists(messages[m].thread)
        /\ messages[m].readBy \subseteq threads[messages[m].thread].participants
        /\ messages[m].sender \in messages[m].readBy
        /\ Addressed(m, messages[m].sender, messages[m].receiver,
                     messages[m].thread)

MarksAreKept ==
    \A u \in Users : \A m \in marked[u] :
        messages[m] # None /\ u \in messages[m].readBy

\* Calls that open a thread for one purpose are recorded, and so is a call
\* that is overtaken by another one which has opened it.
RacesAreRecorded ==
    /\ \A c, d \in Calls :
        (c # d /\ Creates(c) /\ Creates(d) /\ purpose[c] = purpose[d])
        => purpose[c] \in raced
    /\ \A c, t \in Calls :
        (Creates(c) /\ Exists(t) /\ threads[t].purpose = purpose[c])
        => purpose[c] \in raced

\* Calls that send in one thread are recorded; the date that a call is about to
\* save is not before any message that was sent alone and with success.
DatesAreOrdered ==
    /\ \A c, d \in Calls :
        (c # d /\ Sends(c) /\ Sends(d) /\ thread[c] = thread[d])
        => c \in overlapped
    /\ \A c, m \in Calls :
        (/\ pc[c] = "save" /\ messages[m] # None /\ pc[m] = "done"
         /\ messages[m].thread = thread[c] /\ m \notin overlapped)
        => m \in stamp[c]

\* The inductive invariant.
ChatInv ==
    /\ TypeOK
    /\ \A c \in Calls : CallFits(c)
    /\ \A t \in Calls : ThreadFits(t)
    /\ \A m \in Calls : MessageFits(m)
    /\ MarksAreKept
    /\ RacesAreRecorded
    /\ DatesAreOrdered
    /\ ThreadsAreUnique
    /\ LastMessageIsCovered

\* Only call c moves, and it keeps to the types.
Moves(c) ==
    /\ pc' \in [Calls -> PC]
    /\ user' \in [Calls -> Users \cup {None}]
    /\ receiver' \in [Calls -> Users \cup {None}]
    /\ purpose' \in [Calls -> Purpose \cup {None}]
    /\ thread' \in [Calls -> Calls \cup {None}]
    /\ stamp' \in [Calls -> SUBSET Calls]
    /\ \A d \in Calls \ {c} :
        /\ pc'[d] = pc[d] /\ user'[d] = user[d] /\ receiver'[d] = receiver[d]
        /\ purpose'[d] = purpose[d] /\ thread'[d] = thread[d]
        /\ stamp'[d] = stamp[d]
        /\ d \in addressed' <=> d \in addressed
    /\ addressed' \subseteq Calls
    /\ pc[c] # "idle" => addressed' = addressed

\* The database only grows: call c may create a thread and a message of its
\* name, participants may join a thread that is not direct, and they read.
ThreadsGrow(c) ==
    /\ \A t \in Calls : Exists(t) =>
        /\ threads'[t] # None
        /\ threads'[t].purpose = threads[t].purpose
        /\ threads[t].participants \subseteq threads'[t].participants
        /\ threads[t].purpose.type = "direct" =>
                threads'[t].participants = threads[t].participants
    /\ \A t \in Calls \ {c} : threads'[t] # None => Exists(t)

MessagesGrow(c) ==
    /\ \A m \in Calls : messages[m] # None =>
        /\ messages'[m] # None
        /\ messages'[m].thread = messages[m].thread
        /\ messages'[m].sender = messages[m].sender
        /\ messages'[m].receiver = messages[m].receiver
        /\ messages[m].readBy \subseteq messages'[m].readBy
        /\ messages'[m].readBy \subseteq
                messages[m].readBy \cup threads[messages[m].thread].participants
    /\ \A m \in Calls \ {c} : messages'[m] # None => messages[m] # None

-----------------------------------------------------------------------------
\* It holds of an empty database.
LEMMA InitChat == Init => ChatInv
<1> SUFFICES ASSUME Init PROVE ChatInv
  OBVIOUS
<1>1. TypeOK
  BY DEF Init, TypeOK, PC
<1>2. \A c \in Calls : CallFits(c) /\ ThreadFits(c) /\ MessageFits(c)
  BY DEF Init, CallFits, ThreadFits, MessageFits, Creates, Sends, Exists
<1>3. MarksAreKept /\ RacesAreRecorded /\ DatesAreOrdered
  BY DEF Init, MarksAreKept, RacesAreRecorded, DatesAreOrdered, Creates, Sends
<1>4. ThreadsAreUnique /\ LastMessageIsCovered
  BY DEF Init, ThreadsAreUnique, LastMessageIsCovered, Exists
<1> QED BY <1>1, <1>2, <1>3, <1>4 DEF ChatInv

\* What others have established stays true while the database grows.
LEMMA FitsKept ==
    ASSUME ChatInv, NEW c \in Calls, Moves(c), ThreadsGrow(c), MessagesGrow(c)
    PROVE  /\ \A d \in Calls \ {c} : CallFits(d)'
           /\ \A t \in Calls \ {c} : ThreadFits(t)'
           /\ Exists(c) => ThreadFits(c)'
           /\ \A m \in Calls : messages[m] # None => MessageFits(m)'
           /\ \A u \in Users : \A m \in marked[u] :
                    messages'[m] # None /\ u \in messages'[m].readBy
<1> USE DEF ChatInv
<1>1. ASSUME NEW d \in Calls \ {c} PROVE CallFits(d)'
  <2>1. CallFits(d)
    OBVIOUS
  <2>2. /\ pc'[d] = pc[d] /\ user'[d] = user[d] /\ receiver'[d] = receiver[d]
        /\ purpose'[d] = purpose[d] /\ thread'[d] = thread[d]
        /\ stamp'[d] = stamp[d]
        /\ d \in addressed' <=> d \in addressed
    BY DEF Moves
  <2>3. /\ threads[d] = None => threads'[d] = None
        /\ messages[d] = None <=> messages'[d] = None
        /\ messages[d] # None => messages'[d].thread = messages[d].thread
    BY DEF ThreadsGrow, MessagesGrow, Exists
  <2>4. ASSUME pc[d] = "join" PROVE
            /\ threads'[thread[d]] # None
            /\ threads'[thread[d]].purpose.type = "group"
    BY <2>1, <2>4 DEF CallFits, ThreadsGrow, Exists
  <2>5. ASSUME pc[d] \in {"insert", "stamp", "save", "mark"}
        PROVE  threads'[thread[d]] # None
               /\ user[d] \in threads'[thread[d]].participants
    BY <2>1, <2>5 DEF CallFits, ThreadsGrow, TakesPart
  <2>6. ASSUME pc[d] = "insert"
        PROVE  Addressed(d, user[d], receiver[d], thread[d])'
    <3>1. /\ Addressed(d, user[d], receiver[d], thread[d])
          /\ thread[d] \in Calls /\ Exists(thread[d])
      BY <2>1, <2>6 DEF CallFits, TakesPart
    <3> QED BY <3>1, <2>2 DEF Addressed, ThreadsGrow
  <2> QED BY <2>1, <2>2, <2>3, <2>4, <2>5, <2>6
          DEF CallFits, Creates, Sends, TakesPart, Exists, Proper
<1>2. ASSUME NEW t \in Calls, Exists(t) PROVE ThreadFits(t)'
  BY <1>2 DEF ThreadFits, ThreadsGrow, Proper
<1>3. \A t \in Calls \ {c} : ThreadFits(t)'
  BY <1>2 DEF ThreadFits, ThreadsGrow, Exists
<1>4. ASSUME NEW m \in Calls, messages[m] # None PROVE MessageFits(m)'
  <2>1. MessageFits(m) /\ messages[m].thread \in Calls
    BY <1>4 DEF TypeOK, Message
  <2>2. m \in addressed' <=> m \in addressed
    BY <1>4 DEF CallFits, Moves
  <2>3. Addressed(m, messages[m].sender, messages[m].receiver,
                  messages[m].thread)'
    BY <1>4, <2>1, <2>2 DEF MessageFits, Addressed, ThreadsGrow, MessagesGrow
  <2> QED BY <1>4, <2>1, <2>3
          DEF MessageFits, ThreadsGrow, MessagesGrow, Exists
<1>5. \A u \in Users : \A m \in marked[u] :
            messages'[m] # None /\ u \in messages'[m].readBy
  BY DEF TypeOK, MarksAreKept, MessagesGrow
<1> QED BY <1>1, <1>2, <1>3, <1>4, <1>5

\* Nothing becomes a race when no thread appears and c opens none.
LEMMA RacesKept ==
    ASSUME ChatInv, NEW c \in Calls, Moves(c), ~Creates(c)', raced \subseteq raced',
           \A t \in Calls : threads'[t] # None =>
                Exists(t) /\ threads'[t].purpose = threads[t].purpose
    PROVE  RacesAreRecorded' /\ ThreadsAreUnique'
<1>1. \A d \in Calls : Creates(d)' =>
            d # c /\ Creates(d) /\ purpose'[d] = purpose[d]
  BY DEF Moves, Creates
<1>2. RacesAreRecorded'
  BY <1>1 DEF ChatInv, RacesAreRecorded, Exists
<1>3. ThreadsAreUnique'
  BY DEF ChatInv, ThreadsAreUnique, Exists
<1> QED BY <1>2, <1>3

\* Nothing becomes late when c neither sends nor has sent.
LEMMA DatesKept ==
    ASSUME ChatInv, NEW c \in Calls, Moves(c), ~Sends(c)',
           overlapped \subseteq overlapped',
           pc'[c] = "done" => messages'[c] = None,
           \A m \in Calls : messages'[m] # None =>
                messages[m] # None /\ messages'[m].thread = messages[m].thread,
           \A t \in Calls : Exists(t) =>
                threads'[t].lastMessageAt = threads[t].lastMessageAt
    PROVE  DatesAreOrdered' /\ LastMessageIsCovered'
<1>1. \A d \in Calls : Sends(d)' => d # c /\ Sends(d) /\ pc'[d] = pc[d]
                /\ thread'[d] = thread[d] /\ stamp'[d] = stamp[d]
  BY DEF Moves, Sends
<1>2. \A m \in Calls : messages'[m] # None /\ pc'[m] = "done" =>
            m # c /\ pc[m] = "done" /\ Exists(messages[m].thread)
                /\ messages[m].thread \in Calls
  BY DEF Moves, ChatInv, MessageFits, TypeOK, Message
<1>3. DatesAreOrdered'
  <2>1. ASSUME NEW d \in Calls, NEW e \in Calls, d # e, Sends(d)', Sends(e)',
               thread'[d] = thread'[e]
        PROVE  d \in overlapped'
    BY <1>1, <2>1 DEF ChatInv, DatesAreOrdered
  <2>2. ASSUME NEW d \in Calls, NEW m \in Calls, pc'[d] = "save",
               messages'[m] # None, pc'[m] = "done",
               messages'[m].thread = thread'[d], m \notin overlapped'
        PROVE  m \in stamp'[d]
    <3>1. Sends(d)'
      BY <2>2 DEF Sends
    <3> QED BY <1>1, <1>2, <2>2, <3>1 DEF ChatInv, DatesAreOrdered
  <2> QED BY <2>1, <2>2 DEF DatesAreOrdered
<1>4. LastMessageIsCovered'
  BY <1>2 DEF ChatInv, LastMessageIsCovered
<1> QED BY <1>3, <1>4

-----------------------------------------------------------------------------
\* A database that is left alone.
LEMMA StoreAlone ==
    ASSUME NEW c \in Calls, UNCHANGED store
    PROVE  ThreadsGrow(c) /\ MessagesGrow(c)
<1>1. ThreadsGrow(c)
  BY DEF store, ThreadsGrow, Exists
<1>2. MessagesGrow(c)
  BY DEF store, MessagesGrow
<1> QED BY <1>1, <1>2

\* A call starts, or goes on, and leaves the database alone.
LEMMA QuietInv ==
    ASSUME ChatInv, NEW c \in Calls, Moves(c),
           UNCHANGED <<store, marked, overlapped>>,
           raced' \subseteq Purpose, ~Sends(c)', CallFits(c)',
           pc'[c] = "done" => messages[c] = None,
           RacesAreRecorded' /\ ThreadsAreUnique'
    PROVE  ChatInv'
<1> USE DEF ChatInv
<1>1. TypeOK'
  BY DEF TypeOK, Moves, store
<1>2. ThreadsGrow(c) /\ MessagesGrow(c)
  BY StoreAlone
<1>3. /\ \A d \in Calls : CallFits(d)'
      /\ \A t \in Calls : ThreadFits(t)'
      /\ \A m \in Calls : MessageFits(m)'
  <2>1. ~Exists(c) => ThreadFits(c)'
    BY DEF ThreadFits, Exists, store
  <2>2. \A m \in Calls : messages[m] = None => MessageFits(m)'
    BY DEF MessageFits, store
  <2> QED BY <1>2, <2>1, <2>2, FitsKept
<1>4. MarksAreKept'
  BY DEF MarksAreKept, store
<1>5. DatesAreOrdered' /\ LastMessageIsCovered'
  BY DatesKept DEF store
<1> QED BY <1>1, <1>3, <1>4, <1>5

\* A call that returns is over.
LEMMA ReturnMoves ==
    ASSUME ChatInv, NEW c \in Calls, NEW outcome \in {"done", "failed"},
           Return(c, outcome), UNCHANGED addressed
    PROVE  Moves(c) /\ pc'[c] = outcome
<1>1. /\ pc' = [pc EXCEPT ![c] = outcome]
      /\ user' = [user EXCEPT ![c] = None]
      /\ receiver' = [receiver EXCEPT ![c] = None]
      /\ thread' = [thread EXCEPT ![c] = None]
      /\ stamp' = [stamp EXCEPT ![c] = {}]
      /\ purpose' = [purpose EXCEPT ![c] = None]
  BY DEF Return
<1> QED BY <1>1 DEF ChatInv, TypeOK, Moves, PC

\* A call that has ended has nothing left to fit.
LEMMA EndedFits ==
    ASSUME NEW c \in Calls, pc'[c] \in {"done", "failed"} PROVE CallFits(c)'
BY DEF CallFits, Creates, Sends

\* A call that is not idle fails.
LEMMA AbortInv == ASSUME ChatInv, NEW c \in Calls, Abort(c) PROVE ChatInv'
<1>1. /\ Return(c, "failed")
      /\ UNCHANGED <<store, marked, raced, overlapped, addressed>>
      /\ pc[c] \notin {"idle", "done", "failed"}
  BY DEF Abort
<1>2. Moves(c) /\ pc'[c] = "failed"
  BY <1>1, ReturnMoves
<1>3. RacesAreRecorded' /\ ThreadsAreUnique'
  BY <1>1, <1>2, RacesKept DEF Creates, store, Exists
<1>4. raced' \subseteq Purpose
  BY <1>1 DEF ChatInv, TypeOK
<1> QED BY <1>1, <1>2, <1>3, <1>4, EndedFits, QuietInv DEF Sends

\* A call is refused.
LEMMA RefuseInv ==
    ASSUME ChatInv, NEW c \in Calls, NEW u \in Users, NEW t \in Calls,
           RefuseCall(c, u, t)
    PROVE  ChatInv'
<1>1. /\ pc' = [pc EXCEPT ![c] = "failed"]
      /\ UNCHANGED <<store, user, receiver, purpose, thread, stamp, marked,
                     raced, overlapped, addressed>>
  BY DEF RefuseCall
<1>2. Moves(c) /\ pc'[c] = "failed"
  BY <1>1 DEF ChatInv, TypeOK, Moves, PC
<1>3. RacesAreRecorded' /\ ThreadsAreUnique'
  BY <1>1, <1>2, RacesKept DEF Creates, store, Exists
<1>4. raced' \subseteq Purpose
  BY <1>1 DEF ChatInv, TypeOK
<1> QED BY <1>1, <1>2, <1>3, <1>4, EndedFits, QuietInv DEF Sends

-----------------------------------------------------------------------------
\* A call that starts has no receiver, no message and no thread of its name.
LEMMA IdleFacts ==
    ASSUME ChatInv, NEW c \in Calls, pc[c] = "idle"
    PROVE  /\ receiver[c] = None /\ messages[c] = None /\ threads[c] = None
           /\ c \notin addressed
BY DEF ChatInv, CallFits

\* A call that takes up thread t, which it may use.
LEMMA TakeUpInv ==
    ASSUME ChatInv, NEW c \in Calls, NEW u \in Users, NEW t \in Calls,
           NEW r \in Users \cup {None}, NEW p \in {"insert", "mark", "join"},
           pc[c] = "idle", TakesPart(u, t) \/ p = "join", Exists(t),
           pc' = [pc EXCEPT ![c] = p],
           user' = [user EXCEPT ![c] = u],
           receiver' = [receiver EXCEPT ![c] = r],
           thread' = [thread EXCEPT ![c] = t],
           UNCHANGED <<store, purpose, stamp, marked, raced, overlapped>>,
           addressed' \in {addressed, addressed \cup {c}},
           p = "insert" => Addressed(c, u, r, t)',
           p = "join" =>
                threads[t].purpose.type = "group" /\ addressed' = addressed
    PROVE  ChatInv'
<1>1. Moves(c) /\ pc'[c] = p /\ user'[c] = u /\ receiver'[c] = r /\ thread'[c] = t
  BY DEF ChatInv, TypeOK, Moves, PC
<1>2. RacesAreRecorded' /\ ThreadsAreUnique'
  BY <1>1, RacesKept DEF Creates, store, Exists
<1>3. CallFits(c)'
  <2>1. messages'[c] = None /\ c \notin addressed
    BY IdleFacts DEF store
  <2> QED BY <1>1, <2>1 DEF CallFits, Creates, Sends, TakesPart, Exists,
          Addressed, store
<1>4. raced' \subseteq Purpose
  BY DEF ChatInv, TypeOK
<1> QED BY <1>1, <1>2, <1>3, <1>4, QuietInv DEF Sends

\* A call that found no thread of its purpose.
LEMMA FindNoneInv ==
    ASSUME ChatInv, NEW c \in Calls, NEW u \in Users,
           NEW r \in Users \cup {None}, NEW p \in Purpose,
           NEW creating \in {"create", "open"},
           pc[c] = "idle", Found(p) = {}, Proper(p),
           p.type = "direct" => u \in p.participants,
           addressed' \in {addressed, addressed \cup {c}},
           \/ addressed' = addressed
           \/ r = u
           \/ p.type = "direct" /\ p.participants = {u, r},
           pc' = [pc EXCEPT ![c] = creating],
           user' = [user EXCEPT ![c] = u],
           receiver' = [receiver EXCEPT ![c] = r],
           purpose' = [purpose EXCEPT ![c] = p],
           raced' = IF \E d \in Calls : Creating(d, p)
                    THEN raced \cup {p} ELSE raced,
           UNCHANGED <<store, thread, stamp, marked, overlapped>>
    PROVE  ChatInv'
<1>1. /\ Moves(c) /\ pc'[c] = creating /\ user'[c] = u /\ receiver'[c] = r
      /\ purpose'[c] = p
  BY DEF ChatInv, TypeOK, Moves, PC
<1>2. /\ raced \subseteq raced' /\ raced' \subseteq Purpose
      /\ \A d \in Calls : Creates(d) /\ purpose[d] = p => p \in raced'
  BY DEF ChatInv, TypeOK, Creates, Creating
<1>3. \A d \in Calls \ {c} : Creates(d)' =>
            Creates(d) /\ purpose'[d] = purpose[d]
  BY <1>1 DEF Moves, Creates
<1>4. ASSUME NEW t \in Calls, Exists(t) PROVE threads[t].purpose # p
  <2>1. threads[t] \in Thread /\ ThreadFits(t)
    BY <1>4 DEF ChatInv, TypeOK, Exists
  <2>2. threads[t].purpose.type \in {"direct", "group"}
    BY <2>1 DEF Thread, Purpose
  <2>3. threads[t].purpose = p => Matches(threads[t], p)
    BY <1>4, <2>1, <2>2 DEF Matches, ThreadFits, Proper
  <2> QED BY <1>4, <2>3 DEF Found
<1>5. RacesAreRecorded'
  <2>1. ASSUME NEW d \in Calls, NEW e \in Calls, d # e, Creates(d)', Creates(e)',
               purpose'[d] = purpose'[e]
        PROVE  purpose'[d] \in raced'
    BY <1>1, <1>2, <1>3, <2>1 DEF ChatInv, RacesAreRecorded
  <2>2. ASSUME NEW d \in Calls, NEW t \in Calls, Creates(d)', threads'[t] # None,
               threads'[t].purpose = purpose'[d]
        PROVE  purpose'[d] \in raced'
    BY <1>1, <1>2, <1>3, <1>4, <2>2 DEF ChatInv, RacesAreRecorded, Exists, store
  <2> QED BY <2>1, <2>2 DEF RacesAreRecorded, Exists
<1>6. ThreadsAreUnique'
  BY <1>2 DEF ChatInv, ThreadsAreUnique, Exists, store
<1>7. CallFits(c)'
  <2>1. messages'[c] = None /\ threads'[c] = None /\ c \notin addressed
    BY IdleFacts DEF store
  <2> QED BY <1>1, <2>1 DEF CallFits, Creates, Sends, Proper
<1> QED BY <1>1, <1>2, <1>5, <1>6, <1>7, QuietInv DEF Sends

\* A findOne that answers: either of the two cases above.
LEMMA FindInv ==
    ASSUME ChatInv, NEW c \in Calls, NEW u \in Users,
           NEW r \in Users \cup {None}, NEW p \in Purpose,
           NEW creating \in {"create", "open"},
           pc[c] = "idle", Find(c, u, p, creating), Proper(p),
           receiver' = [receiver EXCEPT ![c] = r],
           p.type = "direct" => u \in p.participants,
           addressed' \in {addressed, addressed \cup {c}},
           \/ addressed' = addressed
           \/ p.type = "direct" /\ (r = u \/ p.participants = {u, r})
    PROVE  ChatInv'
<1>1. /\ user' = [user EXCEPT ![c] = u]
      /\ UNCHANGED <<store, stamp, marked, overlapped>>
  BY DEF Find
<1>2. p.type \in {"direct", "group"}
  BY DEF Purpose
<1>3. CASE Found(p) = {}
  BY <1>1, <1>2, <1>3, FindNoneInv DEF Find
<1>4. CASE Found(p) # {}
  <2>1. PICK t \in Found(p) :
            /\ thread' = [thread EXCEPT ![c] = t]
            /\ pc' = [pc EXCEPT ![c] =
                    IF p.type = "group" /\ u \notin threads[t].participants
                    THEN "join" ELSE "insert"]
            /\ UNCHANGED <<purpose, raced>>
    BY <1>4 DEF Find
  <2>2. /\ t \in Calls /\ Exists(t) /\ Matches(threads[t], p) /\ ThreadFits(t)
        /\ threads[t].purpose.type = p.type
    BY DEF Found, Matches, ChatInv
  <2>3. p.type = "direct" => u \in threads[t].participants
    BY <2>2 DEF Matches
  <2>4. Addressed(c, u, r, t)'
    <3>1. CASE addressed' = addressed
      BY <3>1, IdleFacts DEF Addressed
    <3>2. CASE addressed' # addressed /\ r = u
      BY <3>2 DEF Addressed
    <3>3. CASE addressed' # addressed /\ r # u
      <4>1. p.type = "direct" /\ {u, r} \subseteq threads[t].participants
        BY <2>2, <3>3 DEF Matches
      <4>2. PICK v, w \in Users : threads[t].participants = {v, w}
        BY <2>2, <4>1 DEF ThreadFits, Proper
      <4>3. threads[t].participants = {u, r}
        BY <3>3, <4>1, <4>2
      <4> QED BY <1>1, <2>2, <4>1, <4>3 DEF Addressed, store
    <3> QED BY <3>1, <3>2, <3>3
  <2>5. CASE p.type = "group" /\ u \notin threads[t].participants
    <3>1. addressed' = addressed
      BY <2>5
    <3> QED BY <1>1, <2>1, <2>2, <2>5, <3>1, TakeUpInv
  <2>6. CASE ~(p.type = "group" /\ u \notin threads[t].participants)
    <3>1. TakesPart(u, t)
      BY <1>2, <2>2, <2>3, <2>6 DEF TakesPart
    <3> QED BY <1>1, <2>1, <2>2, <2>4, <2>6, <3>1, TakeUpInv
  <2> QED BY <2>5, <2>6
<1> QED BY <1>3, <1>4

\* Every way to start a call.
LEMMA BeginInv == ASSUME ChatInv, NEW c \in Calls, Begin(c) PROVE ChatInv'
<1>1. ASSUME pc[c] = "idle"
      PROVE  /\ receiver[c] = None
             /\ receiver = [receiver EXCEPT ![c] = None]
  BY <1>1, IdleFacts DEF ChatInv, TypeOK
<1>2. ASSUME NEW u \in Users, NEW v \in Users
      PROVE  /\ Direct(u, v) \in Purpose /\ Proper(Direct(u, v))
             /\ Direct(u, v).type = "direct" /\ Direct(u, v).participants = {u, v}
  BY DEF Direct, Purpose, Proper
<1>3. ASSUME NEW u \in Users
      PROVE  /\ Support(u) \in Purpose /\ Proper(Support(u))
             /\ Support(u).type = "direct"
             /\ Support(u).participants = {u, FirstAdmin}
  BY RolesAssumption DEF Support, Purpose, Proper
<1>4. ASSUME NEW g \in GroupBuys
      PROVE  /\ Group(g) \in Purpose /\ Proper(Group(g))
             /\ Group(g).type = "group"
  BY DEF Group, Purpose, Proper
<1>5. ASSUME NEW u \in Users, NEW v \in Users, SendDirect(c, u, v) PROVE ChatInv'
  <2> DEFINE p == Direct(u, v)
  <2>1. /\ p \in Purpose /\ Proper(p) /\ p.type = "direct"
        /\ p.participants = {u, v}
    BY <1>2
  <2>2. /\ pc[c] = "idle" /\ receiver' = [receiver EXCEPT ![c] = v]
        /\ Find(c, u, p, "create") /\ addressed' = addressed \cup {c}
    BY <1>5 DEF SendDirect
  <2> HIDE DEF p
  <2> QED BY <2>1, <2>2, FindInv
<1>6. ASSUME NEW u \in Users, NEW g \in GroupBuys,
             NEW v \in Users \cup {None}, SendToGroup(c, u, g, v)
      PROVE  ChatInv'
  <2> DEFINE p == Group(g)
  <2>1. p \in Purpose /\ Proper(p) /\ p.type = "group"
    BY <1>4
  <2>2. /\ pc[c] = "idle" /\ receiver' = [receiver EXCEPT ![c] = v]
        /\ Find(c, u, p, "create") /\ addressed' = addressed
    BY <1>6 DEF SendToGroup
  <2> HIDE DEF p
  <2> QED BY <2>1, <2>2, FindInv
<1>7. ASSUME NEW u \in Dealers, SendSupport(c, u) PROVE ChatInv'
  <2> DEFINE p == Support(u)
             r == IF Found(p) # {} THEN u ELSE FirstAdmin
  <2>1. u \in Users /\ FirstAdmin \in Users
    BY RolesAssumption
  <2>2. /\ p \in Purpose /\ Proper(p) /\ p.type = "direct"
        /\ p.participants = {u, FirstAdmin}
    BY <1>3, <2>1
  <2>3. /\ pc[c] = "idle" /\ receiver' = [receiver EXCEPT ![c] = r]
        /\ Find(c, u, p, "create") /\ addressed' = addressed \cup {c}
    BY <1>7 DEF SendSupport
  <2>4. r \in Users \cup {None} /\ r \in {u, FirstAdmin}
    BY <2>1
  <2> HIDE DEF p, r
  <2> QED BY <2>1, <2>2, <2>3, <2>4, FindInv
<1>8. ASSUME NEW u \in Dealers, OpenSupport(c, u) PROVE ChatInv'
  <2> DEFINE p == Support(u)
  <2>1. u \in Users
    BY RolesAssumption
  <2>2. /\ p \in Purpose /\ Proper(p) /\ p.type = "direct"
        /\ p.participants = {u, FirstAdmin}
    BY <1>3, <2>1
  <2>3. /\ pc[c] = "idle" /\ receiver' = [receiver EXCEPT ![c] = None]
        /\ Find(c, u, p, "open") /\ addressed' = addressed
    BY <1>1, <1>8 DEF OpenSupport
  <2> HIDE DEF p
  <2> QED BY <2>1, <2>2, <2>3, FindInv
<1>9. ASSUME NEW u \in Users, NEW t \in Calls, NEW v \in Users \cup {None},
             SendToThread(c, u, t, v)
      PROVE  ChatInv'
  <2>1. /\ pc[c] = "idle" /\ addressed' = addressed
        /\ TakesPart(u, t) /\ Exists(t)
    BY <1>9 DEF SendToThread, TakesPart
  <2>2. Addressed(c, u, v, t)'
    BY <2>1, IdleFacts DEF Addressed
  <2> QED BY <1>9, <2>1, <2>2, TakeUpInv DEF SendToThread
<1>10. ASSUME NEW u \in Users, NEW t \in Calls, BeginRead(c, u, t)
       PROVE  ChatInv'
  <2>1. /\ receiver' = [receiver EXCEPT ![c] = None]
        /\ TakesPart(u, t) /\ Exists(t)
    BY <1>1, <1>10 DEF BeginRead, TakesPart
  <2> QED BY <1>10, <2>1, TakeUpInv DEF BeginRead
<1>11. ASSUME NEW u \in Admins, NEW t \in Calls, ReplySupport(c, u, t)
       PROVE  ChatInv'
  <2>1. /\ u \in Users /\ TakesPart(u, t) /\ Exists(t) /\ ThreadFits(t)
        /\ threads[t] \in Thread /\ threads[t].purpose.support
    BY <1>11, RolesAssumption DEF ReplySupport, TakesPart, ChatInv, TypeOK, Exists
  <2>2. PICK v \in threads[t].participants \ {u} :
            receiver' = [receiver EXCEPT ![c] = v]
    BY <1>11 DEF ReplySupport
  <2>3. threads[t].purpose.type = "direct"
    BY <2>1 DEF ThreadFits, Proper, Thread, Purpose
  <2>4. PICK x, y \in Users : threads[t].participants = {x, y}
    BY <2>1, <2>3 DEF ThreadFits, Proper
  <2>5. threads[t].participants = {u, v} /\ v \in Users
    BY <2>1, <2>2, <2>4 DEF TakesPart
  <2>6. Addressed(c, u, v, t)'
    BY <1>11, <2>3, <2>5 DEF Addressed, ReplySupport, store
  <2> QED BY <1>11, <2>1, <2>2, <2>5, <2>6, TakeUpInv DEF ReplySupport
<1> QED BY <1>5, <1>6, <1>7, <1>8, <1>9, <1>10, <1>11, RefuseInv DEF Begin

-----------------------------------------------------------------------------
\* A step on which the database grows, its own message and thread apart.
LEMMA GrowInv ==
    ASSUME ChatInv, TypeOK', NEW c \in Calls, Moves(c), ThreadsGrow(c),
           MessagesGrow(c), CallFits(c)', ThreadFits(c)', MessageFits(c)',
           MarksAreKept', RacesAreRecorded', ThreadsAreUnique',
           DatesAreOrdered', LastMessageIsCovered'
    PROVE  ChatInv'
<1>1. \A d \in Calls : CallFits(d)' /\ ThreadFits(d)'
  BY FitsKept
<1>2. ASSUME NEW m \in Calls PROVE MessageFits(m)'
  <2>1. messages[m] = None /\ m # c => MessageFits(m)'
    BY DEF MessagesGrow, MessageFits
  <2> QED BY <2>1, FitsKept
<1> QED BY <1>1, <1>2 DEF ChatInv

\* A new thread: the one of the purpose its call had found none for.
LEMMA CreateThreadInv ==
    ASSUME ChatInv, NEW c \in Calls, CreateThread(c) PROVE ChatInv'
<1> DEFINE new == [purpose |-> purpose[c],
                   participants |-> purpose[c].participants \cup {user[c]},
                   lastMessageAt |-> {}]
<1>1. /\ Creates(c) /\ threads' = [threads EXCEPT ![c] = new]
      /\ UNCHANGED <<messages, marked, raced, overlapped, addressed>>
  BY DEF CreateThread, Creates
<1>2. /\ threads[c] = None /\ messages[c] = None
      /\ user[c] \in Users /\ purpose[c] \in Purpose /\ Proper(purpose[c])
      /\ purpose[c].type = "direct" => user[c] \in purpose[c].participants
      /\ \/ c \notin addressed
         \/ receiver[c] = user[c]
         \/ /\ purpose[c].type = "direct"
            /\ purpose[c].participants = {user[c], receiver[c]}
  BY <1>1 DEF ChatInv, CallFits, Creates
<1>3. new \in Thread /\ new # None
  BY <1>2, NoneAssumption DEF Thread, Purpose
<1>4. /\ threads' \in [Calls -> Thread \cup {None}] /\ threads'[c] = new
      /\ \A t \in Calls \ {c} : threads'[t] = threads[t]
  BY <1>1, <1>3 DEF ChatInv, TypeOK
<1>5. /\ Moves(c)
      /\ \/ /\ pc'[c] = "insert" /\ thread'[c] = c
            /\ user'[c] = user[c] /\ receiver'[c] = receiver[c]
         \/ pc'[c] = "done"
  <2>1. CASE Return(c, "done")
    BY <1>1, <2>1, ReturnMoves
  <2>2. CASE /\ pc' = [pc EXCEPT ![c] = "insert"]
             /\ thread' = [thread EXCEPT ![c] = c]
             /\ purpose' = [purpose EXCEPT ![c] = None]
             /\ UNCHANGED <<user, receiver, stamp>>
    BY <1>1, <2>2 DEF ChatInv, TypeOK, Moves, PC
  <2> QED BY <2>1, <2>2 DEF CreateThread
<1> HIDE DEF new
<1>6. /\ new.purpose = purpose[c] /\ new.lastMessageAt = {}
      /\ new.participants = purpose[c].participants \cup {user[c]}
  BY DEF new
<1>7. TypeOK'
  BY <1>1, <1>4, <1>5 DEF ChatInv, TypeOK, Moves
<1>8. ThreadsGrow(c) /\ MessagesGrow(c)
  BY <1>1, <1>2, <1>4 DEF ThreadsGrow, MessagesGrow, Exists
<1>9. ThreadFits(c)'
  BY <1>2, <1>4, <1>6 DEF ThreadFits, Proper
<1>10. CallFits(c)'
  <2>1. messages'[c] = None
    BY <1>1, <1>2
  <2>2. threads'[c] # None /\ user[c] \in threads'[c].participants
    BY <1>3, <1>4, <1>6
  <2>3. CASE pc'[c] = "done"
    BY <2>3, EndedFits
  <2>4. CASE /\ pc'[c] = "insert" /\ thread'[c] = c
             /\ user'[c] = user[c] /\ receiver'[c] = receiver[c]
    <3>1. Addressed(c, user[c], receiver[c], thread[c])'
      BY <1>1, <1>2, <1>4, <1>6, <2>4 DEF Addressed
    <3> QED BY <1>2, <2>1, <2>2, <2>4, <3>1
            DEF CallFits, Creates, Sends, TakesPart, Exists
  <2> QED BY <1>5, <2>3, <2>4
<1>11. MessageFits(c)' /\ MarksAreKept'
  BY <1>1, <1>2 DEF MessageFits, ChatInv, MarksAreKept
<1>12. RacesAreRecorded'
  <2>1. \A d \in Calls : Creates(d)' =>
            d # c /\ Creates(d) /\ purpose'[d] = purpose[d]
    BY <1>5 DEF Moves, Creates
  <2> QED BY <1>1, <1>4, <1>6, <2>1 DEF ChatInv, RacesAreRecorded, Exists
<1>13. ThreadsAreUnique'
  <2>1. ASSUME NEW s \in Calls, NEW t \in Calls, s # t, threads'[s] # None,
               threads'[t] # None, threads'[s].purpose = threads'[t].purpose
        PROVE  threads'[s].purpose \in raced'
    <3>1. CASE s # c /\ t # c
      BY <1>1, <1>4, <2>1, <3>1 DEF ChatInv, ThreadsAreUnique, Exists
    <3>2. CASE s = c \/ t = c
      BY <1>1, <1>4, <1>6, <2>1, <3>2 DEF ChatInv, RacesAreRecorded, Exists
    <3> QED BY <3>1, <3>2
  <2> QED BY <2>1 DEF ThreadsAreUnique, Exists
<1>14. DatesAreOrdered' /\ LastMessageIsCovered'
  <2>1. /\ ~Sends(c)' /\ messages'[c] = None
        /\ \A t \in Calls : Exists(t) =>
                threads'[t].lastMessageAt = threads[t].lastMessageAt
    BY <1>1, <1>2, <1>4, <1>5 DEF Sends, Exists
  <2> QED BY <1>1, <1>5, <2>1, DatesKept
<1> QED BY <1>5, <1>7, <1>8, <1>9, <1>10, <1>11, <1>12, <1>13, <1>14, GrowInv

\* A participant joins a group thread.
LEMMA JoinGroupInv ==
    ASSUME ChatInv, NEW c \in Calls, JoinGroup(c) PROVE ChatInv'
<1> DEFINE t == thread[c]
<1>1. /\ pc[c] = "join" /\ pc' = [pc EXCEPT ![c] = "insert"]
      /\ threads' = [threads EXCEPT ![t].participants = @ \cup {user[c]}]
      /\ UNCHANGED <<messages, user, receiver, purpose, thread, stamp, marked,
                     raced, overlapped, addressed>>
  BY DEF JoinGroup
<1>2. /\ user[c] \in Users /\ t \in Calls /\ Exists(t) /\ c \notin addressed
      /\ threads[t].purpose.type = "group" /\ messages[c] = None
  BY <1>1 DEF ChatInv, CallFits
<1>3. threads[t] \in Thread /\ ThreadFits(t)
  BY <1>2 DEF ChatInv, TypeOK, Exists
<1>4. /\ threads'[t] = [threads[t] EXCEPT !.participants = @ \cup {user[c]}]
      /\ threads'[t] \in Thread
      /\ \A s \in Calls \ {t} : threads'[s] = threads[s]
  BY <1>1, <1>2, <1>3 DEF ChatInv, TypeOK, Thread
<1>5. /\ threads'[t] # None /\ threads'[t].purpose = threads[t].purpose
      /\ threads'[t].participants = threads[t].participants \cup {user[c]}
      /\ threads'[t].lastMessageAt = threads[t].lastMessageAt
  BY <1>3, <1>4, NoneAssumption DEF Thread
<1>6. Moves(c) /\ pc'[c] = "insert"
  BY <1>1 DEF ChatInv, TypeOK, Moves, PC
<1>7. TypeOK'
  <2>1. threads' \in [Calls -> Thread \cup {None}]
    BY <1>1, <1>2, <1>4 DEF ChatInv, TypeOK
  <2> QED BY <1>1, <1>6, <2>1 DEF ChatInv, TypeOK, Moves
<1> HIDE DEF t
<1>8. ThreadsGrow(c) /\ MessagesGrow(c)
  <2>1. ThreadsGrow(c)
    BY <1>2, <1>4, <1>5 DEF ThreadsGrow, Exists
  <2> QED BY <1>1, <2>1 DEF MessagesGrow
<1>9. ThreadFits(c)'
  <2>1. ~Exists(c) => ThreadFits(c)'
    BY <1>2, <1>4 DEF ThreadFits, Exists
  <2> QED BY <1>6, <1>8, <2>1, FitsKept
<1>10. CallFits(c)'
  <2>1. thread'[c] = t /\ user'[c] = user[c] /\ messages'[c] = None
    BY <1>1, <1>2 DEF t
  <2>2. Addressed(c, user[c], receiver[c], thread[c])'
    BY <1>1, <1>2 DEF Addressed
  <2> QED BY <1>2, <1>5, <1>6, <2>1, <2>2
          DEF CallFits, Creates, Sends, TakesPart, Exists
<1>11. MessageFits(c)' /\ MarksAreKept'
  BY <1>1, <1>2 DEF MessageFits, ChatInv, MarksAreKept
<1>12. RacesAreRecorded' /\ ThreadsAreUnique'
  <2>1. \A s \in Calls : threads'[s] # None =>
            Exists(s) /\ threads'[s].purpose = threads[s].purpose
    BY <1>2, <1>4, <1>5 DEF Exists
  <2> QED BY <1>1, <1>6, <2>1, RacesKept DEF Creates
<1>13. DatesAreOrdered' /\ LastMessageIsCovered'
  <2>1. /\ \A s \in Calls : Exists(s) =>
                threads'[s].lastMessageAt = threads[s].lastMessageAt
        /\ ~Sends(c)' /\ pc'[c] # "done"
    BY <1>4, <1>5, <1>6 DEF Sends
  <2> QED BY <1>1, <1>6, <2>1, DatesKept
<1> QED BY <1>6, <1>7, <1>8, <1>9, <1>10, <1>11, <1>12, <1>13, GrowInv

-----------------------------------------------------------------------------
\* Threads that are left alone.
LEMMA ThreadsAlone ==
    ASSUME ChatInv, NEW c \in Calls, Moves(c), threads' = threads,
           raced' = raced, ~Creates(c)'
    PROVE  /\ ThreadsGrow(c) /\ ThreadFits(c)'
           /\ RacesAreRecorded' /\ ThreadsAreUnique'
<1>1. ThreadsGrow(c)
  BY DEF ThreadsGrow, Exists
<1>2. ThreadFits(c)'
  BY DEF ChatInv, ThreadFits, Exists
<1>3. RacesAreRecorded' /\ ThreadsAreUnique'
  BY RacesKept DEF Exists
<1> QED BY <1>1, <1>2, <1>3

\* A message is stored; its sender has read it.
LEMMA InsertMessageInv ==
    ASSUME ChatInv, NEW c \in Calls, InsertMessage(c) PROVE ChatInv'
<1> DEFINE t == thread[c]
           new == [thread |-> t, sender |-> user[c],
                   receiver |-> receiver[c], readBy |-> {user[c]}]
<1>1. /\ pc[c] = "insert" /\ pc' = [pc EXCEPT ![c] = "stamp"]
      /\ messages' = [messages EXCEPT ![c] = new]
      /\ UNCHANGED <<threads, user, receiver, purpose, thread, stamp, marked,
                     raced, addressed>>
  BY DEF InsertMessage
<1>2. /\ user[c] \in Users /\ t \in Calls /\ TakesPart(user[c], t)
      /\ Addressed(c, user[c], receiver[c], t) /\ messages[c] = None
      /\ receiver[c] \in Users \cup {None}
  BY <1>1 DEF ChatInv, CallFits, TypeOK
<1>3. new \in Message /\ new # None
  BY <1>2, NoneAssumption DEF Message
<1>4. /\ messages' \in [Calls -> Message \cup {None}] /\ messages'[c] = new
      /\ \A m \in Calls \ {c} : messages'[m] = messages[m]
  BY <1>1, <1>3 DEF ChatInv, TypeOK
<1>5. new.thread = t /\ new.sender = user[c] /\ new.receiver = receiver[c]
      /\ new.readBy = {user[c]}
  OBVIOUS
<1>6. Moves(c) /\ pc'[c] = "stamp"
  BY <1>1 DEF ChatInv, TypeOK, Moves, PC
<1>7. /\ overlapped \subseteq overlapped' /\ overlapped' \subseteq Calls
       /\ \A d \in Calls : Sending(d, t) => {c, d} \subseteq overlapped'
  BY DEF ChatInv, TypeOK, InsertMessage
<1>8. TypeOK'
  BY <1>1, <1>2, <1>4, <1>6, <1>7 DEF ChatInv, TypeOK, Moves
<1> HIDE DEF new
<1>9. MessagesGrow(c)
  BY <1>2, <1>4 DEF MessagesGrow
<1>10. /\ ThreadsGrow(c) /\ ThreadFits(c)' /\ RacesAreRecorded'
      /\ ThreadsAreUnique'
  BY <1>1, <1>6, ThreadsAlone DEF Creates
<1>11. MessageFits(c)'
  <2>1. Addressed(c, user[c], receiver[c], t)'
    BY <1>1, <1>2 DEF Addressed
  <2> QED BY <1>1, <1>2, <1>4, <1>5, <2>1
          DEF MessageFits, TakesPart, Exists, Addressed
<1>12. CallFits(c)'
  BY <1>1, <1>2, <1>3, <1>4, <1>5, <1>6
     DEF CallFits, Creates, Sends, TakesPart, Exists
<1>13. MarksAreKept'
  BY <1>1, <1>6, <1>9, <1>10, FitsKept DEF ChatInv, MarksAreKept
<1>14. \A d \in Calls \ {c} : Sends(d)' =>
            /\ Sends(d) /\ pc'[d] = pc[d] /\ stamp'[d] = stamp[d]
            /\ thread[d] = t => {c, d} \subseteq overlapped'
  BY <1>1, <1>6, <1>7 DEF Moves, Sends, Sending
<1>15. DatesAreOrdered'
  <2>1. ASSUME NEW d \in Calls, NEW e \in Calls, d # e, Sends(d)', Sends(e)',
               thread'[d] = thread'[e]
        PROVE  d \in overlapped'
    <3>1. CASE d # c /\ e # c
      BY <1>1, <1>14, <1>7, <2>1, <3>1 DEF ChatInv, DatesAreOrdered
    <3>2. CASE d = c \/ e = c
      BY <1>1, <1>14, <2>1, <3>2
    <3> QED BY <3>1, <3>2
  <2>2. ASSUME NEW d \in Calls, NEW m \in Calls, pc'[d] = "save",
               messages'[m] # None, pc'[m] = "done",
               messages'[m].thread = thread'[d], m \notin overlapped'
        PROVE  m \in stamp'[d]
    <3>1. d # c /\ m # c /\ pc[m] = "done" /\ pc[d] = "save"
      BY <1>6, <2>2 DEF Moves
    <3> QED BY <1>1, <1>4, <1>7, <2>2, <3>1 DEF ChatInv, DatesAreOrdered
  <2> QED BY <2>1, <2>2 DEF DatesAreOrdered
<1>16. LastMessageIsCovered'
  <2>1. \A m \in Calls : pc'[m] = "done" => m # c /\ pc[m] = "done"
    BY <1>6 DEF Moves
  <2> QED BY <1>1, <1>4, <1>7, <2>1 DEF ChatInv, LastMessageIsCovered
<1> QED BY <1>6, <1>8, <1>9, <1>10, <1>11, <1>12, <1>13, <1>15, <1>16, GrowInv

\* The date is taken: it covers what the thread has.
LEMMA StampThreadInv ==
    ASSUME ChatInv, NEW c \in Calls, StampThread(c) PROVE ChatInv'
<1>1. /\ pc[c] = "stamp" /\ pc' = [pc EXCEPT ![c] = "save"]
      /\ stamp' = [stamp EXCEPT ![c] = MessagesOf(thread[c])]
      /\ UNCHANGED <<store, user, receiver, purpose, thread, marked, raced,
                     overlapped, addressed>>
  BY DEF StampThread
<1>2. /\ user[c] \in Users /\ thread[c] \in Calls
      /\ TakesPart(user[c], thread[c])
      /\ messages[c] # None /\ messages[c].thread = thread[c]
  BY <1>1 DEF ChatInv, CallFits, Sends
<1>3. MessagesOf(thread[c]) \subseteq Calls /\ c \in MessagesOf(thread[c])
  BY <1>2 DEF MessagesOf
<1>4. /\ Moves(c) /\ pc'[c] = "save" /\ stamp'[c] = MessagesOf(thread[c])
  BY <1>1, <1>3 DEF ChatInv, TypeOK, Moves, PC
<1>5. TypeOK'
  BY <1>1, <1>4 DEF ChatInv, TypeOK, Moves, store
<1>6. /\ ThreadsGrow(c) /\ ThreadFits(c)' /\ RacesAreRecorded'
      /\ ThreadsAreUnique'
  BY <1>1, <1>4, ThreadsAlone DEF Creates, store
<1>7. MessagesGrow(c)
  BY <1>1 DEF MessagesGrow, store
<1>8. MessageFits(c)' /\ MarksAreKept'
  BY <1>1, <1>2, <1>4, <1>6, <1>7, FitsKept DEF ChatInv, MarksAreKept
<1>9. CallFits(c)'
  BY <1>1, <1>2, <1>3, <1>4
     DEF CallFits, Creates, Sends, TakesPart, Exists, store
<1>10. \A d \in Calls : Sends(d)' => Sends(d)
  BY <1>1, <1>4 DEF Moves, Sends
<1>11. DatesAreOrdered'
  <2>1. ASSUME NEW d \in Calls, NEW e \in Calls, d # e, Sends(d)', Sends(e)',
               thread'[d] = thread'[e]
        PROVE  d \in overlapped'
    BY <1>1, <1>10, <2>1 DEF ChatInv, DatesAreOrdered
  <2>2. ASSUME NEW d \in Calls, NEW m \in Calls, pc'[d] = "save",
               messages'[m] # None, pc'[m] = "done",
               messages'[m].thread = thread'[d], m \notin overlapped'
        PROVE  m \in stamp'[d]
    <3>1. m # c /\ pc[m] = "done"
      BY <1>4, <2>2 DEF Moves
    <3>2. CASE d = c
      BY <1>1, <1>4, <2>2, <3>2 DEF MessagesOf, store
    <3>3. CASE d # c
      BY <1>1, <1>4, <2>2, <3>1, <3>3 DEF Moves, ChatInv, DatesAreOrdered, store
    <3> QED BY <3>2, <3>3
  <2> QED BY <2>1, <2>2 DEF DatesAreOrdered
<1>12. LastMessageIsCovered'
  <2>1. \A m \in Calls : pc'[m] = "done" => pc[m] = "done"
    BY <1>4 DEF Moves
  <2> QED BY <1>1, <2>1 DEF ChatInv, LastMessageIsCovered, store
<1> QED BY <1>4, <1>5, <1>6, <1>7, <1>8, <1>9, <1>11, <1>12, GrowInv

\* The date is saved, and nothing else of the thread.
LEMMA SaveThreadInv ==
    ASSUME ChatInv, NEW c \in Calls, SaveThread(c) PROVE ChatInv'
<1> DEFINE t == thread[c]
<1>1. /\ pc[c] = "save" /\ Sends(c)
      /\ threads' = [threads EXCEPT ![t] = Saved(@, stamp[c])]
      /\ Return(c, "done")
      /\ UNCHANGED <<messages, marked, raced, overlapped, addressed>>
  BY DEF SaveThread, Sends
<1>2. /\ t \in Calls /\ Exists(t) /\ c \in stamp[c] /\ stamp[c] \subseteq Calls
      /\ messages[c] # None /\ messages[c].thread = t
  BY <1>1 DEF ChatInv, CallFits, TakesPart, TypeOK
<1>3. threads[t] \in Thread
  BY <1>2 DEF ChatInv, TypeOK, Exists
<1>4. /\ threads'[t] = [threads[t] EXCEPT !.lastMessageAt = stamp[c]]
      /\ threads'[t] \in Thread
      /\ \A s \in Calls \ {t} : threads'[s] = threads[s]
  BY <1>1, <1>2, <1>3 DEF ChatInv, TypeOK, Thread, Saved
<1>5. /\ threads'[t] # None /\ threads'[t].purpose = threads[t].purpose
      /\ threads'[t].participants = threads[t].participants
      /\ threads'[t].lastMessageAt = stamp[c]
  BY <1>3, <1>4, NoneAssumption DEF Thread
<1>6. Moves(c) /\ pc'[c] = "done"
  BY <1>1, ReturnMoves
<1>7. TypeOK'
  <2>1. threads' \in [Calls -> Thread \cup {None}]
    BY <1>1, <1>2, <1>4 DEF ChatInv, TypeOK
  <2> QED BY <1>1, <1>6, <2>1 DEF ChatInv, TypeOK, Moves
<1>8. ThreadsGrow(c) /\ MessagesGrow(c)
  <2>1. ThreadsGrow(c)
    BY <1>2, <1>4, <1>5 DEF ThreadsGrow, Exists
  <2> QED BY <1>1, <2>1 DEF MessagesGrow
<1>9. ThreadFits(c)'
  <2>1. ~Exists(c) => ThreadFits(c)'
    BY <1>2, <1>4 DEF ThreadFits, Exists
  <2> QED BY <1>6, <1>8, <2>1, FitsKept
<1>10. CallFits(c)'
  BY <1>6, EndedFits
<1>11. MessageFits(c)' /\ MarksAreKept'
  BY <1>1, <1>2, <1>6, <1>8, FitsKept DEF ChatInv, MarksAreKept
<1>12. RacesAreRecorded' /\ ThreadsAreUnique'
  <2>1. \A s \in Calls : threads'[s] # None =>
            Exists(s) /\ threads'[s].purpose = threads[s].purpose
    BY <1>2, <1>4, <1>5 DEF Exists
  <2> QED BY <1>1, <1>6, <2>1, RacesKept DEF Creates
<1>13. \A d \in Calls : Sends(d)' => /\ d # c /\ Sends(d) /\ pc'[d] = pc[d]
                /\ thread'[d] = thread[d] /\ stamp'[d] = stamp[d]
  BY <1>6 DEF Moves, Sends
<1>14. DatesAreOrdered'
  <2>1. ASSUME NEW d \in Calls, NEW e \in Calls, d # e, Sends(d)', Sends(e)',
               thread'[d] = thread'[e]
        PROVE  d \in overlapped'
    BY <1>1, <1>13, <2>1 DEF ChatInv, DatesAreOrdered
  <2>2. ASSUME NEW d \in Calls, NEW m \in Calls, pc'[d] = "save",
               messages'[m] # None, pc'[m] = "done",
               messages'[m].thread = thread'[d], m \notin overlapped'
        PROVE  m \in stamp'[d]
    <3>1. d # c /\ Sends(d) /\ pc[d] = "save"
          /\ thread'[d] = thread[d] /\ stamp'[d] = stamp[d]
      BY <1>13, <2>2 DEF Sends
    <3>2. CASE m = c
      BY <1>1, <1>2, <2>2, <3>1, <3>2 DEF ChatInv, DatesAreOrdered
    <3>3. CASE m # c
      <4>1. pc[m] = "done"
        BY <1>6, <2>2, <3>3 DEF Moves
      <4> QED BY <1>1, <2>2, <3>1, <4>1 DEF ChatInv, DatesAreOrdered
    <3> QED BY <3>2, <3>3
  <2> QED BY <2>1, <2>2 DEF DatesAreOrdered
<1>15. LastMessageIsCovered'
  <2>1. ASSUME NEW m \in Calls, messages'[m] # None, pc'[m] = "done",
               m \notin overlapped'
        PROVE  m \in threads'[messages'[m].thread].lastMessageAt
    <3>1. m # c => pc[m] = "done"
      BY <1>6, <2>1 DEF Moves
    <3>2. messages[m].thread \in Calls
      BY <1>1, <2>1 DEF ChatInv, TypeOK, Message
    <3>3. CASE messages[m].thread = t
      BY <1>1, <1>2, <1>5, <2>1, <3>1, <3>3 DEF ChatInv, DatesAreOrdered
    <3>4. CASE messages[m].thread # t
      BY <1>1, <1>2, <1>4, <2>1, <3>1, <3>2, <3>4
         DEF ChatInv, LastMessageIsCovered
    <3> QED BY <3>3, <3>4
  <2> QED BY <2>1 DEF LastMessageIsCovered
<1> QED BY <1>6, <1>7, <1>8, <1>9, <1>10, <1>11, <1>12, <1>14, <1>15, GrowInv

\* A participant has read what the thread has.
LEMMA MarkReadInv ==
    ASSUME ChatInv, NEW c \in Calls, MarkRead(c) PROVE ChatInv'
<1> DEFINE t == thread[c]
           read == MessagesOf(t)
<1>1. /\ pc[c] = "mark" /\ Return(c, "done")
      /\ messages' = [m \in Calls |->
            IF m \in read THEN ReadBy(messages[m], user[c]) ELSE messages[m]]
      /\ marked' = [marked EXCEPT ![user[c]] = @ \cup read]
      /\ UNCHANGED <<threads, raced, overlapped, addressed>>
  BY DEF MarkRead
<1>2. /\ user[c] \in Users /\ t \in Calls /\ TakesPart(user[c], t)
      /\ messages[c] = None
  BY <1>1 DEF ChatInv, CallFits
<1>3. \A m \in read : m \in Calls /\ messages[m] # None
                        /\ messages[m].thread = t /\ messages[m] \in Message
  BY DEF MessagesOf, ChatInv, TypeOK
<1>4. ASSUME NEW m \in read
      PROVE  /\ messages'[m] \in Message /\ messages'[m] # None
             /\ messages'[m].thread = messages[m].thread
             /\ messages'[m].sender = messages[m].sender
             /\ messages'[m].receiver = messages[m].receiver
             /\ messages'[m].readBy = messages[m].readBy \cup {user[c]}
  <2>1. /\ m \in Calls /\ messages[m] \in Message
        /\ messages'[m] = [messages[m] EXCEPT !.readBy = @ \cup {user[c]}]
    BY <1>1, <1>3 DEF ReadBy
  <2> QED BY <1>2, <2>1, NoneAssumption DEF Message
<1>5. \A m \in Calls \ read : messages'[m] = messages[m]
  BY <1>1
<1>6. Moves(c) /\ pc'[c] = "done"
  BY <1>1, ReturnMoves
<1> HIDE DEF t, read
<1>7. TypeOK'
  <2>1. messages' \in [Calls -> Message \cup {None}]
    <3>1. \A m \in Calls : messages'[m] \in Message \cup {None}
      BY <1>4, <1>5 DEF ChatInv, TypeOK
    <3> QED BY <1>1, <3>1
  <2>2. read \subseteq Calls
    BY <1>3
  <2>3. marked' \in [Users -> SUBSET Calls]
    BY <1>1, <1>2, <2>2 DEF ChatInv, TypeOK
  <2> QED BY <1>1, <1>6, <2>1, <2>3 DEF ChatInv, TypeOK, Moves
<1>8. MessagesGrow(c)
  <2>1. ASSUME NEW m \in read
        PROVE  messages'[m].readBy \subseteq messages[m].readBy
                    \cup threads[messages[m].thread].participants
    BY <1>2, <1>3, <1>4 DEF TakesPart
  <2> QED BY <1>3, <1>4, <1>5, <2>1 DEF MessagesGrow
<1>9. /\ ThreadsGrow(c) /\ ThreadFits(c)' /\ RacesAreRecorded'
      /\ ThreadsAreUnique'
  BY <1>1, <1>6, ThreadsAlone DEF Creates
<1>10. /\ CallFits(c)' /\ MessageFits(c)'
  <2>1. messages'[c] = None
    BY <1>2, <1>3, <1>5
  <2> QED BY <1>6, <2>1, EndedFits DEF MessageFits
<1>11. MarksAreKept'
  <2>1. ASSUME NEW u \in Users, NEW m \in marked'[u]
        PROVE  messages'[m] # None /\ u \in messages'[m].readBy
    <3>1. CASE m \in marked[u]
      BY <1>6, <1>8, <1>9, <3>1, FitsKept DEF ChatInv
    <3>2. CASE m \notin marked[u]
      <4>1. u = user[c] /\ m \in read
        BY <1>1, <1>2, <2>1, <3>2 DEF ChatInv, TypeOK
      <4> QED BY <1>4, <4>1
    <3> QED BY <3>1, <3>2
  <2> QED BY <2>1 DEF MarksAreKept
<1>12. DatesAreOrdered' /\ LastMessageIsCovered'
  <2>1. /\ messages'[c] = None /\ ~Sends(c)'
        /\ \A m \in Calls : messages'[m] # None =>
            messages[m] # None /\ messages'[m].thread = messages[m].thread
    BY <1>2, <1>3, <1>4, <1>5, <1>6 DEF Sends
  <2> QED BY <1>1, <1>6, <2>1, DatesKept
<1> QED BY <1>6, <1>7, <1>8, <1>9, <1>10, <1>11, <1>12, GrowInv

-----------------------------------------------------------------------------
\* Every step keeps the invariant: one case for each action.
LEMMA NextChat == ChatInv /\ [Next]_vars => ChatInv'
<1> SUFFICES ASSUME ChatInv, [Next]_vars PROVE ChatInv'
  OBVIOUS
<1>1. CASE Next
  BY <1>1, BeginInv, CreateThreadInv, JoinGroupInv, InsertMessageInv,
     StampThreadInv, SaveThreadInv, MarkReadInv, AbortInv DEF Next
<1>2. CASE UNCHANGED vars
  <2> USE <1>2 DEF vars, store, locals
  <2>1. TypeOK'
    BY DEF ChatInv, TypeOK
  <2>2. ASSUME NEW c \in Calls
        PROVE  CallFits(c)' /\ ThreadFits(c)' /\ MessageFits(c)'
    <3>1. CallFits(c) /\ ThreadFits(c) /\ MessageFits(c)
      BY DEF ChatInv
    <3>2. CallFits(c)'
      BY <3>1 DEF CallFits, Creates, Sends, TakesPart, Exists, Addressed, Proper
    <3>3. ThreadFits(c)'
      BY <3>1 DEF ThreadFits, Exists, Proper
    <3>4. MessageFits(c)'
      BY <3>1 DEF MessageFits, Exists, Addressed
    <3> QED BY <3>2, <3>3, <3>4
  <2>3. MarksAreKept' /\ RacesAreRecorded' /\ DatesAreOrdered'
    BY DEF ChatInv, MarksAreKept, RacesAreRecorded, DatesAreOrdered,
           Creates, Sends, Exists
  <2>4. ThreadsAreUnique' /\ LastMessageIsCovered'
    BY DEF ChatInv, ThreadsAreUnique, LastMessageIsCovered, Exists
  <2> QED BY <2>1, <2>2, <2>3, <2>4 DEF ChatInv
<1> QED BY <1>1, <1>2

\* The invariant holds of every reachable state.
LEMMA ChatInvariant == Spec => []ChatInv
BY InitChat, NextChat, PTL DEF Spec

\* Threads, messages and calls keep their types (chat.service.ts).
THEOREM ChatTypesHold == Spec => []TypeOK
<1>1. ChatInv => TypeOK
  BY DEF ChatInv
<1> QED BY <1>1, ChatInvariant, PTL

\* Only participants write and read, and a direct thread keeps its two users
\* (ensureParticipant, markRead, resolveThread).
THEOREM OutsidersStayOut == Spec => []MessagesStayAmongParticipants
<1>1. ChatInv => MessagesStayAmongParticipants
  BY DEF ChatInv, MessagesStayAmongParticipants, ThreadFits, MessageFits
<1> QED BY <1>1, ChatInvariant, PTL

\* A message sent to another user, and not by sendMessage into a thread or to a
\* group, is in a thread of the two alone, for any number of users, threads and
\* calls (resolveThread, sendDealerSupportMessage).
THEOREM MessagesArrive == Spec => []AddressedMessagesArrive
<1>1. ChatInv => AddressedMessagesArrive
  BY DEF ChatInv, TypeOK, AddressedMessagesArrive, MessageFits, Addressed
<1> QED BY <1>1, ChatInvariant, PTL

\* Two threads of one purpose come only from calls that met (findOne, create).
THEOREM ThreadsOpenedOnce == Spec => []ThreadsAreUnique
<1>1. ChatInv => ThreadsAreUnique
  BY DEF ChatInv
<1> QED BY <1>1, ChatInvariant, PTL

\* The inbox shows a message that was sent alone, whatever is sent at once
\* before or after it (the thread.save() of sendMessage).
THEOREM InboxIsInOrder == Spec => []LastMessageIsCovered
<1>1. ChatInv => LastMessageIsCovered
  BY DEF ChatInv
<1> QED BY <1>1, ChatInvariant, PTL

\* No read mark is lost, and senders have read what they wrote (markRead).
THEOREM MarksStay == Spec => []ReadMarksAreKept
<1>1. ChatInv => ReadMarksAreKept
  BY DEF ChatInv, ReadMarksAreKept, MarksAreKept, MessageFits
<1> QED BY <1>1, ChatInvariant, PTL

=============================================================================

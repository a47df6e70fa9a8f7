--------------------------- MODULE SupportConsole ---------------------------
(***************************************************************************)
(* Public support end to end: what the service promises (SupportFeed), the *)
(* gateway that announces its messages (src/chat/chat.gateway.ts) and the  *)
(* support panel of an administrator's page (src/admin/admin-ui.ts).  The  *)
(* page hears of messages on its socket, reloads the list of conversations *)
(* for each and fetches the messages of the selected one over HTTP; its    *)
(* requests overlap, overtake each other and fail, and its socket drops.   *)
(***************************************************************************)
EXTENDS SupportFeed, Naturals, SequencesExt

CONSTANT MaxInFlight    \* bound on the page's requests under way

ASSUME MaxInFlightAssumption == MaxInFlight \in Nat \ {0}

\* A request of the page.  A "list" is answered with conversations and
\* "messages" with those of the conversation it is about, as the server read
\* them; a "reply" is answered with the call that serves it.
Request == [kind : {"list", "messages", "reply"},
            about : Visitors \cup {None},
            answer : (SUBSET Visitors) \cup (SUBSET Calls) \cup Calls \cup {None}]

VARIABLES
    wire,           \* announced messages on their way to the page's socket
    connected,      \* whether that socket is connected
    joined,         \* conversations whose room it has asked to join
    supportThreads, \* the list of conversations
    loading,        \* the list is hidden by "Loading chats..."
    selected,       \* selectedSupportThreadId
    shown,          \* supportMessages: how often each message is in it
    http,           \* the page's requests under way, in the order sent
    disturbed,      \* history: a request was overtaken or failed since the
                    \* page last started from rest
    expected        \* history: messages announced to the page and not lost
                    \* on the way, or stored when it asked, while undisturbed

gateway == <<wire, connected, joined>>
view == <<supportThreads, loading, selected, shown>>
page == <<view, http, disturbed, expected>>
consoleVars == <<feed, gateway, page>>

\* The messages of supportMessages after a fetch.
Once(set) == [m \in Calls |-> IF m \in set THEN 1 ELSE 0]

\* The calls that serve replies of the page.
Serving == {http[i].answer : i \in {j \in DOMAIN http : http[j].kind = "reply"}}

\* The histories after a step: whether it disturbs the order of the requests,
\* and the messages the page is to show from now on if it does not.
Record(disturbs, told) ==
    /\ disturbed' = disturbs
    /\ expected' = IF disturbs THEN {} ELSE expected \cup told

\* A page just opened, at any conversations that visitors have opened.
ConsoleInit ==
    /\ FeedInit
    /\ wire = <<>>
    /\ connected = TRUE
    /\ joined = {}
    /\ supportThreads = {}
    /\ loading = FALSE
    /\ selected = None
    /\ shown = Once({})
    /\ http = <<>>
    /\ disturbed = FALSE
    /\ expected = {}

-----------------------------------------------------------------------------
(* The gateway and the socket.                                             *)

\* MUTANT: messages are announced to the conversation's room only.
CopiesOfRoom(v) == IF v \in joined THEN {1} ELSE {0}

\* How many copies of a message reach the page's socket: one through
\* support:admins, and one through the conversation's room if its join, which
\* may still be on its way, has been handled.
Copies(v) == IF v \in joined THEN {1, 2} ELSE {1}

\* handlePublicSupportMessage: the service has answered, two emissions follow.
\* (A reply whose request was lost is not told from one sent on a socket.)
Announce(c) ==
    /\ End(c)
    /\ c \notin Serving
    /\ IF connected
       THEN /\ \E n \in Copies(wrote[c]) :
                   wire' = wire \o [i \in 1 .. n |-> c]
            /\ Record(disturbed, {c})
       ELSE UNCHANGED <<wire, disturbed, expected>>
    /\ UNCHANGED <<connected, joined, view, http>>

\* A call of the HTTP API ends, and nothing is announced.
EndCall(c) ==
    /\ End(c)
    /\ UNCHANGED <<gateway, page>>

\* The socket drops with what is on its way.
Disconnect ==
    /\ connected
    /\ connected' = FALSE
    /\ wire' = <<>>
    /\ joined' = {}
    /\ expected' = expected \ ToSet(wire)
    /\ UNCHANGED <<feed, view, http, disturbed>>

\* handleConnection puts an administrator into support:admins only; joins that
\* the page asked for while the socket was down are sent now.
Reconnect ==
    /\ ~connected
    /\ connected' = TRUE
    /\ UNCHANGED <<feed, wire, joined, page>>

-----------------------------------------------------------------------------
(* The page.                                                               *)

Send(kind, v, pending) ==
    /\ Len(pending) < MaxInFlight
    /\ http' = Append(pending, [kind |-> kind, about |-> v, answer |-> None])

\* From rest, the page starts afresh.
StartFromRest(told) == Record(disturbed /\ http # <<>>, told)

\* loadSupportThreads, up to its request.
LoadSupportThreads(pending) ==
    /\ loading' = TRUE
    /\ Send("list", None, pending)

\* selectSupportThread, up to its request.
SelectSupportThread(v, pending) ==
    /\ loading' = FALSE
    /\ selected' = v
    /\ joined' = joined \cup {v}
    /\ Send("messages", v, pending)

\* MUTANT: a message is pushed without looking for it.
AppendedAgain(m) == [shown EXCEPT ![m] = @ + 1]

\* appendSupportMessage.
Appended(m) == [shown EXCEPT ![m] = IF @ = 0 THEN 1 ELSE @]

\* refreshSupportButton and supportButton.
Refresh ==
    /\ LoadSupportThreads(http)
    /\ StartFromRest(Stored)
    /\ UNCHANGED <<feed, gateway, supportThreads, selected, shown>>

\* The operator clicks on a conversation.
Click(v) ==
    /\ ~loading
    /\ v \in supportThreads
    /\ SelectSupportThread(v, http)
    /\ StartFromRest(MessagesIn(v))
    /\ UNCHANGED <<feed, wire, connected, supportThreads, shown>>

\* sendSupportReply without a socket.  With one the reply is a message to the
\* gateway: an AdminReplies of the service.
Reply ==
    /\ ~connected
    /\ selected # None
    /\ Send("reply", selected, http)
    /\ StartFromRest({})
    /\ UNCHANGED <<feed, gateway, view>>

\* MUTANT: the list is reloaded only for other conversations.
HearWithoutReload ==
    LET m == Head(wire)
    IN  /\ wire # <<>>
        /\ wire' = Tail(wire)
        /\ IF wrote[m] = selected
           THEN shown' = Appended(m) /\ UNCHANGED <<loading, http>>
           ELSE UNCHANGED shown /\ LoadSupportThreads(http)
        /\ StartFromRest(Stored)
        /\ UNCHANGED <<feed, connected, joined, supportThreads, selected>>

\* The listener of support:publicMessage.
Hear ==
    LET m == Head(wire)
    IN  /\ wire # <<>>
        /\ wire' = Tail(wire)
        /\ shown' = IF wrote[m] = selected THEN Appended(m) ELSE shown
        /\ LoadSupportThreads(http)
        /\ StartFromRest(Stored)
        /\ UNCHANGED <<feed, connected, joined, supportThreads, selected>>

-----------------------------------------------------------------------------
(* Requests.                                                               *)

\* A request that was sent earlier is still unserved.
Overtakes(i) == \E j \in 1 .. (i - 1) : http[j].answer = None

Answer(i, answer) ==
    /\ http[i].answer = None
    /\ http' = [http EXCEPT ![i].answer = answer]
    /\ Record(disturbed \/ Overtakes(i), {})

\* getPublicSupportThreadsForAdmin and getPublicSupportMessagesForAdmin.
ServeRead(i) ==
    /\ \/ http[i].kind = "list" /\ Answer(i, opened)
       \/ http[i].kind = "messages" /\ Answer(i, MessagesIn(http[i].about))
    /\ UNCHANGED <<feed, gateway, view>>

\* The reply reaches the service: call c stores it.
ServeReply(i, c) ==
    /\ http[i].kind = "reply"
    /\ Write(c, http[i].about)
    /\ Answer(i, c)
    /\ UNCHANGED <<gateway, view>>

Rest(i) == RemoveAt(http, i)

\* MUTANT: the first conversation is selected, whichever was.
ListArrivesAtFirst(i) ==
    /\ http[i].kind = "list"
    /\ http[i].answer \notin {None, {}}
    /\ supportThreads' = http[i].answer
    /\ \E v \in http[i].answer : SelectSupportThread(v, Rest(i))
    /\ Record(disturbed \/ i > 1, {})
    /\ UNCHANGED <<feed, wire, connected, shown>>

\* MUTANT: a selection that is no longer listed is kept.
ListArrivesKeeping(i) ==
    /\ http[i].kind = "list"
    /\ http[i].answer # None
    /\ supportThreads' = http[i].answer
    /\ \E v \in http[i].answer \cup {selected} :
        /\ v # None
        /\ selected # None => v = selected
        /\ SelectSupportThread(v, Rest(i))
    /\ Record(disturbed \/ i > 1, {})
    /\ UNCHANGED <<feed, wire, connected, shown>>

\* loadSupportThreads goes on with its answer: it selects the conversation
\* that is selected, or else the first, whichever was written to last.
ListArrives(i) ==
    LET listing == http[i].answer
    IN  /\ http[i].kind = "list"
        /\ listing # None
        /\ supportThreads' = listing
        /\ IF listing = {}
           THEN /\ loading' = FALSE
                /\ selected' = None
                /\ shown' = Once({})
                /\ http' = Rest(i)
                /\ UNCHANGED joined
           ELSE /\ \E v \in listing :
                    /\ selected \in listing => v = selected
                    /\ SelectSupportThread(v, Rest(i))
                /\ UNCHANGED shown
        /\ Record(disturbed \/ i > 1, {})
        /\ UNCHANGED <<feed, wire, connected>>

\* MUTANT: what was fetched is added to what is shown.
MessagesArriveBelow(i) ==
    /\ http[i].kind = "messages"
    /\ http[i].answer # None
    /\ shown' = [m \in Calls |-> IF m \in http[i].answer THEN 1 ELSE shown[m]]
    /\ http' = Rest(i)
    /\ Record(disturbed \/ i > 1, {})
    /\ UNCHANGED <<feed, gateway, supportThreads, loading, selected>>

\* MUTANT: the list is loaded again after the messages.
MessagesArriveAndReload(i) ==
    /\ http[i].kind = "messages"
    /\ http[i].answer # None
    /\ shown' = Once(http[i].answer)
    /\ LoadSupportThreads(Rest(i))
    /\ Record(disturbed \/ i > 1, {})
    /\ UNCHANGED <<feed, gateway, supportThreads, selected>>

\* selectSupportThread goes on with its answer, whatever is selected by now.
MessagesArrive(i) ==
    /\ http[i].kind = "messages"
    /\ http[i].answer # None
    /\ shown' = Once(http[i].answer)
    /\ http' = Rest(i)
    /\ Record(disturbed \/ i > 1, {})
    /\ UNCHANGED <<feed, gateway, supportThreads, loading, selected>>

\* sendSupportReply goes on with its answer, whatever is selected by now.
ReplyArrives(i) ==
    LET c == http[i].answer
    IN  /\ http[i].kind = "reply"
        /\ c # None
        /\ c \in answered
        /\ shown' = Appended(c)
        /\ LoadSupportThreads(Rest(i))
        /\ Record(disturbed \/ i > 1, Stored)
        /\ UNCHANGED <<feed, gateway, supportThreads, selected>>

\* The request fails on its way there or back, or its call has failed.
RequestFails(i) ==
    /\ http' = Rest(i)
    /\ Record(TRUE, {})
    /\ UNCHANGED <<feed, gateway, view>>

-----------------------------------------------------------------------------
\* Visitors and other administrators open conversations and write in them.
Others ==
    /\ \E v \in Visitors : Open(v) \/ \E c \in Calls : Write(c, v)
    /\ UNCHANGED <<gateway, page>>

Operate == Refresh \/ Reply \/ \E v \in Visitors : Click(v)

Network ==
    \E i \in DOMAIN http :
        \/ ServeRead(i) \/ \E c \in Calls : ServeReply(i, c)
        \/ ListArrives(i) \/ MessagesArrive(i) \/ ReplyArrives(i)
        \/ RequestFails(i)

ConsoleNext ==
    \/ Others
    \/ \E c \in Calls : EndCall(c) \/ Announce(c)
    \/ Disconnect \/ Reconnect
    \/ Operate \/ Hear \/ Network

ConsoleSpec == ConsoleInit /\ [][ConsoleNext]_consoleVars

\* Announced messages are heard, and every request is answered or fails; nobody
\* has to write, click or connect, and no call has to end.
FairConsoleSpec ==
    /\ ConsoleSpec
    /\ WF_consoleVars(Hear) /\ WF_consoleVars(Network)

-----------------------------------------------------------------------------
(* Properties.                                                             *)

ConsoleTypeOK ==
    /\ opened \subseteq Visitors
    /\ wrote \in [Calls -> opened \cup {None}]
    /\ answered \subseteq Stored
    /\ wire \in Seq(answered)
    /\ connected \in BOOLEAN
    /\ joined \subseteq Visitors
    /\ supportThreads \subseteq opened
    /\ loading \in BOOLEAN
    /\ selected \in supportThreads \cup {None}
    /\ shown \in [Calls -> Nat]
    /\ http \in Seq(Request) /\ Len(http) <= MaxInFlight
    /\ disturbed \in BOOLEAN
    /\ expected \subseteq Stored

\* The page is at rest, and its requests were served and answered in order.
Settled == http = <<>> /\ wire = <<>> /\ ~disturbed

\* A message is never shown twice, though it is announced to two rooms, fetched
\* and returned to its sender (appendSupportMessage).
ShownOnce == \A m \in Calls : shown[m] <= 1

\* A page at rest shows the messages of the selected conversation and no other
\* (selectSupportThread), all of them that were announced to it, whether or not
\* it is in the conversation's room, or were stored when it last asked: no
\* answer of an earlier request takes one away for good, and a message
\* announced while the socket was down is there after the next reload.
ShowsSelected ==
    Settled =>
        /\ ~loading
        /\ \A m \in Calls : shown[m] > 0 => wrote[m] = selected
        /\ \A m \in expected : wrote[m] = selected => shown[m] > 0

\* Only the operator changes the selection, once there is one: no reload of
\* the list takes him to another conversation, if requests keep their order.
SelectionKept ==
    [][selected' # selected =>
        selected = None \/ disturbed' \/ \E v \in Visitors : Click(v)]_consoleVars

\* When the operator stops clicking, the page comes to rest with all that was
\* announced to it, and stays so: its reloads do not set off each other.
ComesToRest ==
    <>[][~Operate]_consoleVars => <>[](http = <<>> /\ wire = <<>>)

=============================================================================

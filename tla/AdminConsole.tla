---------------------------- MODULE AdminConsole ----------------------------
(***************************************************************************)
(* The applications panel of an administrator's page                       *)
(* (src/admin/admin-ui.ts) on top of MerchantOnboarding: the operator      *)
(* filters the list, selects a merchant, reads the details and decides,    *)
(* while merchants submit again and other administrators decide.  The      *)
(* page's requests overlap, overtake each other and fail.                  *)
(***************************************************************************)
EXTENDS MerchantOnboarding, SequencesExt

CONSTANTS
    Operator,       \* the administrator at the page
    Filters,        \* the options of statusFilter that he uses
    MaxInFlight,    \* bound on the page's requests under way
    None            \* an answer that is not there yet

ASSUME OperatorAssumption == Operator \in Admins
ASSUME FiltersAssumption ==
    "underReview" \in Filters /\ Filters \subseteq Status \cup {"all"}
ASSUME MaxInFlightAssumption == MaxInFlight \in Nat \ {0}

\* A request for the list under a filter is answered with merchants, one for
\* the details of a merchant with the status read, a verdict on a merchant
\* with the review that serves it.
Request ==
    [kind : {"list"}, about : Filters, answer : (SUBSET Merchants) \cup {None}]
        \cup [kind : {"detail"}, about : Merchants, answer : Status \cup {None}]
        \cup [kind : Decided, about : Merchants, answer : Reviews \cup {None}]

\* What renderDetail shows.
Detail == [merchant : Merchants, status : Status]

ASSUME NoDetailAssumption == NoMerchant \notin Detail

VARIABLES
    filter,         \* statusFilter
    merchants,      \* the list of merchants
    loading,        \* the list is hidden by "Loading applications..."
    selectedId,     \* the selected merchant, or NoMerchant
    detail,         \* the details rendered, or NoMerchant; they are hidden
                    \* while no merchant is selected
    http,           \* the page's requests under way, in the order sent
    disturbed,      \* history: a request was overtaken or failed since the
                    \* page last asked for the list at rest
    since           \* history: the statuses each application has had since
                    \* the page last asked for the list, while undisturbed

view == <<filter, merchants, loading, selectedId, detail>>
page == <<view, http, disturbed, since>>
consoleVars == <<vars, page>>

Statuses == [m \in Merchants |-> {profile[m].status}]

\* The histories after a step: whether it disturbs the order of the requests,
\* and the statuses if it does not.
Record(disturbs, statuses) ==
    /\ disturbed' = disturbs
    /\ since' = IF disturbs THEN [m \in Merchants |-> {}] ELSE statuses

New(kind, about) == [kind |-> kind, about |-> about, answer |-> None]

\* The page as bootstrap leaves it: the list is on its way.
ConsoleInit ==
    /\ Init
    /\ filter = "underReview"
    /\ merchants = {}
    /\ loading = TRUE
    /\ selectedId = NoMerchant
    /\ detail = NoMerchant
    /\ http = <<New("list", "underReview")>>
    /\ disturbed = FALSE
    /\ since = Statuses

-----------------------------------------------------------------------------
(* The page.                                                               *)

Send(kind, about, pending) ==
    /\ Len(pending) < MaxInFlight
    /\ http' = Append(pending, New(kind, about))

\* loadMerchants, up to its request.
LoadMerchants(option, pending) ==
    /\ loading' = TRUE
    /\ Send("list", option, pending)

\* selectMerchant, up to its request: the details are replaced by "Loading
\* details...".
SelectMerchant(m, pending) ==
    /\ selectedId' = m
    /\ loading' = FALSE
    /\ detail' = NoMerchant
    /\ Send("detail", m, pending)

\* MUTANT: changing the filter filters nothing until the next refresh.
ChooseFilterOnly(option) ==
    /\ filter' = option
    /\ UNCHANGED <<vars, merchants, loading, selectedId, detail, http,
                   disturbed, since>>

\* statusFilter changes, or refreshButton is clicked.
ChooseFilter(option) ==
    /\ filter' = option
    /\ LoadMerchants(option, http)
    /\ Record(disturbed /\ http # <<>>, Statuses)
    /\ UNCHANGED <<vars, merchants, selectedId, detail>>

\* The operator clicks on a merchant.
Click(m) ==
    /\ ~loading
    /\ m \in merchants
    /\ SelectMerchant(m, http)
    /\ UNCHANGED <<vars, filter, merchants, disturbed, since>>

\* approveMerchant and rejectMerchant, on the merchant whose details are shown
\* and whose buttons are enabled.  Neither disables them.
Decide(decision) ==
    /\ selectedId # NoMerchant
    /\ detail # NoMerchant
    /\ detail.status = "underReview"
    /\ Send(decision, detail.merchant, http)
    /\ UNCHANGED <<vars, view, disturbed, since>>

Operate ==
    \/ \E option \in Filters : ChooseFilter(option)
    \/ \E m \in Merchants : Click(m)
    \/ \E decision \in Decided : Decide(decision)

-----------------------------------------------------------------------------
(* Requests.                                                               *)

\* A request that was sent earlier is still unserved.
Overtakes(i) == \E j \in 1 .. (i - 1) : http[j].answer = None

Answer(i, answer) ==
    /\ http[i].answer = None
    /\ http' = [http EXCEPT ![i].answer = answer]
    /\ Record(disturbed \/ Overtakes(i), since)

\* MUTANT: without a filter, every profile is listed.
ListedWithDrafts(option, m) ==
    option = "all" \/ profile[m].status = option

\* listMerchantApplications: without a filter, whatever has been submitted.
Listed(option, m) ==
    IF option = "all" THEN profile[m].status \notin {"none", "draft"}
    ELSE profile[m].status = option

\* The list and the details are read.
ServeRead(i) ==
    LET about == http[i].about
    IN  /\ \/ /\ http[i].kind = "list"
              /\ Answer(i, {m \in Merchants : Listed(about, m)})
           \/ http[i].kind = "detail" /\ Answer(i, profile[about].status)
        /\ UNCHANGED <<vars, view>>

\* A verdict reaches AdminService as review v, which refuses it or takes it up.
\* A rejection of the page names something.
ServeVerdict(i, v) ==
    LET m == http[i].about
        decision == http[i].kind
    IN  /\ decision \in Decided
        /\ \/ RefuseReview(v, m, decision, TRUE)
           \/ BeginReview(v, m, Operator, decision)
        /\ Answer(i, v)
        /\ UNCHANGED view

Rest(i) == RemoveAt(http, i)

\* loadMerchants goes on with its answer: it selects the merchant that is
\* selected, or else the first, whichever submitted last, or nothing.
ListArrives(i) ==
    LET listing == http[i].answer
    IN  /\ http[i].kind = "list"
        /\ listing # None
        /\ merchants' = listing
        /\ IF listing = {}
           THEN /\ loading' = FALSE
                /\ selectedId' = NoMerchant
                /\ detail' = NoMerchant
                /\ http' = Rest(i)
           ELSE \E m \in listing :
                    /\ selectedId \in listing => m = selectedId
                    /\ SelectMerchant(m, Rest(i))
        /\ Record(disturbed \/ i > 1, since)
        /\ UNCHANGED <<vars, filter>>

\* selectMerchant goes on with its answer, whatever is selected by now.
DetailArrives(i) ==
    /\ http[i].kind = "detail"
    /\ http[i].answer # None
    /\ detail' = [merchant |-> http[i].about, status |-> http[i].answer]
    /\ http' = Rest(i)
    /\ Record(disturbed \/ i > 1, since)
    /\ UNCHANGED <<vars, filter, merchants, loading, selectedId>>

\* MUTANT: the page is left as it is after a verdict.
VerdictArrivesOnly(i) ==
    /\ http[i].kind \in Decided
    /\ http[i].answer # None
    /\ pc[http[i].answer] = "done"
    /\ http' = Rest(i)
    /\ Record(disturbed \/ i > 1, Statuses)
    /\ UNCHANGED <<vars, view>>

\* approveMerchant and rejectMerchant go on with their answer.
VerdictArrives(i) ==
    /\ http[i].kind \in Decided
    /\ http[i].answer # None
    /\ pc[http[i].answer] = "done"
    /\ LoadMerchants(filter, Rest(i))
    /\ Record(disturbed \/ i > 1, Statuses)
    /\ UNCHANGED <<vars, filter, merchants, selectedId, detail>>

\* A verdict is refused; the page is left as it is.
VerdictRefused(i) ==
    /\ http[i].kind \in Decided
    /\ http[i].answer # None
    /\ pc[http[i].answer] = "failed"
    /\ http' = Rest(i)
    /\ Record(disturbed \/ i > 1, since)
    /\ UNCHANGED <<vars, view>>

\* A request fails on its way there or back.
RequestFails(i) ==
    /\ http' = Rest(i)
    /\ Record(TRUE, since)
    /\ UNCHANGED <<vars, view>>

Network ==
    \E i \in DOMAIN http :
        \/ ServeRead(i) \/ \E v \in Reviews : ServeVerdict(i, v)
        \/ ListArrives(i) \/ DetailArrives(i)
        \/ VerdictArrives(i) \/ VerdictRefused(i) \/ RequestFails(i)

\* Merchants, other administrators and the handlers.
Others ==
    /\ Next
    /\ Record(disturbed,
              [m \in Merchants |-> since[m] \cup {profile'[m].status}])
    /\ UNCHANGED <<view, http>>

ConsoleNext == Others \/ Operate \/ Network

ConsoleSpec == ConsoleInit /\ [][ConsoleNext]_consoleVars

-----------------------------------------------------------------------------
(* Properties.                                                             *)

\* No request is under way, and the last ones were served and answered in
\* order.
Settled == http = <<>> /\ ~disturbed

ConsoleTypeOK ==
    /\ TypeOK
    /\ filter \in Filters
    /\ merchants \subseteq Merchants
    /\ loading \in BOOLEAN
    /\ selectedId \in merchants \cup {NoMerchant}
    /\ detail \in Detail \cup {NoMerchant}
    /\ http \in Seq(Request) /\ Len(http) <= MaxInFlight
    /\ disturbed \in BOOLEAN
    /\ since \in [Merchants -> SUBSET Status]

\* At rest the page shows the details of the merchant it has selected, under a
\* status the application has had since the list was asked for: the operator
\* decides about the one he sees selected, and once his verdict is answered he
\* is not shown the application as it was before (selectMerchant, approveMerchant
\* and rejectMerchant).
DetailIsCurrent ==
    Settled /\ selectedId # NoMerchant =>
        /\ detail # NoMerchant
        /\ detail.merchant = selectedId
        /\ detail.status \in since[selectedId]

\* The statuses that a filter lets through.
Through(option) ==
    IF option = "all" THEN Status \ {"none", "draft"} ELSE {option}

\* At rest the list is the one of the chosen filter: a merchant in it has had a
\* status of the filter since the list was asked for, one that is not has had
\* another (loadMerchants, listMerchantApplications).
ListIsCurrent ==
    Settled =>
        /\ ~loading
        /\ \A m \in merchants : since[m] \cap Through(filter) # {}
        /\ \A m \in Merchants \ merchants : ~(since[m] \subseteq Through(filter))

=============================================================================

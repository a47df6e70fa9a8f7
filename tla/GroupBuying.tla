---------------------------- MODULE GroupBuying ----------------------------
(***************************************************************************)
(* Group buys of src/sourcing: a dealer opens one on a catalog item with a *)
(* target quantity (SourcingService.createGroupBuy) and merchants join it  *)
(* (SourcingService.joinGroupBuy).  A join reads the document, adds the    *)
(* participant, the quantity and the status in memory, and saves: the      *)
(* participant is pushed, but the quantity is written as the sum computed  *)
(* from the copy that was read.                                            *)
(***************************************************************************)
EXTENDS Integers, Mongoose

CONSTANTS
    GroupBuys,      \* identifiers of group buys
    Joins,          \* calls of joinGroupBuy, one participant each
    Quantities,     \* quantities a merchant may ask for
    Targets,        \* target quantities
    NoBuy           \* the absent document

Status == {"open", "minimum_met", "submitted", "cancelled"}

\* A GroupBuy document.  A participant is named by the join that added it.
GroupBuy ==
    [target : Nat, current : Nat, participants : SUBSET Joins, status : Status]

ASSUME QuantitiesAssumption == Quantities \subseteq Nat \ {0}
ASSUME TargetsAssumption == Targets \subseteq Nat \ {0}
ASSUME NoBuyAssumption == NoBuy \notin GroupBuy

VARIABLES
    groupBuys,      \* the collection
    pc,             \* where each join is
    target,         \* the group buy a join is about
    quantity,       \* the quantity it asks for
    read,           \* the document as it read it
    pooled,         \* history: sum of the quantities of the participants
    contended       \* history: group buys two merchants joined at once

vars == <<groupBuys, pc, target, quantity, read, pooled, contended>>

PC == {"idle", "save", "done", "failed"}

-----------------------------------------------------------------------------
\* MUTANT: the minimum counts as met one unit too early.
StatusOneShort(current, goal) ==
    IF current + 1 >= goal THEN "minimum_met" ELSE "open"

\* MUTANT: the minimum counts as met only when exceeded.
StatusBeyond(current, goal) ==
    IF current > goal THEN "minimum_met" ELSE "open"

\* status as joinGroupBuy computes it.
StatusOf(current, goal) ==
    IF current >= goal THEN "minimum_met" ELSE "open"

\* MUTANT: the participants are written as they were read.
JoinedReplacing(stored, copy, j, q) ==
    [stored EXCEPT
        !.participants = copy.participants \cup {j},
        !.current = copy.current + q,
        !.status = Modified(@, copy.status,
                            StatusOf(copy.current + q, copy.target))]

\* MUTANT: the quantity is the join's own.
JoinedOverwriting(stored, copy, j, q) ==
    [stored EXCEPT
        !.participants = @ \cup {j},
        !.current = q,
        !.status = Modified(@, copy.status, StatusOf(q, copy.target))]

\* The document after groupBuy.save(): $push of the participant, and the
\* paths whose value the handler changed.
Joined(stored, copy, j, q) ==
    [stored EXCEPT
        !.participants = @ \cup {j},
        !.current = Modified(@, copy.current, copy.current + q),
        !.status = Modified(@, copy.status,
                            StatusOf(copy.current + q, copy.target))]

-----------------------------------------------------------------------------
Init ==
    /\ groupBuys = [g \in GroupBuys |-> NoBuy]
    /\ pc = [j \in Joins |-> "idle"]
    /\ target = [j \in Joins |-> NoBuy]
    /\ quantity = [j \in Joins |-> 0]
    /\ read = [j \in Joins |-> NoBuy]
    /\ pooled = [g \in GroupBuys |-> 0]
    /\ contended = {}

CreateGroupBuy(g, goal) ==
    /\ groupBuys[g] = NoBuy
    /\ groupBuys' = [groupBuys EXCEPT ![g] =
                        [target |-> goal, current |-> 0, participants |-> {},
                         status |-> "open"]]
    /\ UNCHANGED <<pc, target, quantity, read, pooled, contended>>

\* What joinGroupBuy accepts.
Joinable(g) == groupBuys[g] # NoBuy /\ groupBuys[g].status # "cancelled"

\* findById finds nothing, or a cancelled group buy: 404.
RefuseJoin(j, g) ==
    /\ pc[j] = "idle"
    /\ ~Joinable(g)
    /\ pc' = [pc EXCEPT ![j] = "failed"]
    /\ UNCHANGED <<groupBuys, target, quantity, read, pooled, contended>>

\* Join k has read group buy g and not saved it yet.
Joining(k, g) == pc[k] = "save" /\ target[k] = g

\* findById returns the group buy; the assignments up to save() follow.
FindGroupBuy(j, g, q) ==
    /\ pc[j] = "idle"
    /\ Joinable(g)
    /\ pc' = [pc EXCEPT ![j] = "save"]
    /\ target' = [target EXCEPT ![j] = g]
    /\ quantity' = [quantity EXCEPT ![j] = q]
    /\ read' = [read EXCEPT ![j] = groupBuys[g]]
    /\ contended' = IF \E k \in Joins : Joining(k, g)
                    THEN contended \cup {g} ELSE contended
    /\ UNCHANGED <<groupBuys, pooled>>

Return(j, outcome) ==
    /\ pc' = [pc EXCEPT ![j] = outcome]
    /\ target' = [target EXCEPT ![j] = NoBuy]
    /\ quantity' = [quantity EXCEPT ![j] = 0]
    /\ read' = [read EXCEPT ![j] = NoBuy]

\* groupBuy.save().
SaveJoin(j) ==
    LET g == target[j]
    IN  /\ pc[j] = "save"
        /\ groupBuys' = [groupBuys EXCEPT ![g] =
                            Joined(@, read[j], j, quantity[j])]
        /\ pooled' = [pooled EXCEPT ![g] = @ + quantity[j]]
        /\ Return(j, "done")
        /\ UNCHANGED contended

\* A database call fails or the instance stops.
Abort(j) ==
    /\ pc[j] = "save"
    /\ Return(j, "failed")
    /\ UNCHANGED <<groupBuys, pooled, contended>>

Next ==
    \/ \E g \in GroupBuys, goal \in Targets : CreateGroupBuy(g, goal)
    \/ \E j \in Joins, g \in GroupBuys : RefuseJoin(j, g)
    \/ \E j \in Joins, g \in GroupBuys, q \in Quantities : FindGroupBuy(j, g, q)
    \/ \E j \in Joins : SaveJoin(j) \/ Abort(j)

Spec == Init /\ [][Next]_vars

-----------------------------------------------------------------------------
(* Properties of every interleaving, with failures at any await.           *)

BuyOrNone == GroupBuy \cup {NoBuy}

Opened(g) == groupBuys[g] # NoBuy

TypeOK ==
    /\ groupBuys \in [GroupBuys -> BuyOrNone]
    /\ pc \in [Joins -> PC]
    /\ target \in [Joins -> GroupBuys \cup {NoBuy}]
    /\ quantity \in [Joins -> Quantities \cup {0}]
    /\ read \in [Joins -> BuyOrNone]
    /\ pooled \in [GroupBuys -> Nat]
    /\ contended \subseteq GroupBuys

\* The quantity shown never exceeds what the participants asked for, and a
\* group buy is reported as met only when they asked for the target
\* (joinGroupBuy, lines 70 to 80).
QuantityIsPooled ==
    \A g \in GroupBuys : Opened(g) =>
        /\ groupBuys[g].current <= pooled[g]
        /\ groupBuys[g].status = "minimum_met" =>
            pooled[g] >= groupBuys[g].target

\* Every join that succeeded is among the participants of a group buy, and
\* no concurrent join removes it.
JoinsAreKept ==
    \A j \in Joins : pc[j] = "done" =>
        \E g \in GroupBuys : Opened(g) /\ j \in groupBuys[g].participants

\* The copy held by a running join is bounded by what has been pooled since.
CopiesArePooled ==
    \A j \in Joins : pc[j] = "save" =>
        LET g == target[j]
        IN  /\ g \in GroupBuys
            /\ Opened(g)
            /\ read[j] \in GroupBuy
            /\ read[j].target = groupBuys[g].target
            /\ read[j].current <= pooled[g]
            /\ read[j].status = "minimum_met" => pooled[g] >= read[j].target

\* Of a group buy that no two merchants joined at once, the quantity is what
\* the participants asked for, and the status follows.
QuantityIsExact ==
    \A g \in GroupBuys \ contended : Opened(g) =>
        /\ groupBuys[g].current = pooled[g]
        /\ (groupBuys[g].status = "minimum_met")
                <=> (pooled[g] >= groupBuys[g].target)

=============================================================================

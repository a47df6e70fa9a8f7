------------------------- MODULE GroupBuyingProofs -------------------------
(***************************************************************************)
(* Proofs about GroupBuying for every number of group buys and joins and   *)
(* all quantities and targets, with any interleaving and any failure.      *)
(***************************************************************************)
EXTENDS GroupBuying, TLAPS

USE DEF Opened

\* The inductive invariant.
PoolInv ==
    /\ TypeOK
    /\ QuantityIsPooled
    /\ JoinsAreKept
    /\ CopiesArePooled

\* Quantities, and the 0 of a join that is not running, are naturals.
LEMMA QuantitiesAreNat == \A q \in Quantities \cup {0} : q \in Nat
BY QuantitiesAssumption

\* What a save leaves in the database.
LEMMA JoinedFacts ==
    ASSUME NEW stored \in GroupBuy, NEW copy \in GroupBuy, NEW j \in Joins,
           NEW q \in Nat
    PROVE  LET new == Joined(stored, copy, j, q)
           IN  /\ new \in GroupBuy
               /\ new.target = stored.target
               /\ new.participants = stored.participants \cup {j}
               /\ new.current \in {stored.current, copy.current + q}
               /\ new.status = "minimum_met" =>
                    \/ stored.status = "minimum_met"
                    \/ copy.current + q >= copy.target
<1> DEFINE current == Modified(stored.current, copy.current, copy.current + q)
           status == Modified(stored.status, copy.status,
                              StatusOf(copy.current + q, copy.target))
<1>1. /\ stored.target \in Nat
      /\ stored.current \in Nat
      /\ stored.participants \in SUBSET Joins
      /\ stored.status \in Status
      /\ copy.current \in Nat
      /\ copy.target \in Nat
  BY DEF GroupBuy
<1>2. current \in Nat /\ current \in {stored.current, copy.current + q}
  BY <1>1 DEF Modified
<1>3. /\ status \in Status
      /\ status = "minimum_met" => \/ stored.status = "minimum_met"
                                   \/ copy.current + q >= copy.target
  BY <1>1 DEF Modified, StatusOf, Status
<1>4. Joined(stored, copy, j, q) =
        [stored EXCEPT !.participants = stored.participants \cup {j},
                       !.current = current, !.status = status]
  BY DEF Joined
<1> HIDE DEF current, status
<1>5. Joined(stored, copy, j, q) =
        [target |-> stored.target, current |-> current,
         participants |-> stored.participants \cup {j}, status |-> status]
  BY <1>4 DEF GroupBuy
<1>6. stored.participants \cup {j} \in SUBSET Joins
  BY <1>1
<1> QED BY <1>1, <1>2, <1>3, <1>5, <1>6 DEF GroupBuy

-----------------------------------------------------------------------------
LEMMA InitPool == Init => PoolInv
<1> SUFFICES ASSUME Init PROVE PoolInv
  OBVIOUS
<1>1. TypeOK
  BY DEF Init, TypeOK, BuyOrNone, PC
<1>2. QuantityIsPooled /\ JoinsAreKept /\ CopiesArePooled
  BY DEF Init, QuantityIsPooled, JoinsAreKept, CopiesArePooled
<1> QED BY <1>1, <1>2 DEF PoolInv

\* A new group buy is empty and touches no other.
LEMMA CreateGroupBuyInv ==
    ASSUME PoolInv, NEW g \in GroupBuys, NEW goal \in Targets,
           CreateGroupBuy(g, goal)
    PROVE  PoolInv'
<1> DEFINE new == [target |-> goal, current |-> 0, participants |-> {},
                   status |-> "open"]
<1>1. new \in GroupBuy /\ new # NoBuy
  BY TargetsAssumption, NoBuyAssumption DEF GroupBuy, Status
<1>2. /\ groupBuys' = [groupBuys EXCEPT ![g] = new]
      /\ groupBuys[g] = NoBuy
      /\ UNCHANGED <<pc, target, quantity, read, pooled, contended>>
  BY DEF CreateGroupBuy
<1>3. TypeOK'
  BY <1>1, <1>2 DEF PoolInv, TypeOK, BuyOrNone
<1>4. \A h \in GroupBuys : groupBuys'[h] = IF h = g THEN new ELSE groupBuys[h]
  BY <1>2 DEF PoolInv, TypeOK
<1>5. QuantityIsPooled'
  <2>1. 0 <= pooled[g]
    BY DEF PoolInv, TypeOK
  <2> QED BY <1>2, <1>4, <2>1 DEF PoolInv, QuantityIsPooled
<1>6. JoinsAreKept'
  BY <1>2, <1>4 DEF PoolInv, JoinsAreKept
<1>7. CopiesArePooled'
  BY <1>1, <1>2, <1>4 DEF PoolInv, CopiesArePooled
<1> QED BY <1>3, <1>5, <1>6, <1>7 DEF PoolInv

\* A copy just read satisfies what holds of the stored document.
LEMMA FindGroupBuyInv ==
    ASSUME PoolInv, NEW j \in Joins, NEW g \in GroupBuys, NEW q \in Quantities,
           FindGroupBuy(j, g, q)
    PROVE  PoolInv'
<1>1. /\ groupBuys[g] # NoBuy
      /\ groupBuys[g] \in GroupBuy
  BY DEF FindGroupBuy, Joinable, PoolInv, TypeOK, BuyOrNone
<1>2. /\ pc' = [pc EXCEPT ![j] = "save"]
      /\ target' = [target EXCEPT ![j] = g]
      /\ quantity' = [quantity EXCEPT ![j] = q]
      /\ read' = [read EXCEPT ![j] = groupBuys[g]]
      /\ UNCHANGED <<groupBuys, pooled>>
      /\ contended' \in {contended, contended \cup {g}}
  BY DEF FindGroupBuy
<1>3. TypeOK'
  BY <1>1, <1>2 DEF PoolInv, TypeOK, PC, BuyOrNone
<1>4. QuantityIsPooled'
  BY <1>2 DEF PoolInv, QuantityIsPooled
<1>5. \A k \in Joins : /\ pc'[k] = "done" => pc[k] = "done"
                       /\ k # j => /\ pc'[k] = pc[k]
                                   /\ target'[k] = target[k]
                                   /\ read'[k] = read[k]
  BY <1>2 DEF PoolInv, TypeOK
<1>6. JoinsAreKept'
  BY <1>2, <1>5 DEF PoolInv, JoinsAreKept
<1>7. target'[j] = g /\ read'[j] = groupBuys[g]
  BY <1>2 DEF PoolInv, TypeOK
<1>8. CopiesArePooled'
  BY <1>1, <1>2, <1>5, <1>7 DEF PoolInv, CopiesArePooled, QuantityIsPooled
<1> QED BY <1>3, <1>4, <1>6, <1>8 DEF PoolInv

\* A join that ends without saving changes no document.
LEMMA EndJoinInv ==
    ASSUME PoolInv, NEW j \in Joins, pc' = [pc EXCEPT ![j] = "failed"],
           \A k \in Joins \ {j} : target'[k] = target[k] /\ read'[k] = read[k],
           UNCHANGED <<groupBuys, pooled>>, TypeOK'
    PROVE  PoolInv'
<1>1. \A k \in Joins : /\ pc'[k] = "done" => pc[k] = "done"
                       /\ pc'[k] = "save" => k # j /\ pc[k] = "save"
  BY DEF PoolInv, TypeOK
<1>2. QuantityIsPooled' /\ JoinsAreKept'
  BY <1>1 DEF PoolInv, QuantityIsPooled, JoinsAreKept
<1>3. CopiesArePooled'
  BY <1>1 DEF PoolInv, CopiesArePooled
<1> QED BY <1>2, <1>3 DEF PoolInv

\* The quantity written is the stored one or the sum of a copy within what
\* was pooled and the quantity now pooled as well.
LEMMA SaveJoinInv ==
    ASSUME PoolInv, NEW j \in Joins, SaveJoin(j)
    PROVE  PoolInv'
<1> DEFINE g == target[j]
           q == quantity[j]
           new == Joined(groupBuys[g], read[j], j, q)
<1>1. /\ pc[j] = "save"
      /\ g \in GroupBuys
      /\ groupBuys[g] # NoBuy
      /\ read[j] \in GroupBuy
      /\ read[j].target = groupBuys[g].target
      /\ read[j].current <= pooled[g]
  BY DEF SaveJoin, PoolInv, CopiesArePooled
<1>2. groupBuys[g] \in GroupBuy
  BY <1>1 DEF PoolInv, TypeOK, BuyOrNone
<1>3. q \in Nat
  <2>1. q \in Quantities \cup {0}
    BY DEF PoolInv, TypeOK
  <2> QED BY <2>1, QuantitiesAreNat
<1> HIDE DEF q
<1>4. /\ new \in GroupBuy
      /\ new.target = groupBuys[g].target
      /\ new.participants = groupBuys[g].participants \cup {j}
      /\ new.current \in {groupBuys[g].current, read[j].current + q}
      /\ new.status = "minimum_met" =>
            \/ groupBuys[g].status = "minimum_met"
            \/ read[j].current + q >= read[j].target
  BY <1>1, <1>2, <1>3, JoinedFacts
<1>5. new # NoBuy
  BY <1>4, NoBuyAssumption
<1>6. /\ groupBuys' = [groupBuys EXCEPT ![g] = new]
      /\ pooled' = [pooled EXCEPT ![g] = pooled[g] + q]
      /\ Return(j, "done")
      /\ UNCHANGED contended
  BY DEF SaveJoin, q
<1> HIDE DEF new
<1>7. /\ groupBuys'[g] = new
      /\ \A h \in GroupBuys \ {g} : groupBuys'[h] = groupBuys[h]
  BY <1>1, <1>6 DEF PoolInv, TypeOK
<1>8. /\ pooled[g] \in Nat
      /\ pooled'[g] = pooled[g] + q
      /\ \A h \in GroupBuys \ {g} : pooled'[h] = pooled[h]
      /\ \A h \in GroupBuys : pooled[h] \in Nat
  BY <1>1, <1>6 DEF PoolInv, TypeOK
<1>9. TypeOK'
  <2>1. /\ groupBuys' \in [GroupBuys -> BuyOrNone]
        /\ contended' \subseteq GroupBuys
    BY <1>4, <1>6 DEF PoolInv, TypeOK, BuyOrNone
  <2>2. pooled' \in [GroupBuys -> Nat]
    BY <1>1, <1>3, <1>6, <1>8 DEF PoolInv, TypeOK
  <2>3. /\ pc' \in [Joins -> PC]
        /\ target' \in [Joins -> GroupBuys \cup {NoBuy}]
        /\ quantity' \in [Joins -> Quantities \cup {0}]
        /\ read' \in [Joins -> BuyOrNone]
    BY <1>6 DEF PoolInv, TypeOK, Return, PC, BuyOrNone
  <2> QED BY <2>1, <2>2, <2>3 DEF TypeOK
<1>10. /\ groupBuys[g].current \in Nat
      /\ read[j].current \in Nat
      /\ read[j].target \in Nat
  BY <1>1, <1>2 DEF GroupBuy
<1>11. QuantityIsPooled'
  <2>1. /\ groupBuys[g].current <= pooled[g]
        /\ groupBuys[g].status = "minimum_met" =>
                pooled[g] >= groupBuys[g].target
    BY <1>1 DEF PoolInv, QuantityIsPooled
  <2>2. new.current <= pooled'[g]
    BY <1>1, <1>3, <1>4, <1>8, <1>10, <2>1
  <2>3. new.status = "minimum_met" => pooled'[g] >= new.target
    BY <1>1, <1>3, <1>4, <1>8, <1>10, <2>1
  <2>4. \A h \in GroupBuys \ {g} : groupBuys'[h] # NoBuy =>
            /\ groupBuys'[h].current <= pooled'[h]
            /\ groupBuys'[h].status = "minimum_met" =>
                    pooled'[h] >= groupBuys'[h].target
    BY <1>7, <1>8 DEF PoolInv, QuantityIsPooled
  <2> QED BY <1>7, <2>2, <2>3, <2>4 DEF QuantityIsPooled
<1>12. \A k \in Joins \ {j} : /\ pc'[k] = pc[k]
                              /\ target'[k] = target[k]
                              /\ read'[k] = read[k]
  BY <1>6 DEF Return, PoolInv, TypeOK
<1>13. JoinsAreKept'
  <2> SUFFICES ASSUME NEW k \in Joins, pc'[k] = "done"
               PROVE  \E h \in GroupBuys : /\ groupBuys'[h] # NoBuy
                                           /\ k \in groupBuys'[h].participants
    BY DEF JoinsAreKept
  <2>1. CASE k = j
    BY <2>1, <1>1, <1>4, <1>5, <1>7
  <2>2. CASE k # j
    <3>1. PICK h \in GroupBuys : /\ groupBuys[h] # NoBuy
                                 /\ k \in groupBuys[h].participants
      BY <2>2, <1>12 DEF PoolInv, JoinsAreKept
    <3>2. CASE h = g
      BY <3>1, <3>2, <1>4, <1>5, <1>7
    <3>3. CASE h # g
      BY <3>1, <3>3, <1>7
    <3> QED BY <3>2, <3>3
  <2> QED BY <2>1, <2>2
<1>14. CopiesArePooled'
  <2> SUFFICES ASSUME NEW k \in Joins, pc'[k] = "save"
               PROVE  /\ target'[k] \in GroupBuys
                      /\ groupBuys'[target'[k]] # NoBuy
                      /\ read'[k] \in GroupBuy
                      /\ read'[k].target = groupBuys'[target'[k]].target
                      /\ read'[k].current <= pooled'[target'[k]]
                      /\ read'[k].status = "minimum_met" =>
                            pooled'[target'[k]] >= read'[k].target
    BY DEF CopiesArePooled
  <2>1. k # j
    BY <1>6 DEF Return, PoolInv, TypeOK
  <2>2. /\ target[k] \in GroupBuys
        /\ groupBuys[target[k]] # NoBuy
        /\ read[k] \in GroupBuy
        /\ read[k].target = groupBuys[target[k]].target
        /\ read[k].current <= pooled[target[k]]
        /\ read[k].status = "minimum_met" =>
                pooled[target[k]] >= read[k].target
    BY <2>1, <1>12 DEF PoolInv, CopiesArePooled
  <2>3. /\ read[k].current \in Nat
        /\ read[k].target \in Nat
    BY <2>2 DEF GroupBuy
  <2>4. CASE target[k] = g
    BY <2>1, <2>2, <2>3, <2>4, <1>3, <1>4, <1>5, <1>7, <1>8, <1>12
  <2>5. CASE target[k] # g
    BY <2>1, <2>2, <2>5, <1>7, <1>8, <1>12
  <2> QED BY <2>4, <2>5
<1> QED BY <1>9, <1>11, <1>13, <1>14 DEF PoolInv

-----------------------------------------------------------------------------
\* Every step preserves the inductive invariant.
LEMMA NextPool == PoolInv /\ [Next]_vars => PoolInv'
<1> SUFFICES ASSUME PoolInv, [Next]_vars PROVE PoolInv'
  OBVIOUS
<1>1. CASE \E g \in GroupBuys, goal \in Targets : CreateGroupBuy(g, goal)
  BY <1>1, CreateGroupBuyInv
<1>2. ASSUME NEW j \in Joins, NEW g \in GroupBuys, RefuseJoin(j, g)
      PROVE  PoolInv'
  <2>1. TypeOK'
    BY <1>2 DEF PoolInv, TypeOK, RefuseJoin, PC
  <2> QED BY <1>2, <2>1, EndJoinInv DEF RefuseJoin
<1>3. CASE \E j \in Joins, g \in GroupBuys, q \in Quantities :
                FindGroupBuy(j, g, q)
  BY <1>3, FindGroupBuyInv
<1>4. CASE \E j \in Joins : SaveJoin(j)
  BY <1>4, SaveJoinInv
<1>5. ASSUME NEW j \in Joins, Abort(j)
      PROVE  PoolInv'
  <2>1. TypeOK'
    BY <1>5 DEF PoolInv, TypeOK, Abort, Return, PC, BuyOrNone
  <2>2. \A k \in Joins \ {j} : target'[k] = target[k] /\ read'[k] = read[k]
    BY <1>5 DEF PoolInv, TypeOK, Abort, Return
  <2> QED BY <1>5, <2>1, <2>2, EndJoinInv DEF Abort, Return
<1>6. CASE UNCHANGED vars
  BY <1>6 DEF vars, PoolInv, TypeOK, QuantityIsPooled, JoinsAreKept,
     CopiesArePooled
<1> QED BY <1>1, <1>2, <1>3, <1>4, <1>5, <1>6 DEF Next

\* The inductive invariant holds in every reachable state.
THEOREM PoolInvariant == Spec => []PoolInv
<1>1. Init => PoolInv
  BY InitPool
<1>2. PoolInv /\ [Next]_vars => PoolInv'
  BY NextPool
<1> QED BY <1>1, <1>2, PTL DEF Spec

\* No interleaving shows a quantity nobody asked for, or reports a minimum
\* that the participants have not reached together.
THEOREM QuantityNeverExceedsPool == Spec => []QuantityIsPooled
<1>1. PoolInv => QuantityIsPooled
  BY DEF PoolInv
<1> QED BY <1>1, PoolInvariant, PTL

\* No concurrent join removes a participant.
THEOREM ParticipantsAreKept == Spec => []JoinsAreKept
<1>1. PoolInv => JoinsAreKept
  BY DEF PoolInv
<1> QED BY <1>1, PoolInvariant, PTL

-----------------------------------------------------------------------------
(* Exactness where no two joins met.                                       *)

\* A join that meets no other holds the document as it is stored, alone;
\* nothing is pooled where no group buy is open.
JoinsAlone ==
    /\ \A g \in GroupBuys : ~Opened(g) => pooled[g] = 0
    /\ \A j \in Joins : (pc[j] = "save" /\ target[j] \notin contended) =>
            /\ read[j] = groupBuys[target[j]]
            /\ \A k \in Joins \ {j} : pc[k] = "save" => target[k] # target[j]

ExactInv == PoolInv /\ JoinsAlone /\ QuantityIsExact

\* Saving a copy that is still what is stored adds the quantity, and the
\* status follows.
LEMMA JoinedExactly ==
    ASSUME NEW stored \in GroupBuy, NEW j \in Joins, NEW q \in Nat
    PROVE  LET new == Joined(stored, stored, j, q)
           IN  /\ new.target = stored.target
               /\ new.current = stored.current + q
               /\ new.status = StatusOf(stored.current + q, stored.target)
<1> DEFINE current == Modified(stored.current, stored.current,
                               stored.current + q)
           status == Modified(stored.status, stored.status,
                              StatusOf(stored.current + q, stored.target))
<1>1. /\ current = stored.current + q
      /\ status = StatusOf(stored.current + q, stored.target)
  BY DEF Modified, GroupBuy
<1>2. Joined(stored, stored, j, q) =
        [stored EXCEPT !.participants = stored.participants \cup {j},
                       !.current = current, !.status = status]
  BY DEF Joined
<1> HIDE DEF current, status
<1> QED BY <1>1, <1>2 DEF GroupBuy

LEMMA ExactInit == Init => JoinsAlone /\ QuantityIsExact
BY DEF Init, JoinsAlone, QuantityIsExact

\* Every step keeps the copies of lonely joins current and their group buys
\* exact.
LEMMA ExactNext == ExactInv /\ PoolInv' /\ [Next]_vars => ExactInv'
<1> SUFFICES ASSUME ExactInv, PoolInv', [Next]_vars
             PROVE  JoinsAlone' /\ QuantityIsExact'
  BY DEF ExactInv
<1>0. TypeOK /\ JoinsAlone /\ QuantityIsExact /\ CopiesArePooled
  BY DEF ExactInv, PoolInv
<1>1. ASSUME NEW g \in GroupBuys, NEW goal \in Targets, CreateGroupBuy(g, goal)
      PROVE  JoinsAlone' /\ QuantityIsExact'
  <2> DEFINE new == [target |-> goal, current |-> 0, participants |-> {},
                     status |-> "open"]
  <2>1. /\ groupBuys' = [groupBuys EXCEPT ![g] = new]
        /\ groupBuys[g] = NoBuy
        /\ UNCHANGED <<pc, target, read, pooled, contended>>
    BY <1>1 DEF CreateGroupBuy
  <2>2. \A h \in GroupBuys : groupBuys'[h] = IF h = g THEN new ELSE groupBuys[h]
    BY <1>0, <2>1 DEF TypeOK
  <2>3. JoinsAlone'
    BY <1>0, <1>1, <2>1, <2>2, NoBuyAssumption DEF JoinsAlone, CopiesArePooled
  <2>4. QuantityIsExact'
    <3>1. goal \in Nat /\ goal > 0 /\ pooled[g] = 0
      BY <1>0, <2>1, TargetsAssumption DEF JoinsAlone
    <3> QED BY <1>0, <2>1, <2>2, <3>1 DEF QuantityIsExact
  <2> QED BY <2>3, <2>4
<1>2. ASSUME NEW j \in Joins, UNCHANGED <<groupBuys, pooled, contended>>,
             pc' = [pc EXCEPT ![j] = "failed"],
             \A k \in Joins \ {j} : target'[k] = target[k] /\ read'[k] = read[k]
      PROVE  JoinsAlone' /\ QuantityIsExact'
  <2>1. \A k \in Joins : pc'[k] = "save" => k # j /\ pc[k] = "save"
    BY <1>0, <1>2 DEF TypeOK
  <2> QED BY <1>0, <1>2, <2>1 DEF JoinsAlone, QuantityIsExact
<1>3. ASSUME NEW j \in Joins, NEW g \in GroupBuys, NEW q \in Quantities,
             FindGroupBuy(j, g, q)
      PROVE  JoinsAlone' /\ QuantityIsExact'
  <2>1. /\ pc' = [pc EXCEPT ![j] = "save"]
        /\ target' = [target EXCEPT ![j] = g]
        /\ read' = [read EXCEPT ![j] = groupBuys[g]]
        /\ pc[j] = "idle"
        /\ UNCHANGED <<groupBuys, pooled>>
        /\ contended' = IF \E k \in Joins : Joining(k, g)
                        THEN contended \cup {g} ELSE contended
    BY <1>3 DEF FindGroupBuy
  <2>2. \A k \in Joins : k # j => /\ pc'[k] = pc[k]
                                  /\ target'[k] = target[k]
                                  /\ read'[k] = read[k]
    BY <1>0, <2>1 DEF TypeOK
  <2>3. target'[j] = g /\ read'[j] = groupBuys[g]
    BY <1>0, <2>1 DEF TypeOK
  <2>4. contended \subseteq contended'
    BY <2>1
  <2>5. g \notin contended' => \A k \in Joins \ {j} :
            pc[k] = "save" => target[k] # g
    BY <2>1 DEF Joining
  <2>6. JoinsAlone'
    BY <1>0, <2>1, <2>2, <2>3, <2>4, <2>5 DEF JoinsAlone
  <2>7. QuantityIsExact'
    BY <1>0, <2>1, <2>4 DEF QuantityIsExact
  <2> QED BY <2>6, <2>7
<1>4. ASSUME NEW j \in Joins, SaveJoin(j)
      PROVE  JoinsAlone' /\ QuantityIsExact'
  <2> DEFINE g == target[j]
             q == quantity[j]
             new == Joined(groupBuys[g], read[j], j, q)
  <2>1. /\ pc[j] = "save"
        /\ g \in GroupBuys
        /\ groupBuys[g] # NoBuy
    BY <1>0, <1>4 DEF SaveJoin, CopiesArePooled
  <2>2. groupBuys[g] \in GroupBuy
    BY <1>0, <2>1 DEF TypeOK, BuyOrNone
  <2>3. q \in Nat
    <3>1. q \in Quantities \cup {0}
      BY <1>0 DEF TypeOK
    <3> QED BY <3>1, QuantitiesAreNat
  <2>4. /\ groupBuys' = [groupBuys EXCEPT ![g] = new]
        /\ pooled' = [pooled EXCEPT ![g] = pooled[g] + q]
        /\ Return(j, "done")
        /\ UNCHANGED contended
    BY <1>4 DEF SaveJoin
  <2>5. \A k \in Joins : pc'[k] = "save" =>
            /\ k # j
            /\ pc[k] = "save"
            /\ target'[k] = target[k]
            /\ read'[k] = read[k]
    BY <1>0, <2>4 DEF Return, TypeOK
  <2>6. g \notin contended =>
            /\ read[j] = groupBuys[g]
            /\ \A k \in Joins \ {j} : pc[k] = "save" => target[k] # g
    BY <1>0, <2>1 DEF JoinsAlone
  <2>7. new # NoBuy
    <3>1. read[j] \in GroupBuy
      BY <1>0, <2>1 DEF CopiesArePooled
    <3>2. new \in GroupBuy
      BY <2>2, <2>3, <3>1, JoinedFacts
    <3> QED BY <3>2, NoBuyAssumption
  <2> HIDE DEF q, new
  <2>8. /\ groupBuys'[g] = new
        /\ pooled'[g] = pooled[g] + q
        /\ \A h \in GroupBuys \ {g} : /\ groupBuys'[h] = groupBuys[h]
                                      /\ pooled'[h] = pooled[h]
    BY <1>0, <2>1, <2>4 DEF TypeOK
  <2>9. JoinsAlone'
    <3>0. \A h \in GroupBuys : groupBuys'[h] = NoBuy => pooled'[h] = 0
      BY <1>0, <2>7, <2>8 DEF JoinsAlone
    <3> SUFFICES ASSUME NEW k \in Joins, pc'[k] = "save",
                        target'[k] \notin contended'
                 PROVE  /\ read'[k] = groupBuys'[target'[k]]
                        /\ \A i \in Joins \ {k} :
                                pc'[i] = "save" => target'[i] # target'[k]
      BY <3>0 DEF JoinsAlone
    <3>1. /\ k # j
          /\ pc[k] = "save"
          /\ target'[k] = target[k]
          /\ read'[k] = read[k]
          /\ target[k] \notin contended
          /\ target[k] \in GroupBuys
      BY <1>0, <2>4, <2>5 DEF CopiesArePooled
    <3>2. /\ read[k] = groupBuys[target[k]]
          /\ \A i \in Joins \ {k} : pc[i] = "save" => target[i] # target[k]
      BY <1>0, <3>1 DEF JoinsAlone
    <3>3. target[k] # g
      BY <2>1, <3>1, <3>2
    <3> QED BY <2>5, <2>8, <3>1, <3>2, <3>3
  <2>10. QuantityIsExact'
    <3> SUFFICES ASSUME NEW h \in GroupBuys \ contended, groupBuys'[h] # NoBuy
                 PROVE  /\ groupBuys'[h].current = pooled'[h]
                        /\ (groupBuys'[h].status = "minimum_met")
                              <=> (pooled'[h] >= groupBuys'[h].target)
      BY <2>4 DEF QuantityIsExact
    <3>1. CASE h # g
      BY <1>0, <2>8, <3>1 DEF QuantityIsExact
    <3>2. CASE h = g
      <4>1. groupBuys[g].current = pooled[g]
        BY <1>0, <2>1, <3>2 DEF QuantityIsExact
      <4>2. new = Joined(groupBuys[g], groupBuys[g], j, q)
        BY <2>6, <3>2 DEF new
      <4>3. /\ new.target = groupBuys[g].target
            /\ new.current = groupBuys[g].current + q
            /\ new.status = StatusOf(groupBuys[g].current + q,
                                     groupBuys[g].target)
        BY <2>2, <2>3, <4>2, JoinedExactly
      <4> QED BY <2>8, <3>2, <4>1, <4>3 DEF StatusOf
    <3> QED BY <3>1, <3>2
  <2> QED BY <2>9, <2>10
<1>5. ASSUME NEW j \in Joins, NEW g \in GroupBuys, RefuseJoin(j, g)
      PROVE  JoinsAlone' /\ QuantityIsExact'
  BY <1>2, <1>5 DEF RefuseJoin
<1>6. ASSUME NEW j \in Joins, Abort(j)
      PROVE  JoinsAlone' /\ QuantityIsExact'
  <2>1. \A k \in Joins \ {j} : target'[k] = target[k] /\ read'[k] = read[k]
    BY <1>0, <1>6 DEF TypeOK, Abort, Return
  <2> QED BY <1>2, <1>6, <2>1 DEF Abort, Return
<1>7. CASE UNCHANGED vars
  BY <1>0, <1>7 DEF vars, JoinsAlone, QuantityIsExact
<1> QED BY <1>1, <1>3, <1>4, <1>5, <1>6, <1>7 DEF Next

\* A group buy that no two merchants joined at once shows exactly what its
\* participants asked for, failures included.
THEOREM QuantityExactUnlessContended == Spec => []QuantityIsExact
<1>1. Init => JoinsAlone /\ QuantityIsExact
  BY ExactInit
<1>2. ExactInv /\ PoolInv' /\ [Next]_vars => ExactInv'
  BY ExactNext
<1>3. ExactInv => QuantityIsExact
  BY DEF ExactInv
<1>4. PoolInv /\ JoinsAlone /\ QuantityIsExact => ExactInv
  BY DEF ExactInv
<1> QED BY <1>1, <1>2, <1>3, <1>4, PoolInvariant, PTL DEF Spec

=============================================================================

-------------------------- MODULE StorefrontProofs --------------------------
(***************************************************************************)
(* Proofs about Storefront for every number of merchants, products and     *)
(* calls, all stocks and thresholds, any interleaving and any failure.     *)
(***************************************************************************)
EXTENDS Storefront, FiniteSetTheorems, TLAPS

\* The locals of a running call are there.
RunningCallsAreTyped ==
    \A c \in Calls : pc[c] \in {"write", "check", "insert"} =>
        /\ merchant[c] \in Merchants
        /\ product[c] \in Products
        /\ figures[c] \in Figures

\* A call that has written its product goes on with figures that the product
\* had, on behalf of its merchant, and inserts an alert only when they are low.
WrittenFiguresHold ==
    \A c \in Calls : pc[c] \in {"check", "insert"} =>
        /\ figures[c] \in had[product[c]]
        /\ products[product[c]] # None
        /\ merchant[c] = products[product[c]].merchant
        /\ pc[c] = "insert" => Low(figures[c])

\* The inductive invariant.
AlertInv ==
    /\ TypeOK
    /\ RunningCallsAreTyped
    /\ WrittenFiguresHold
    /\ AlertsWereTrue

-----------------------------------------------------------------------------
LEMMA InitAlerts == Init => AlertInv
<1> SUFFICES ASSUME Init PROVE AlertInv
  OBVIOUS
<1>1. TypeOK
  BY DEF Init, TypeOK, PC
<1>2. RunningCallsAreTyped /\ WrittenFiguresHold /\ AlertsWereTrue
  BY DEF Init, RunningCallsAreTyped, WrittenFiguresHold, AlertsWereTrue
<1> QED BY <1>1, <1>2 DEF AlertInv

\* The end of a call keeps every other call as it was.
LEMMA ReturnKeepsCalls ==
    ASSUME AlertInv, NEW c \in Calls, NEW outcome \in {"done", "failed"},
           Return(c, outcome), products' = products, had' = had
    PROVE  /\ pc' \in [Calls -> PC]
           /\ merchant' \in [Calls -> Merchants \cup {None}]
           /\ product' \in [Calls -> Products \cup {None}]
           /\ figures' \in [Calls -> Figures \cup {None}]
           /\ RunningCallsAreTyped'
           /\ WrittenFiguresHold'
<1>1. /\ pc' \in [Calls -> PC]
      /\ merchant' \in [Calls -> Merchants \cup {None}]
      /\ product' \in [Calls -> Products \cup {None}]
      /\ figures' \in [Calls -> Figures \cup {None}]
  BY DEF AlertInv, TypeOK, Return, PC
<1>2. ASSUME NEW d \in Calls, pc'[d] \in {"write", "check", "insert"}
      PROVE  /\ d # c
             /\ pc'[d] = pc[d]
             /\ merchant'[d] = merchant[d]
             /\ product'[d] = product[d]
             /\ figures'[d] = figures[d]
  BY <1>2 DEF AlertInv, TypeOK, Return
<1>3. RunningCallsAreTyped'
  BY <1>2 DEF AlertInv, RunningCallsAreTyped
<1>4. WrittenFiguresHold'
  BY <1>2 DEF AlertInv, WrittenFiguresHold, Low
<1> QED BY <1>1, <1>3, <1>4

\* An alert of a running call that found its product low is true.
LEMMA NewAlertIsTrue ==
    ASSUME AlertInv, NEW c \in Calls, pc[c] \in {"check", "insert"},
           Low(figures[c])
    PROVE  /\ AlertOf(c) \in StockAlert
           /\ WasTrue(AlertOf(c))
<1>1. /\ merchant[c] \in Merchants
      /\ product[c] \in Products
      /\ figures[c] \in Figures
  BY DEF AlertInv, RunningCallsAreTyped
<1>2. AlertOf(c) \in StockAlert
  BY <1>1 DEF AlertOf, StockAlert
<1>3. WasTrue(AlertOf(c))
  BY DEF AlertInv, WrittenFiguresHold, WasTrue, AlertOf, Low
<1> QED BY <1>2, <1>3

\* Replacing one alert by a true one keeps all alerts true.
LEMMA WriteAlertKeepsTruth ==
    ASSUME AlertInv, NEW a \in Calls, NEW new \in StockAlert, WasTrue(new),
           alerts' = [alerts EXCEPT ![a] = new],
           products' = products, had' = had
    PROVE  /\ alerts' \in [Calls -> StockAlert \cup {None}]
           /\ AlertsWereTrue'
<1>1. alerts' \in [Calls -> StockAlert \cup {None}]
  BY DEF AlertInv, TypeOK
<1>2. ASSUME NEW b \in Calls, alerts'[b] # None
      PROVE  WasTrue(alerts[b])'
  <2>1. CASE b = a
    BY <2>1 DEF AlertInv, TypeOK, WasTrue
  <2>2. CASE b # a
    BY <1>2, <2>2 DEF AlertInv, TypeOK, AlertsWereTrue, WasTrue
  <2> QED BY <2>1, <2>2
<1> QED BY <1>1, <1>2 DEF AlertsWereTrue

-----------------------------------------------------------------------------
\* Writing a product keeps its merchant and adds to the figures it had.
LEMMA WriteProductInv ==
    ASSUME AlertInv, NEW c \in Calls, WriteProduct(c)
    PROVE  AlertInv'
<1> DEFINE p == product[c]
           new == [merchant |-> merchant[c], figures |-> figures[c]]
<1>1. /\ p \in Products
      /\ merchant[c] \in Merchants
      /\ figures[c] \in Figures
      /\ new \in Product
      /\ new # None
  BY NoneAssumption DEF AlertInv, RunningCallsAreTyped, WriteProduct, Product
<1>2. /\ products' = [products EXCEPT ![p] = new]
      /\ had' = [had EXCEPT ![p] = @ \cup {figures[c]}]
      /\ pc' = [pc EXCEPT ![c] = "check"]
      /\ missed' = missed \cup {p}
      /\ pc[c] = "write"
      /\ products[p] # None => products[p].merchant = merchant[c]
      /\ UNCHANGED <<stores, alerts, merchant, product, figures, contended>>
  BY DEF WriteProduct, MayWrite
<1> HIDE DEF new
<1>3. TypeOK'
  BY <1>1, <1>2 DEF AlertInv, TypeOK, PC
<1>4. RunningCallsAreTyped'
  BY <1>1, <1>2 DEF AlertInv, TypeOK, RunningCallsAreTyped
<1>5. \A q \in Products :
        /\ had[q] \subseteq had'[q]
        /\ products[q] # None =>
            products'[q] # None /\ products'[q].merchant = products[q].merchant
  BY <1>1, <1>2 DEF AlertInv, TypeOK, new
<1>6. /\ figures[c] \in had'[p]
      /\ products'[p] # None
      /\ products'[p].merchant = merchant[c]
  BY <1>1, <1>2 DEF AlertInv, TypeOK, new
<1>7. WrittenFiguresHold'
  <2> SUFFICES ASSUME NEW d \in Calls, pc'[d] \in {"check", "insert"}
               PROVE  /\ figures'[d] \in had'[product'[d]]
                      /\ products'[product'[d]] # None
                      /\ merchant'[d] = products'[product'[d]].merchant
                      /\ pc'[d] = "insert" => Low(figures'[d])
    BY DEF WrittenFiguresHold, Low
  <2>1. CASE d = c
    BY <1>2, <1>6, <2>1 DEF AlertInv, TypeOK
  <2>2. CASE d # c
    <3>1. pc[d] \in {"check", "insert"} /\ pc'[d] = pc[d] /\ product[d] \in Products
      BY <1>2, <2>2 DEF AlertInv, TypeOK, RunningCallsAreTyped
    <3> QED BY <1>2, <1>5, <3>1 DEF AlertInv, WrittenFiguresHold
  <2> QED BY <2>1, <2>2
<1>8. AlertsWereTrue'
  <2> SUFFICES ASSUME NEW a \in Calls, alerts'[a] # None
               PROVE  WasTrue(alerts[a])'
    BY DEF AlertsWereTrue
  <2>1. alerts'[a] = alerts[a] /\ WasTrue(alerts[a]) /\ alerts[a].product \in Products
    BY <1>2 DEF AlertInv, TypeOK, AlertsWereTrue, StockAlert
  <2> QED BY <1>2, <1>5, <2>1 DEF WasTrue
<1> QED BY <1>3, <1>4, <1>7, <1>8 DEF AlertInv

\* A call that only ends or resolves alerts.
LEMMA EndsInv ==
    ASSUME AlertInv, NEW c \in Calls,
           RefuseProduct(c) \/ Abort(c) \/ ResolveAlerts(c)
    PROVE  AlertInv'
<1>1. /\ products' = products /\ had' = had /\ stores' = stores
      /\ contended' = contended /\ missed' \subseteq missed
      /\ \E outcome \in {"done", "failed"} : Return(c, outcome)
  BY DEF RefuseProduct, Abort, ResolveAlerts, EndCheck, store
<1>2. /\ pc' \in [Calls -> PC]
      /\ merchant' \in [Calls -> Merchants \cup {None}]
      /\ product' \in [Calls -> Products \cup {None}]
      /\ figures' \in [Calls -> Figures \cup {None}]
      /\ RunningCallsAreTyped' /\ WrittenFiguresHold'
  BY <1>1, ReturnKeepsCalls
<1>3. ASSUME NEW a \in Calls
      PROVE  \/ alerts'[a] = alerts[a]
             \/ /\ alerts[a] # None
                /\ alerts'[a] = [alerts[a] EXCEPT !.resolved = TRUE]
  BY <1>3 DEF RefuseProduct, Abort, ResolveAlerts, EndCheck, store, OpenAlerts
<1>4. /\ DOMAIN alerts' = Calls
      /\ alerts' = [a \in Calls |-> alerts'[a]]
  BY DEF AlertInv, TypeOK, RefuseProduct, Abort, ResolveAlerts, store
<1>5. ASSUME NEW a \in Calls
      PROVE  /\ alerts'[a] \in StockAlert \cup {None}
             /\ alerts'[a] # None =>
                /\ alerts[a] # None
                /\ alerts'[a].figures = alerts[a].figures
                /\ alerts'[a].product = alerts[a].product
                /\ alerts'[a].merchant = alerts[a].merchant
  <2>1. alerts[a] \in StockAlert \cup {None}
    BY DEF AlertInv, TypeOK
  <2>2. CASE alerts'[a] = alerts[a]
    BY <2>1, <2>2
  <2>3. CASE /\ alerts[a] # None
             /\ alerts'[a] = [alerts[a] EXCEPT !.resolved = TRUE]
    BY <2>1, <2>3 DEF StockAlert
  <2> QED BY <1>3, <2>2, <2>3
<1>6. TypeOK'
  BY <1>1, <1>2, <1>4, <1>5 DEF AlertInv, TypeOK
<1>7. AlertsWereTrue'
  BY <1>1, <1>5 DEF AlertInv, AlertsWereTrue, WasTrue
<1> QED BY <1>2, <1>6, <1>7 DEF AlertInv

\* A call that writes its own figures into an alert, old or new.
LEMMA WriteAlertInv ==
    ASSUME AlertInv, NEW c \in Calls, UpdateAlert(c) \/ InsertAlert(c)
    PROVE  AlertInv'
<1>1. pc[c] \in {"check", "insert"} /\ Low(figures[c])
  BY DEF AlertInv, UpdateAlert, InsertAlert, WrittenFiguresHold
<1>2. AlertOf(c) \in StockAlert /\ WasTrue(AlertOf(c))
  BY <1>1, NewAlertIsTrue
<1>3. /\ products' = products /\ had' = had /\ stores' = stores
      /\ contended' = contended /\ missed' \subseteq missed
      /\ Return(c, "done")
  BY DEF UpdateAlert, InsertAlert, EndCheck
<1>4. PICK a \in Calls : alerts' = [alerts EXCEPT ![a] = AlertOf(c)]
  BY DEF UpdateAlert, InsertAlert, OpenAlerts
<1>5. /\ pc' \in [Calls -> PC]
      /\ merchant' \in [Calls -> Merchants \cup {None}]
      /\ product' \in [Calls -> Products \cup {None}]
      /\ figures' \in [Calls -> Figures \cup {None}]
      /\ RunningCallsAreTyped' /\ WrittenFiguresHold'
  BY <1>3, ReturnKeepsCalls
<1>6. alerts' \in [Calls -> StockAlert \cup {None}] /\ AlertsWereTrue'
  BY <1>2, <1>3, <1>4, WriteAlertKeepsTruth
<1>7. TypeOK'
  BY <1>3, <1>5, <1>6 DEF AlertInv, TypeOK
<1> QED BY <1>5, <1>6, <1>7 DEF AlertInv

\* A call that starts, is refused at once, or goes on to insert an alert.
LEMMA LocalStepInv ==
    ASSUME AlertInv, NEW c \in Calls,
           \/ \E m \in Merchants : RefuseWithoutStore(c, m)
           \/ \E m \in Merchants, p \in Products, f \in Figures :
                FindStore(c, m, p, f)
           \/ FindNoAlert(c)
    PROVE  AlertInv'
<1>1. UNCHANGED <<stores, products, alerts, had, missed>>
  BY DEF RefuseWithoutStore, FindStore, FindNoAlert, store
<1>2. AlertsWereTrue'
  BY <1>1 DEF AlertInv, AlertsWereTrue, WasTrue
<1>3. CASE \E m \in Merchants : RefuseWithoutStore(c, m)
  <2>1. TypeOK'
    BY <1>1, <1>3 DEF AlertInv, TypeOK, RefuseWithoutStore, PC
  <2>2. RunningCallsAreTyped' /\ WrittenFiguresHold'
    BY <1>1, <1>3 DEF AlertInv, TypeOK, RefuseWithoutStore,
        RunningCallsAreTyped, WrittenFiguresHold, Low
  <2> QED BY <1>2, <2>1, <2>2 DEF AlertInv
<1>4. CASE FindNoAlert(c)
  <2>1. TypeOK'
    BY <1>1, <1>4 DEF AlertInv, TypeOK, FindNoAlert, PC
  <2>2. RunningCallsAreTyped'
    BY <1>1, <1>4 DEF AlertInv, TypeOK, FindNoAlert, RunningCallsAreTyped
  <2>3. WrittenFiguresHold'
    BY <1>1, <1>4 DEF AlertInv, TypeOK, FindNoAlert, WrittenFiguresHold, Low
  <2> QED BY <1>2, <2>1, <2>2, <2>3 DEF AlertInv
<1>5. ASSUME NEW m \in Merchants, NEW p \in Products, NEW f \in Figures,
             FindStore(c, m, p, f)
      PROVE  AlertInv'
  <2>1. /\ pc' = [pc EXCEPT ![c] = "write"]
        /\ merchant' = [merchant EXCEPT ![c] = m]
        /\ product' = [product EXCEPT ![c] = p]
        /\ figures' = [figures EXCEPT ![c] = f]
        /\ contended' \subseteq contended \cup {p}
    BY <1>5 DEF FindStore
  <2>2. TypeOK'
    BY <1>1, <2>1 DEF AlertInv, TypeOK, PC
  <2>3. RunningCallsAreTyped'
    BY <2>1 DEF AlertInv, TypeOK, RunningCallsAreTyped
  <2>4. WrittenFiguresHold'
    BY <1>1, <2>1 DEF AlertInv, TypeOK, WrittenFiguresHold, Low
  <2> QED BY <1>2, <2>2, <2>3, <2>4 DEF AlertInv
<1> QED BY <1>3, <1>4, <1>5

\* A store does not touch the products.
LEMMA UpsertStoreInv ==
    ASSUME AlertInv, NEW m \in Merchants, UpsertStore(m)
    PROVE  AlertInv'
<1>1. TypeOK'
  BY DEF AlertInv, TypeOK, UpsertStore, locals
<1>2. RunningCallsAreTyped' /\ WrittenFiguresHold' /\ AlertsWereTrue'
  BY DEF AlertInv, RunningCallsAreTyped, WrittenFiguresHold, AlertsWereTrue,
      WasTrue, Low, UpsertStore, locals
<1> QED BY <1>1, <1>2 DEF AlertInv

LEMMA NextAlerts == AlertInv /\ [Next]_vars => AlertInv'
<1> SUFFICES ASSUME AlertInv, [Next]_vars PROVE AlertInv'
  OBVIOUS
<1>1. CASE UNCHANGED vars
  BY <1>1 DEF AlertInv, TypeOK, RunningCallsAreTyped, WrittenFiguresHold,
      AlertsWereTrue, WasTrue, Low, vars, store, locals
<1>2. CASE Next
  BY <1>2, UpsertStoreInv, WriteProductInv, EndsInv, WriteAlertInv,
      LocalStepInv DEF Next
<1> QED BY <1>1, <1>2

\* The invariant holds of every reachable state.
THEOREM AlertInvariant == Spec => []AlertInv
<1>1. Init => AlertInv
  BY InitAlerts
<1>2. AlertInv /\ [Next]_vars => AlertInv'
  BY NextAlerts
<1> QED BY <1>1, <1>2, PTL DEF Spec

\* Stores, products and alerts keep their types, and so does every call.
THEOREM StorefrontTypesHold == Spec => []TypeOK
<1>1. AlertInv => TypeOK
  BY DEF AlertInv
<1> QED BY <1>1, AlertInvariant, PTL

\* Whatever overlaps and fails, an alert shows figures its product had and
\* that were low, to the merchant of the product.
THEOREM AlertsShowWhatWasTrue == Spec => []AlertsWereTrue
<1>1. AlertInv => AlertsWereTrue
  BY DEF AlertInv
<1> QED BY <1>1, AlertInvariant, PTL

-----------------------------------------------------------------------------
\* What holds of a product that no two calls were about at once: the one call
\* that is about it holds its figures from the write to the end of the check,
\* and once a check has ended the alert is that of the figures.
Follows(p) ==
    /\ \A c, d \in Calls : Running(c, p) /\ Running(d, p) => c = d
    /\ \A a, b \in OpenAlerts(p) : a = b
    /\ \A c \in Calls : pc[c] \in {"check", "insert"} /\ product[c] = p =>
            p \in missed /\ products[p].figures = figures[c]
    /\ \A c \in Calls : pc[c] = "insert" /\ product[c] = p => OpenAlerts(p) = {}
    /\ products[p] # None /\ p \notin missed =>
        /\ Low(products[p].figures) =>
                \E a \in OpenAlerts(p) : alerts[a].figures = products[p].figures
        /\ ~Low(products[p].figures) => OpenAlerts(p) = {}

\* No alert has the name of a call that has not inserted one.
NamesAreFresh ==
    \A c \in Calls : pc[c] \in {"idle", "write", "check", "insert"} =>
        alerts[c] = None

\* The second invariant.
FollowInv == NamesAreFresh /\ \A p \in Products \ contended : Follows(p)

\* A step about another product.
LEMMA FollowsKept ==
    ASSUME NEW p \in Products, Follows(p),
           OpenAlerts(p)' = OpenAlerts(p),
           \A a \in OpenAlerts(p) : alerts'[a] = alerts[a],
           products'[p] = products[p],
           p \in missed' <=> p \in missed,
           \A d \in Calls :
                (pc'[d] \notin {"idle", "done", "failed"} /\ product'[d] = p) =>
                    /\ pc'[d] = pc[d] /\ product[d] = p
                    /\ figures'[d] = figures[d]
    PROVE  Follows(p)'
<1>1. \A c, d \in Calls : Running(c, p)' /\ Running(d, p)' => c = d
  BY DEF Follows, Running
<1>2. \A a, b \in OpenAlerts(p)' : a = b
  BY DEF Follows
<1>3. \A c \in Calls : pc'[c] \in {"check", "insert"} /\ product'[c] = p =>
            p \in missed' /\ products'[p].figures = figures'[c]
  BY DEF Follows
<1>4. \A c \in Calls : pc'[c] = "insert" /\ product'[c] = p =>
            OpenAlerts(p)' = {}
  BY DEF Follows
<1>5. products'[p] # None /\ p \notin missed' =>
        /\ Low(products'[p].figures) =>
            \E a \in OpenAlerts(p)' : alerts'[a].figures = products'[p].figures
        /\ ~Low(products'[p].figures) => OpenAlerts(p)' = {}
  BY DEF Follows
<1> QED BY <1>1, <1>2, <1>3, <1>4, <1>5 DEF Follows, Low

\* A call that starts, or is refused at once.
LEMMA StartFollows ==
    ASSUME AlertInv, FollowInv, NEW c \in Calls,
           \/ \E m \in Merchants : RefuseWithoutStore(c, m)
           \/ \E m \in Merchants, p \in Products, f \in Figures :
                FindStore(c, m, p, f)
    PROVE  FollowInv'
<1>1. /\ UNCHANGED <<stores, products, alerts, had, missed>>
      /\ pc[c] = "idle" /\ pc'[c] \in {"write", "failed"}
      /\ \A d \in Calls \ {c} : pc'[d] = pc[d]
      /\ contended \subseteq contended'
  BY DEF RefuseWithoutStore, FindStore, store, AlertInv, TypeOK
<1>2. NamesAreFresh'
  BY <1>1 DEF FollowInv, NamesAreFresh
<1>3. \A p \in Products : OpenAlerts(p)' = OpenAlerts(p)
  BY <1>1 DEF OpenAlerts
<1>4. CASE \E m \in Merchants : RefuseWithoutStore(c, m)
  <2>1. /\ pc'[c] = "failed"
        /\ UNCHANGED <<merchant, product, figures, contended>>
    BY <1>4 DEF RefuseWithoutStore, AlertInv, TypeOK
  <2>2. ASSUME NEW p \in Products \ contended' PROVE Follows(p)'
    <3>1. \A d \in Calls :
                (pc'[d] \notin {"idle", "done", "failed"} /\ product'[d] = p) =>
                    /\ pc'[d] = pc[d] /\ product[d] = p
                    /\ figures'[d] = figures[d]
      BY <1>1, <2>1
    <3>2. Follows(p)
      BY <1>1 DEF FollowInv
    <3> QED BY <1>1, <1>3, <3>1, <3>2, FollowsKept
  <2> QED BY <1>2, <2>2 DEF FollowInv
<1>5. ASSUME NEW m \in Merchants, NEW q \in Products, NEW f \in Figures,
             FindStore(c, m, q, f)
      PROVE  FollowInv'
  <2>1. /\ pc'[c] = "write" /\ product'[c] = q
        /\ \A d \in Calls \ {c} :
                product'[d] = product[d] /\ figures'[d] = figures[d]
        /\ (\E d \in Calls : Running(d, q)) => q \in contended'
    BY <1>5 DEF FindStore, AlertInv, TypeOK
  <2>2. ASSUME NEW p \in Products \ contended' PROVE Follows(p)'
    <3>1. Follows(p)
      BY <1>1 DEF FollowInv
    <3>2. CASE p # q
      <4>1. \A d \in Calls :
                (pc'[d] \notin {"idle", "done", "failed"} /\ product'[d] = p) =>
                    /\ pc'[d] = pc[d] /\ product[d] = p
                    /\ figures'[d] = figures[d]
        BY <1>1, <2>1, <3>2
      <4> QED BY <1>1, <1>3, <3>1, <4>1, FollowsKept
    <3>3. CASE p = q
      <4>1. \A d \in Calls : ~Running(d, p)
        BY <2>1, <2>2, <3>3
      <4>2. \A d \in Calls : Running(d, p)' => d = c
        BY <1>1, <2>1, <4>1 DEF Running
      <4>3. \A d \in Calls : pc'[d] \in {"check", "insert"} => product'[d] # p
        BY <1>1, <2>1, <4>1 DEF Running
      <4> QED BY <1>1, <1>3, <3>1, <4>2, <4>3 DEF Follows, Low
    <3> QED BY <3>2, <3>3
  <2> QED BY <1>2, <2>2 DEF FollowInv
<1> QED BY <1>4, <1>5

\* A call that goes on with the product q it is about: other products keep
\* their calls and alerts.
LEMMA OthersFollow ==
    ASSUME AlertInv, FollowInv, NEW c \in Calls, NEW q \in Products,
           product[c] = q, pc[c] \in {"write", "check", "insert"},
           contended' = contended,
           \A d \in Calls \ {c} : /\ pc'[d] = pc[d] /\ product'[d] = product[d]
                                  /\ figures'[d] = figures[d],
           pc'[c] \in {"done", "failed"} \/ product'[c] = q,
           \A p \in Products \ {q} :
                /\ products'[p] = products[p]
                /\ p \in missed' <=> p \in missed,
           \A a \in Calls :
                \/ alerts'[a] = alerts[a]
                \/ /\ alerts[a] = None \/ alerts[a].product = q
                   /\ alerts'[a].product = q,
           Follows(q) => q \in contended \/ Follows(q)',
           NamesAreFresh'
    PROVE  FollowInv'
<1>1. ASSUME NEW p \in Products \ contended', p # q PROVE Follows(p)'
  <2>1. Follows(p)
    BY DEF FollowInv
  <2>2. /\ OpenAlerts(p)' = OpenAlerts(p)
        /\ \A a \in OpenAlerts(p) : alerts'[a] = alerts[a]
    <3>1. \A a \in Calls : a \in OpenAlerts(p)' <=> a \in OpenAlerts(p)
      BY <1>1 DEF OpenAlerts
    <3>2. OpenAlerts(p) \subseteq Calls /\ OpenAlerts(p)' \subseteq Calls
      BY DEF OpenAlerts
    <3>3. \A a \in OpenAlerts(p) : alerts'[a] = alerts[a]
      BY <1>1 DEF OpenAlerts
    <3> QED BY <3>1, <3>2, <3>3
  <2>3. \A d \in Calls :
            (pc'[d] \notin {"idle", "done", "failed"} /\ product'[d] = p) =>
                /\ pc'[d] = pc[d] /\ product[d] = p
                /\ figures'[d] = figures[d]
    BY <1>1
  <2> QED BY <1>1, <2>1, <2>2, <2>3, FollowsKept
<1>2. q \notin contended' => Follows(q)'
  BY DEF FollowInv
<1> QED BY <1>1, <1>2 DEF FollowInv

\* What every later step of a call has in common.
LEMMA StepOfCall ==
    ASSUME AlertInv, NEW c \in Calls,
           \/ WriteProduct(c) \/ RefuseProduct(c) \/ ResolveAlerts(c)
           \/ UpdateAlert(c) \/ FindNoAlert(c) \/ InsertAlert(c) \/ Abort(c)
    PROVE  /\ product[c] \in Products
           /\ pc[c] \in {"write", "check", "insert"}
           /\ contended' = contended
           /\ \A d \in Calls \ {c} :
                /\ pc'[d] = pc[d] /\ product'[d] = product[d]
                /\ figures'[d] = figures[d]
           /\ pc'[c] \in {"done", "failed"} \/ product'[c] = product[c]
           /\ \A p \in Products \ {product[c]} :
                /\ products'[p] = products[p]
                /\ p \in missed' <=> p \in missed
<1>1. pc[c] \in {"write", "check", "insert"}
  BY DEF WriteProduct, RefuseProduct, ResolveAlerts, UpdateAlert, FindNoAlert,
      InsertAlert, Abort
<1>2. product[c] \in Products
  BY <1>1 DEF AlertInv, RunningCallsAreTyped
<1>3. /\ pc \in [Calls -> PC] /\ DOMAIN product = Calls /\ DOMAIN figures = Calls
      /\ DOMAIN products = Products
  BY DEF AlertInv, TypeOK
<1>4. CASE WriteProduct(c)
  <2>1. /\ pc' = [pc EXCEPT ![c] = "check"] /\ missed' = missed \cup {product[c]}
        /\ UNCHANGED <<product, figures, contended>>
        /\ \A p \in Products \ {product[c]} : products'[p] = products[p]
    BY <1>3, <1>4 DEF WriteProduct
  <2> QED BY <1>1, <1>2, <1>3, <2>1
<1>5. CASE FindNoAlert(c)
  BY <1>1, <1>2, <1>3, <1>5 DEF FindNoAlert, store
<1>6. CASE RefuseProduct(c) \/ Abort(c)
  BY <1>1, <1>2, <1>3, <1>6 DEF RefuseProduct, Abort, Return, store
<1>7. CASE ResolveAlerts(c) \/ UpdateAlert(c) \/ InsertAlert(c)
  <2>1. EndCheck(c)
    BY <1>7 DEF ResolveAlerts, UpdateAlert, InsertAlert
  <2> QED BY <1>1, <1>2, <1>3, <2>1 DEF EndCheck, Return
<1> QED BY <1>4, <1>5, <1>6, <1>7

\* A call that is alone with its product, which follows, leaves it with no
\* running call when it ends.
LEMMA AloneUntilTheEnd ==
    ASSUME NEW c \in Calls, NEW q, product[c] = q,
           pc[c] \in {"write", "check", "insert"}, Follows(q),
           \A d \in Calls \ {c} : pc'[d] = pc[d] /\ product'[d] = product[d],
           pc'[c] \in {"done", "failed"}
    PROVE  \A d \in Calls : ~Running(d, q)'
BY DEF Follows, Running

\* The merchant writes the product; its last check is now to come.
LEMMA WriteProductFollows ==
    ASSUME AlertInv, FollowInv, NEW c \in Calls, WriteProduct(c)
    PROVE  FollowInv'
<1>0. PICK q \in Products : product[c] = q
  BY StepOfCall
<1>1. /\ q \in Products /\ figures[c] \in Figures
      /\ pc[c] = "write" /\ pc' = [pc EXCEPT ![c] = "check"]
      /\ UNCHANGED <<alerts, product, figures, contended>>
      /\ missed' = missed \cup {q}
      /\ products' = [products EXCEPT ![q] =
            [merchant |-> merchant[c], figures |-> figures[c]]]
  BY <1>0 DEF WriteProduct, AlertInv, RunningCallsAreTyped
<1>2. /\ pc' \in [Calls -> PC] /\ pc \in [Calls -> PC] /\ pc'[c] = "check"
      /\ products'[q].figures = figures[c]
      /\ \A d \in Calls \ {c} : pc'[d] = pc[d]
  BY <1>1 DEF AlertInv, TypeOK, PC
<1>3. NamesAreFresh'
  BY <1>1, <1>2 DEF FollowInv, NamesAreFresh
<1>4. OpenAlerts(q)' = OpenAlerts(q)
  BY <1>1 DEF OpenAlerts
<1>5. ASSUME Follows(q) PROVE Follows(q)'
  <2>1. \A d \in Calls : Running(d, q) => d = c
    BY <1>0, <1>1, <1>5 DEF Follows, Running
  <2>2. \A d \in Calls : Running(d, q)' => d = c
    BY <1>1, <1>2, <2>1 DEF Running
  <2>3. \A d \in Calls : pc'[d] \in {"check", "insert"} /\ product'[d] = q =>
            d = c
    BY <1>0, <1>1, <2>2 DEF Running
  <2>4. q \in missed'
    BY <1>1
  <2> QED BY <1>1, <1>2, <1>4, <1>5, <2>2, <2>3, <2>4 DEF Follows, Low
<1>6. \A a \in Calls : alerts'[a] = alerts[a]
  BY <1>1
<1>7. Follows(q) => q \in contended \/ Follows(q)'
  BY <1>5
<1> QED BY <1>0, <1>3, <1>6, <1>7, StepOfCall, OthersFollow

\* A call that ends without its check, or goes on to insert an alert.
LEMMA AlertsKeptFollows ==
    ASSUME AlertInv, FollowInv, NEW c \in Calls,
           RefuseProduct(c) \/ Abort(c) \/ FindNoAlert(c)
    PROVE  FollowInv'
<1>0. PICK q \in Products : product[c] = q
  BY StepOfCall
<1>1. /\ UNCHANGED <<products, alerts, missed, contended>>
      /\ q \in Products /\ pc[c] \in {"write", "check", "insert"}
      /\ \A d \in Calls \ {c} :
            /\ pc'[d] = pc[d] /\ product'[d] = product[d]
            /\ figures'[d] = figures[d]
  BY <1>0, StepOfCall DEF RefuseProduct, Abort, FindNoAlert, store
<1>2. OpenAlerts(q)' = OpenAlerts(q)
  BY <1>1 DEF OpenAlerts
<1>3. \/ pc'[c] = "failed"
      \/ /\ pc[c] = "check" /\ pc'[c] = "insert" /\ OpenAlerts(q) = {}
         /\ UNCHANGED <<product, figures>>
  BY <1>0 DEF RefuseProduct, Abort, FindNoAlert, Return, AlertInv, TypeOK
<1>4. NamesAreFresh'
  BY <1>1, <1>3 DEF FollowInv, NamesAreFresh
<1>5. ASSUME Follows(q) PROVE Follows(q)'
  <2>1. CASE pc'[c] = "failed"
    <3>1. \A d \in Calls : ~Running(d, q)'
      BY <1>0, <1>1, <1>5, <2>1, AloneUntilTheEnd
    <3>2. \A d \in Calls : ~(pc'[d] \in {"check", "insert"} /\ product'[d] = q)
      BY <3>1 DEF Running
    <3> QED BY <1>1, <1>2, <1>5, <3>1, <3>2 DEF Follows, Low
  <2>2. CASE /\ pc[c] = "check" /\ pc'[c] = "insert" /\ OpenAlerts(q) = {}
             /\ UNCHANGED <<product, figures>>
    <3>1. \A d \in Calls : Running(d, q)' <=> Running(d, q)
      BY <1>0, <1>1, <2>2 DEF Running
    <3>2. \A d \in Calls : pc'[d] \in {"check", "insert"} /\ product'[d] = q =>
            pc[d] \in {"check", "insert"} /\ product[d] = q
      BY <1>0, <1>1, <2>2
    <3> QED BY <1>1, <1>2, <1>5, <2>2, <3>1, <3>2 DEF Follows, Low
  <2> QED BY <1>3, <2>1, <2>2
<1>6. \A a \in Calls : alerts'[a] = alerts[a]
  BY <1>1
<1>7. Follows(q) => q \in contended \/ Follows(q)'
  BY <1>5
<1> QED BY <1>0, <1>4, <1>6, <1>7, StepOfCall, OthersFollow

\* The check of a call that is alone with its product ends, with the alerts
\* the figures call for.
LEMMA EndCheckFollows ==
    ASSUME AlertInv, FollowInv, NEW c \in Calls, EndCheck(c),
           pc[c] \in {"check", "insert"},
           NEW q \in Products, product[c] = q, Follows(q),
           \A a, b \in OpenAlerts(q)' : a = b,
           Low(figures[c]) =>
                \E a \in OpenAlerts(q)' : alerts'[a].figures = figures[c],
           ~Low(figures[c]) => OpenAlerts(q)' = {}
    PROVE  Follows(q)'
<1>1. /\ pc' = [pc EXCEPT ![c] = "done"] /\ products' = products
      /\ product' = [product EXCEPT ![c] = None]
      /\ pc'[c] = "done"
      /\ \A d \in Calls \ {c} : pc'[d] = pc[d] /\ product'[d] = product[d]
  BY DEF EndCheck, Return, AlertInv, TypeOK
<1>2. \A d \in Calls : ~Running(d, q)'
  BY <1>1, AloneUntilTheEnd
<1>3. \A d \in Calls : ~(pc'[d] \in {"check", "insert"} /\ product'[d] = q)
  BY <1>2 DEF Running
<1>4. products'[q].figures = figures[c]
  BY <1>1 DEF Follows
<1> QED BY <1>2, <1>3, <1>4 DEF Follows, Low

\* The stock is above the threshold: no alert of the product stays open.
LEMMA ResolveAlertsFollows ==
    ASSUME AlertInv, FollowInv, NEW c \in Calls, ResolveAlerts(c)
    PROVE  FollowInv'
<1>1. PICK q \in Products : product[c] = q
  BY StepOfCall
<1>2. /\ pc[c] = "check" /\ ~Low(figures[c]) /\ EndCheck(c)
      /\ alerts' = [a \in Calls |-> IF a \in OpenAlerts(q)
                        THEN [alerts[a] EXCEPT !.resolved = TRUE] ELSE alerts[a]]
  BY <1>1 DEF ResolveAlerts
<1>3. \A a \in Calls :
        \/ alerts'[a] = alerts[a] /\ a \notin OpenAlerts(q)
        \/ /\ a \in OpenAlerts(q) /\ alerts[a] # None /\ alerts[a].product = q
           /\ alerts'[a].product = q /\ alerts'[a].resolved
  <2> SUFFICES ASSUME NEW a \in Calls, a \in OpenAlerts(q)
               PROVE  /\ alerts[a] # None /\ alerts[a].product = q
                      /\ alerts'[a].product = q /\ alerts'[a].resolved
    BY <1>2
  <2>1. alerts[a] \in StockAlert /\ alerts[a].product = q
    BY DEF OpenAlerts, AlertInv, TypeOK
  <2>2. alerts'[a] = [alerts[a] EXCEPT !.resolved = TRUE]
    BY <1>2
  <2> QED BY <2>1, <2>2 DEF StockAlert, OpenAlerts
<1>4. OpenAlerts(q)' = {}
  BY <1>3 DEF OpenAlerts
<1>5. NamesAreFresh'
  BY <1>2, <1>3 DEF FollowInv, NamesAreFresh, EndCheck, Return, AlertInv, TypeOK
<1>6. Follows(q) => q \in contended \/ Follows(q)'
  BY <1>1, <1>2, <1>4, EndCheckFollows
<1> QED BY <1>1, <1>3, <1>5, <1>6, StepOfCall, OthersFollow

\* What the alert of a call says, once it is written.
LEMMA WrittenAlert ==
    ASSUME AlertInv, NEW c \in Calls, pc[c] \in {"check", "insert"},
           Low(figures[c]), NEW a \in Calls,
           alerts' = [alerts EXCEPT ![a] = AlertOf(c)]
    PROVE  /\ alerts'[a] # None /\ alerts'[a].product = product[c]
           /\ alerts'[a].figures = figures[c] /\ ~alerts'[a].resolved
           /\ \A b \in Calls \ {a} : alerts'[b] = alerts[b]
<1>1. AlertOf(c) # None
  BY NewAlertIsTrue, NoneAssumption
<1>2. alerts'[a] = AlertOf(c) /\ \A b \in Calls \ {a} : alerts'[b] = alerts[b]
  BY DEF AlertInv, TypeOK
<1> QED BY <1>1, <1>2 DEF AlertOf

\* The upsert writes the one open alert.
LEMMA UpdateAlertFollows ==
    ASSUME AlertInv, FollowInv, NEW c \in Calls, UpdateAlert(c)
    PROVE  FollowInv'
<1>1. PICK q \in Products : product[c] = q
  BY StepOfCall
<1>2. /\ pc[c] = "check" /\ Low(figures[c]) /\ EndCheck(c)
  BY DEF UpdateAlert
<1>3. PICK a \in OpenAlerts(q) : alerts' = [alerts EXCEPT ![a] = AlertOf(c)]
  BY <1>1 DEF UpdateAlert
<1>4. a \in Calls /\ alerts[a] # None /\ alerts[a].product = q
  BY <1>3 DEF OpenAlerts
<1>5. /\ alerts'[a] # None /\ alerts'[a].product = q
      /\ alerts'[a].figures = figures[c] /\ ~alerts'[a].resolved
      /\ \A b \in Calls \ {a} : alerts'[b] = alerts[b]
  BY <1>1, <1>2, <1>3, <1>4, WrittenAlert
<1>6. NamesAreFresh'
  <2>1. /\ pc'[c] = "done" /\ \A d \in Calls \ {c} : pc'[d] = pc[d]
    BY <1>2 DEF EndCheck, Return, AlertInv, TypeOK
  <2>2. pc[a] \notin {"idle", "write", "check", "insert"}
    BY <1>4 DEF FollowInv, NamesAreFresh
  <2> QED BY <1>5, <2>1, <2>2 DEF FollowInv, NamesAreFresh
<1>7. ASSUME Follows(q) PROVE Follows(q)'
  <2>1. \A b \in OpenAlerts(q) : b = a
    BY <1>3, <1>7 DEF Follows
  <2>2. \A b \in OpenAlerts(q)' : b = a
    BY <1>5, <2>1 DEF OpenAlerts
  <2>3. a \in OpenAlerts(q)'
    BY <1>4, <1>5 DEF OpenAlerts
  <2> QED BY <1>1, <1>2, <1>5, <1>7, <2>2, <2>3, EndCheckFollows
<1>8. \A b \in Calls :
        \/ alerts'[b] = alerts[b]
        \/ /\ alerts[b] = None \/ alerts[b].product = q
           /\ alerts'[b].product = q
  BY <1>4, <1>5
<1>9. Follows(q) => q \in contended \/ Follows(q)'
  BY <1>7
<1> QED BY <1>1, <1>6, <1>8, <1>9, StepOfCall, OthersFollow

\* The upsert inserts an alert, and finds that it is the only one.
LEMMA InsertAlertFollows ==
    ASSUME AlertInv, FollowInv, NEW c \in Calls, InsertAlert(c)
    PROVE  FollowInv'
<1>1. PICK q \in Products : product[c] = q
  BY StepOfCall
<1>2. /\ pc[c] = "insert" /\ EndCheck(c)
      /\ alerts' = [alerts EXCEPT ![c] = AlertOf(c)]
  BY DEF InsertAlert
<1>3. Low(figures[c])
  BY <1>2 DEF AlertInv, WrittenFiguresHold
<1>4. /\ alerts'[c] # None /\ alerts'[c].product = q
      /\ alerts'[c].figures = figures[c] /\ ~alerts'[c].resolved
      /\ \A b \in Calls \ {c} : alerts'[b] = alerts[b]
  BY <1>1, <1>2, <1>3, WrittenAlert
<1>5. alerts[c] = None
  BY <1>2 DEF FollowInv, NamesAreFresh
<1>6. NamesAreFresh'
  <2>1. /\ pc'[c] = "done" /\ \A d \in Calls \ {c} : pc'[d] = pc[d]
    BY <1>2 DEF EndCheck, Return, AlertInv, TypeOK
  <2> QED BY <1>4, <2>1 DEF FollowInv, NamesAreFresh
<1>7. ASSUME Follows(q) PROVE Follows(q)'
  <2>1. OpenAlerts(q) = {}
    BY <1>1, <1>2, <1>7 DEF Follows
  <2>2. \A b \in OpenAlerts(q)' : b = c
    BY <1>4, <2>1 DEF OpenAlerts
  <2>3. c \in OpenAlerts(q)'
    BY <1>4 DEF OpenAlerts
  <2> QED BY <1>1, <1>2, <1>3, <1>4, <1>7, <2>2, <2>3, EndCheckFollows
<1>8. \A b \in Calls :
        \/ alerts'[b] = alerts[b]
        \/ /\ alerts[b] = None \/ alerts[b].product = q
           /\ alerts'[b].product = q
  BY <1>4, <1>5
<1>9. Follows(q) => q \in contended \/ Follows(q)'
  BY <1>7
<1> QED BY <1>1, <1>6, <1>8, <1>9, StepOfCall, OthersFollow

-----------------------------------------------------------------------------
LEMMA InitFollow == Init => FollowInv
BY DEF Init, FollowInv, NamesAreFresh, Follows, Running, OpenAlerts

LEMMA NextFollow == AlertInv /\ FollowInv /\ [Next]_vars => FollowInv'
<1> SUFFICES ASSUME AlertInv, FollowInv, [Next]_vars PROVE FollowInv'
  OBVIOUS
<1>1. CASE UNCHANGED vars \/ \E m \in Merchants : UpsertStore(m)
  <2>1. UNCHANGED <<products, alerts, locals, missed, contended>>
    BY <1>1 DEF UpsertStore, vars, store
  <2> QED BY <2>1 DEF FollowInv, NamesAreFresh, Follows, Running, OpenAlerts,
          Low, locals
<1>2. CASE Next /\ ~\E m \in Merchants : UpsertStore(m)
  BY <1>2, StartFollows, WriteProductFollows, AlertsKeptFollows,
      ResolveAlertsFollows, UpdateAlertFollows, InsertAlertFollows DEF Next
<1> QED BY <1>1, <1>2

\* The second invariant holds of every reachable state.
THEOREM FollowInvariant == Spec => []FollowInv
<1>1. Init => FollowInv
  BY InitFollow
<1>2. AlertInv /\ FollowInv /\ [Next]_vars => FollowInv'
  BY NextFollow
<1> QED BY <1>1, <1>2, AlertInvariant, PTL DEF Spec

\* Of a product that no two calls were about at once, at most one alert is
\* open; and once a check has ended well, one is open exactly when the
\* product is low, with the product's figures.
THEOREM AlertsFollowUnlessContended == Spec => []AlertsFollowStock
<1>1. FollowInv => AlertsFollowStock
  <2> SUFFICES ASSUME FollowInv, NEW p \in Products \ contended
               PROVE  /\ Cardinality(OpenAlerts(p)) <= 1
                      /\ (products[p] # None /\ p \notin missed) =>
                            {alerts[a].figures : a \in OpenAlerts(p)} =
                                {f \in {products[p].figures} :
                                    f.stock <= f.threshold}
    BY DEF AlertsFollowStock
  <2>1. Follows(p)
    BY DEF FollowInv
  <2>2. OpenAlerts(p) = {} \/ \E a : OpenAlerts(p) = {a}
    BY <2>1 DEF Follows
  <2>3. Cardinality(OpenAlerts(p)) <= 1
    BY <2>2, FS_EmptySet, FS_Singleton
  <2>4. ASSUME products[p] # None, p \notin missed
        PROVE  {alerts[a].figures : a \in OpenAlerts(p)} =
                    {f \in {products[p].figures} : f.stock <= f.threshold}
    <3>1. CASE Low(products[p].figures)
      BY <2>1, <2>2, <2>4, <3>1 DEF Follows, Low
    <3>2. CASE ~Low(products[p].figures)
      BY <2>1, <2>4, <3>2 DEF Follows, Low
    <3> QED BY <3>1, <3>2
  <2> QED BY <2>3, <2>4
<1> QED BY <1>1, FollowInvariant, PTL

=============================================================================

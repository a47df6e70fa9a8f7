----------------------------- MODULE Storefront -----------------------------
(***************************************************************************)
(* Stores, products and stock alerts (src/storefront, src/stock-alerts).   *)
(* upsertProduct writes a product and then, in a second step, lets         *)
(* checkAndCreate resolve the product's open alerts or write the figures   *)
(* into one of them.  The latter is an upsert on a collection without a    *)
(* unique index: it updates an open alert, or inserts one when it found    *)
(* none.                                                                   *)
(***************************************************************************)
EXTENDS Naturals, FiniteSets

CONSTANTS
    Merchants,      \* accounts that may have a store
    Products,       \* identifiers of products
    Calls,          \* calls of upsertProduct
    Stocks,         \* stocks a product may be given
    Thresholds,     \* thresholds a product may be given
    None            \* an absent value

\* What the alerts are about: a product is low at its threshold and below.
Figures == [stock : Stocks, threshold : Thresholds]

Product == [merchant : Merchants, figures : Figures]

\* A StockAlert document, named by the call that inserted it.
StockAlert == [merchant : Merchants, product : Products, figures : Figures,
               resolved : BOOLEAN]

ASSUME FiguresAssumption == Stocks \subseteq Nat /\ Thresholds \subseteq Nat
ASSUME NoneAssumption ==
    None \notin Merchants \cup Products \cup Figures \cup Product \cup StockAlert

VARIABLES
    stores,         \* the merchants that have a store, one each
    products,       \* the collection of products
    alerts,         \* the collection of alerts
    pc,             \* where each call is
    merchant,       \* who makes it
    product,        \* the product it is about
    figures,        \* the figures it gives the product
    had,            \* history: figures each product has had
    missed,         \* history: products whose last check did not end well
    contended       \* history: products two calls were about at once

store == <<stores, products, alerts>>
locals == <<pc, merchant, product, figures>>
vars == <<store, locals, had, missed, contended>>

PC == {"idle", "write", "check", "insert", "done", "failed"}

\* MUTANT: a product one above its threshold is low already.
LowAbove(f) == f.stock <= f.threshold + 1

\* currentStock > threshold fails.
Low(f) == f.stock <= f.threshold

OpenAlerts(p) ==
    {a \in Calls : alerts[a] # None /\ alerts[a].product = p /\ ~alerts[a].resolved}

Running(c, p) == pc[c] \notin {"idle", "done", "failed"} /\ product[c] = p

Init ==
    /\ stores = {}
    /\ products = [p \in Products |-> None]
    /\ alerts = [c \in Calls |-> None]
    /\ pc = [c \in Calls |-> "idle"]
    /\ merchant = [c \in Calls |-> None]
    /\ product = [c \in Calls |-> None]
    /\ figures = [c \in Calls |-> None]
    /\ had = [p \in Products |-> {}]
    /\ missed = {}
    /\ contended = {}

-----------------------------------------------------------------------------
\* upsertStore; the index on the merchant keeps it one store.
UpsertStore(m) ==
    /\ stores' = stores \cup {m}
    /\ UNCHANGED <<products, alerts, locals, had, missed, contended>>

\* getMerchantStore finds no store: 404.
RefuseWithoutStore(c, m) ==
    /\ pc[c] = "idle"
    /\ m \notin stores
    /\ pc' = [pc EXCEPT ![c] = "failed"]
    /\ UNCHANGED <<store, merchant, product, figures, had, missed, contended>>

\* getMerchantStore finds the merchant's store.
FindStore(c, m, p, f) ==
    /\ pc[c] = "idle"
    /\ m \in stores
    /\ pc' = [pc EXCEPT ![c] = "write"]
    /\ merchant' = [merchant EXCEPT ![c] = m]
    /\ product' = [product EXCEPT ![c] = p]
    /\ figures' = [figures EXCEPT ![c] = f]
    /\ contended' = IF \E d \in Calls : Running(d, p)
                    THEN contended \cup {p} ELSE contended
    /\ UNCHANGED <<store, had, missed>>

\* The call ends.
Return(c, outcome) ==
    /\ pc' = [pc EXCEPT ![c] = outcome]
    /\ merchant' = [merchant EXCEPT ![c] = None]
    /\ product' = [product EXCEPT ![c] = None]
    /\ figures' = [figures EXCEPT ![c] = None]

\* productModel.create, or findOneAndUpdate of a product of the merchant.  The
\* first write of a product creates it.
MayWrite(m, p) == products[p] # None => products[p].merchant = m

WriteProduct(c) ==
    LET p == product[c]
    IN  /\ pc[c] = "write"
        /\ MayWrite(merchant[c], p)
        /\ products' = [products EXCEPT ![p] =
                [merchant |-> merchant[c], figures |-> figures[c]]]
        /\ had' = [had EXCEPT ![p] = @ \cup {figures[c]}]
        /\ missed' = missed \cup {p}
        /\ pc' = [pc EXCEPT ![c] = "check"]
        /\ UNCHANGED <<stores, alerts, merchant, product, figures, contended>>

\* findOneAndUpdate finds no product of the merchant: 404.
RefuseProduct(c) ==
    /\ pc[c] = "write"
    /\ ~MayWrite(merchant[c], product[c])
    /\ Return(c, "failed")
    /\ UNCHANGED <<store, had, missed, contended>>

\* checkAndCreate has done its work.
EndCheck(c) ==
    /\ missed' = missed \ {product[c]}
    /\ Return(c, "done")
    /\ UNCHANGED <<stores, products, had, contended>>

\* The stock is above the threshold: every open alert is resolved.
ResolveAlerts(c) ==
    LET open == OpenAlerts(product[c])
    IN  /\ pc[c] = "check"
        /\ ~Low(figures[c])
        /\ alerts' = [a \in Calls |-> IF a \in open
                        THEN [alerts[a] EXCEPT !.resolved = TRUE] ELSE alerts[a]]
        /\ EndCheck(c)

\* The alert of call c, as the update or the insert writes it.
AlertOf(c) ==
    [merchant |-> merchant[c], product |-> product[c], figures |-> figures[c],
     resolved |-> FALSE]

\* The stock is low: the upsert updates one of the open alerts.
UpdateAlert(c) ==
    /\ pc[c] = "check"
    /\ Low(figures[c])
    /\ \E a \in OpenAlerts(product[c]) :
            alerts' = [alerts EXCEPT ![a] = AlertOf(c)]
    /\ EndCheck(c)

\* MUTANT: a new alert is inserted whether or not one is open.
FindNoAlertEver(c) ==
    /\ pc[c] = "check"
    /\ Low(figures[c])
    /\ pc' = [pc EXCEPT ![c] = "insert"]
    /\ UNCHANGED <<store, merchant, product, figures, had, missed, contended>>

\* The stock is low: the upsert finds no open alert and goes on to insert one.
FindNoAlert(c) ==
    /\ pc[c] = "check"
    /\ Low(figures[c])
    /\ OpenAlerts(product[c]) = {}
    /\ pc' = [pc EXCEPT ![c] = "insert"]
    /\ UNCHANGED <<store, merchant, product, figures, had, missed, contended>>

InsertAlert(c) ==
    /\ pc[c] = "insert"
    /\ alerts' = [alerts EXCEPT ![c] = AlertOf(c)]
    /\ EndCheck(c)

\* A database call fails or the instance stops.
Abort(c) ==
    /\ pc[c] \in {"write", "check", "insert"}
    /\ Return(c, "failed")
    /\ UNCHANGED <<store, had, missed, contended>>

Next ==
    \/ \E m \in Merchants : UpsertStore(m)
    \/ \E c \in Calls :
        \/ \E m \in Merchants : RefuseWithoutStore(c, m)
        \/ \E m \in Merchants, p \in Products, f \in Figures :
                FindStore(c, m, p, f)
        \/ WriteProduct(c) \/ RefuseProduct(c)
        \/ ResolveAlerts(c) \/ UpdateAlert(c) \/ FindNoAlert(c) \/ InsertAlert(c)
        \/ Abort(c)

Spec == Init /\ [][Next]_vars

-----------------------------------------------------------------------------
(* Properties of every interleaving, with failures at any await.           *)

TypeOK ==
    /\ stores \subseteq Merchants
    /\ products \in [Products -> Product \cup {None}]
    /\ alerts \in [Calls -> StockAlert \cup {None}]
    /\ pc \in [Calls -> PC]
    /\ merchant \in [Calls -> Merchants \cup {None}]
    /\ product \in [Calls -> Products \cup {None}]
    /\ figures \in [Calls -> Figures \cup {None}]
    /\ had \in [Products -> SUBSET Figures]
    /\ missed \subseteq Products
    /\ contended \subseteq Products

\* Whatever overlaps and fails, an alert shows figures that its product
\* really had and that were low, to the merchant whose product it is
\* (upsertProduct, checkAndCreate).
WasTrue(alert) ==
    /\ alert.figures \in had[alert.product]
    /\ alert.figures.stock <= alert.figures.threshold
    /\ products[alert.product] # None
    /\ alert.merchant = products[alert.product].merchant

AlertsWereTrue == \A a \in Calls : alerts[a] # None => WasTrue(alerts[a])

\* Of a product that no two calls were about at once, at most one alert is
\* open; and once a check has run to its end, also after others that did not,
\* one is open exactly when the product is low, with the product's figures.
AlertsFollowStock ==
    \A p \in Products \ contended :
        /\ Cardinality(OpenAlerts(p)) <= 1
        /\ (products[p] # None /\ p \notin missed) =>
                {alerts[a].figures : a \in OpenAlerts(p)} =
                    {f \in {products[p].figures} : f.stock <= f.threshold}

=============================================================================

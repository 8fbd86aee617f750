--------------------------- MODULE StoreProperties ----------------------------
(***************************************************************************)
(* What must hold of the shop's documents, stock, store credit and outbox. *)
(***************************************************************************)
EXTENDS Store, FiniteSets

Ledger == INSTANCE StockLedger WITH Unaudited <- FormEdits

\* The services implement the stock ledger: whatever a sale, a cancellation,
\* an exchange, a purchase or an adjustment does to products.quantity, it
\* appends inventory_logs rows that account for exactly that, and no call
\* rewrites a row (inventory_service.py, change_stock).
ImplementsStockLedger == Ledger!Spec

\* The rows of inventory_logs add up and chain to the quantity on the shelf,
\* across all services that share change_stock, for every product whose
\* quantity is not typed over in the product form.
AuditTrail == Ledger!AuditTrail

-------------------------------------------------------------------------------
\* Documents and stock

\* The movements of p labelled with a document.
MovesOf(p, type, ref) ==
    {i \in 1 .. Len(log[p]) : log[p][i].label = [type |-> type, ref |-> ref]}

\* The document moved p by that much, in one row; by nothing, in none.
MovedOnce(p, type, ref, change) ==
    IF change = 0 THEN MovesOf(p, type, ref) = {}
    ELSE \E i \in 1 .. Len(log[p]) : MovesOf(p, type, ref) = {i} /\ log[p][i].change = change

\* A receipt took from the shelf exactly what it names, in one movement, and a
\* cancellation put back exactly that, once: sale_service.py books stock and
\* document in one transaction, and never cancels twice.
ReceiptsExplainStock ==
    \A s \in 1 .. Len(sales), p \in Products :
        /\ MovedOnce(p, "SALE", s, -sales[s].items[p])
        /\ MovedOnce(p, "SALE_CANCELLED", s,
                     IF sales[s].status = "CANCELLED" THEN sales[s].items[p] ELSE 0)

\* However many exchanges a receipt goes through, no product comes back more
\* often than it was sold on it (exchange_service.py, _validate_lines).
ReturnedWithinSold ==
    \A s \in 1 .. Len(sales), p \in Products : sales[s].returned[p] <= sales[s].items[p]

\* Goods sold once come back once, be it by exchanges or by a cancellation
\* (exchange_service.py:20-22: the same item cannot be returned twice).
RestockedOnce ==
    \A s \in 1 .. Len(sales), p \in Products :
        LET cancelled == IF sales[s].status = "CANCELLED" THEN sales[s].items[p] ELSE 0
        IN  sales[s].returned[p] + cancelled <= sales[s].items[p]

\* What a step may do to a document that is on file: void a completed sale without
\* exchanges, or record returns on a sale that it files an exchange of.
Voided(s) ==
    /\ sales[s].status = "COMPLETED" /\ ExchangesOf(s) = {}
    /\ sales'[s] = [sales[s] EXCEPT !.status = "CANCELLED"]

ReturnsRecorded(s) ==
    /\ ExchangesOf(s)' # ExchangesOf(s)
    /\ sales'[s] = [sales[s] EXCEPT !.returned = sales'[s].returned]
    /\ \A p \in Products : sales'[s].returned[p] >= sales[s].returned[p]

KeepsHistory ==
    /\ \A s \in 1 .. Len(sales) : sales'[s] = sales[s] \/ Voided(s) \/ ReturnsRecorded(s)
    /\ SubSeq(exchanges', 1, Len(exchanges)) = exchanges
    /\ \A p \in Products : SubSeq(log'[p], 1, Len(log[p])) = log[p]

\* Documents are history: a later call may void a completed sale without
\* exchanges, or record returns on it, and changes nothing else about it;
\* a cancelled sale stays cancelled; movements and exchanges only accumulate.
HistoryIsKept == [][KeepsHistory]_vars

\* Every change of a registered product's quantity leaves a movement behind
\* (README.md:124-127: "Nothing silently modifies Product.quantity").
NothingMovesStockSilently ==
    [][ \A p \in stocked : quantity'[p] # quantity[p] => log'[p] # log[p] ]_vars

-------------------------------------------------------------------------------
\* Store credit

\* A customer never spends credit that was not granted (store_credit_service.py,
\* consume), whatever sales, cancellations and exchanges come in between.
CreditNeverNegative == \A c \in Customers : Balance(c) >= 0

\* What the documents of a ledger are worth together, a natural number each: the
\* units of all of them, counted.
Units(worth) == UNION {{d} \X (1 .. worth[d]) : d \in DOMAIN worth}
Total(worth) == Cardinality(Units(worth))

\* What each exchange granted c, and what each sale to c costs in credit.
Grants(c) ==
    [e \in 1 .. Len(exchanges) |->
        IF sales[exchanges[e].sale].customer = c /\ exchanges[e].difference < 0
        THEN -exchanges[e].difference ELSE 0]
Debits(c) ==
    [s \in 1 .. Len(sales) |->
        IF sales[s].customer = c /\ sales[s].method = "CREDIT" /\ sales[s].status = "COMPLETED"
        THEN sales[s].total ELSE 0]

\* The balance is what exchanges granted minus what live CREDIT sales cost:
\* cancelling gives back exactly the credit that the sale consumed.
CreditExplained == \A c \in Customers : Balance(c) = Total(Grants(c)) - Total(Debits(c))

-------------------------------------------------------------------------------
\* The outbox

\* Replaying the queued payloads gives the quantity of every audited product
\* and every balance: what docs/PHASE10_ARCHITECTURE.md:95-101 has the cloud
\* and the other PC rely on.
OutboxReplaysLedgers ==
    /\ \A p \in Products \ FormEdits : queued.stock[p] = quantity[p]
    /\ \A c \in Customers : queued.credit[c] = Balance(c)

\* The last queued payload of a receipt carries its status.
OutboxKnowsReceipts == queued.status = [s \in 1 .. Len(sales) |-> sales[s].status]

\* The last queued payload of a product carries its prices and says whether it
\* may be sold, so whoever replays the queue sells and values stock alike
\* (docs/PHASE10_ARCHITECTURE.md:90-93: every transaction that modifies synced
\* data queues it).
OutboxKnowsProducts ==
    \A p \in stocked :
        queued.product[p] = [selling |-> price[p], cost |-> cost[p], isActive |-> (p \in active)]

===============================================================================

--------------------------------- MODULE Books ---------------------------------
(***************************************************************************)
(* The books of one shop: sales, purchases and expenses by day, and the    *)
(* reports read from them.  Every report of ReportingRepository is a query *)
(* with a where clause of its own; the dashboard, the tabs of the Reports  *)
(* page and My Sales show several of them side by side.                    *)
(*                                                                         *)
(* The Reports page runs its queries one after the other.  Each SELECT     *)
(* sees what is committed by then (no transaction is begun before a        *)
(* write), so the worker may commit pulled rows between two tabs.          *)
(*                                                                         *)
(* Abstractions.  Dates are days; a date field holds a day.  Receipt       *)
(* numbers are places in sales.  Names, references, categories and the     *)
(* layout of tables and files are left out, and so is the stock log, which *)
(* Store models.                                                           *)
(***************************************************************************)
EXTENDS Integers, FiniteSetsExt, SequencesExt

CONSTANTS
    Products, Users,
    Admin,         \* the user with id 1, who also stands for users of other PCs
    Price,         \* selling price
    Costs,         \* purchase prices
    Discounts, Amounts,
    Terms,         \* what sales of other PCs were made on: cost prices, discount, method
    Methods,       \* payment methods in use
    Opening,       \* quantity the products begin with
    Threshold,     \* LOW_STOCK_THRESHOLD
    MaxDay, MaxSales, MaxPurchases, MaxExpenses,  \* bounds
    MaxPieces, MaxPaid,                           \* bounds: of one line, of one payment
    None

ASSUME BooksAssumption ==
    /\ IsFiniteSet(Products) /\ IsFiniteSet(Users)
    /\ Admin \in Users /\ None \notin Users
    /\ Methods \subseteq {"POS", "TRANSFER", "CREDIT"}
    /\ Price \in Nat \ {0}
    /\ {Costs, Discounts, Amounts} \subseteq SUBSET Nat
    /\ Costs # {}
    /\ Terms \subseteq [cost: [Products -> Costs], discount: Discounts, method: Methods]
    /\ {Opening, Threshold, MaxSales, MaxPurchases, MaxExpenses, MaxPieces, MaxPaid} \subseteq Nat
    /\ MaxDay \in Nat \ {0}

VARIABLES
    day,        \* today
    user,       \* who is signed in
    product,    \* products: cost_price, quantity
    sales, purchases, expenses,
    form,       \* PurchaseFormDialog: open, and _lines
    sheet       \* the report page in front: date fields, tabs read so far

vars == <<day, user, product, sales, purchases, expenses, form, sheet>>

Days    == 1 .. MaxDay

\* rows: which rows of the sale are here besides its header.
Sale == [cashier: Users, day: Days, items: [Products -> Nat], cost: [Products -> Costs],
         discount: Nat, total: Nat, method: Methods, status: {"COMPLETED", "CANCELLED"},
         rows: SUBSET {"items", "payment"}]

PurchaseLine == [product: Products, quantity: Nat \ {0}, cost: Costs]
Purchase == [day: Days, total_cost: Nat, amount_paid: Nat, balance: Nat]
Expense  == [day: Days, amount: Amounts]

\* The tabs in the order they are read.
Tabs == <<"sales", "profit", "payments", "goods", "cashiers", "eod">>
\* What a tab shows of the sales: amount is the money that came in by it, other
\* the second column the properties need.
Tab == [amount: Int, other: Int]

Closed == [open |-> FALSE, from |-> 1, to |-> 1, tabs |-> <<>>, torn |-> FALSE]
NoForm == [open |-> FALSE, lines |-> <<>>]

\* Types; goods are paid for unless they cost nothing, and a purchase is never
\* paid beyond what it cost (reporting_repository.py:560).
TypeOK ==
    /\ day \in Days
    /\ user \in Users
    /\ product \in [Products -> [cost: Costs, quantity: Nat]]
    /\ sales \in Seq(Sale)
    /\ \A i \in DOMAIN sales : sales[i].total > 0 \/ "payment" \notin sales[i].rows
    /\ purchases \in Seq(Purchase)
    /\ expenses \in Seq(Expense)
    /\ form \in [open: BOOLEAN, lines: Seq(PurchaseLine)]
    /\ sheet \in [open: BOOLEAN, from: Days, to: Days, tabs: Seq(Tab), torn: BOOLEAN]

Init ==
    /\ day = 1
    /\ user = Admin
    /\ product = [p \in Products |-> [cost |-> Min(Costs), quantity |-> Opening]]
    /\ sales = <<>>
    /\ purchases = <<>>
    /\ expenses = <<>>
    /\ form = NoForm
    /\ sheet = Closed

-------------------------------------------------------------------------------
\* The queries

\* func.sum of a natural number over the rows of a query.
Total(f) == Cardinality(UNION {{i} \X (1 .. f[i]) : i \in DOMAIN f})

Quantity(s, p) == IF "items" \in s.rows THEN s.items[p] ELSE 0

\* Fault: a sold unit costs what the product costs now.
Cost_Now(s, p) == Quantity(s, p) * product[p].cost

Cost(s, p) == Quantity(s, p) * s.cost[p]

SaleCost(s) == Total([p \in Products |-> Cost(s, p)])

Counted(from, to) ==
    {i \in DOMAIN sales : sales[i].day \in from .. to /\ sales[i].status # "CANCELLED"}

Own(i, cashier) == cashier = None \/ sales[i].cashier = cashier

\* sales_report
SalesReport(from, to, cashier) ==
    LET rows == {i \in Counted(from, to) : Own(i, cashier)}
    IN  [total_sales |-> Total([i \in rows |-> sales[i].total]),
         total_discounts |-> Total([i \in rows |-> sales[i].discount]),
         transaction_count |-> Cardinality(rows)]

ExpensesOf(from, to) ==
    Total([i \in {i \in DOMAIN expenses : expenses[i].day \in from .. to} |-> expenses[i].amount])

CostOfSales(from, to, cashier) ==
    Total([i \in {i \in Counted(from, to) : Own(i, cashier)} |-> SaleCost(sales[i])])

\* profit_report
ProfitReport(from, to) ==
    LET total == Total([i \in Counted(from, to) |-> sales[i].total])
        cogs  == CostOfSales(from, to, None)
    IN  [total_sales |-> total, cogs |-> cogs, gross_profit |-> total - cogs,
         total_expenses |-> ExpensesOf(from, to),
         net_profit |-> total - cogs - ExpensesOf(from, to)]

\* Fault: the payments of cancelled sales are still counted.
Payments_Any(from, to, cashier) ==
    {i \in DOMAIN sales : /\ "payment" \in sales[i].rows
                          /\ sales[i].day \in from .. to /\ Own(i, cashier)}

\* Payment rows joined with their sales; a payment has the date of its sale.
Payments(from, to, cashier) ==
    {i \in DOMAIN sales : /\ "payment" \in sales[i].rows
                          /\ sales[i].day \in from .. to
                          /\ sales[i].status # "CANCELLED" /\ Own(i, cashier)}

PaidBy(method, from, to, cashier) ==
    Total([i \in {i \in Payments(from, to, cashier) : sales[i].method = method} |-> sales[i].total])

\* payment_report: its grand total leaves store credit out.
PaymentReport(from, to, cashier) ==
    LET pos == PaidBy("POS", from, to, cashier)
        transfer == PaidBy("TRANSFER", from, to, cashier)
    IN  [pos_total |-> pos, transfer_total |-> transfer, grand_total |-> pos + transfer]

\* dashboard_summary, of one date
DashboardSummary(d) ==
    LET p == ProfitReport(d, d)
    IN  [total_sales |-> p.total_sales, cogs |-> p.cogs, gross_profit |-> p.gross_profit,
         total_expenses |-> p.total_expenses, net_profit |-> p.net_profit,
         transaction_count |-> Cardinality(Counted(d, d)),
         pos_total |-> PaidBy("POS", d, d, None),
         transfer_total |-> PaidBy("TRANSFER", d, d, None)]

\* product_sales_report: joined with the item rows, before discounts
GoodsReport(from, to) ==
    [p \in Products |->
       LET sold == Total([i \in Counted(from, to) |-> Quantity(sales[i], p)])
       IN  [quantity_sold |-> sold, revenue |-> sold * Price,
            cost |-> Total([i \in Counted(from, to) |-> Cost(sales[i], p)])]]

\* cashier_sales_report: joined with the users
CashierReport(from, to) ==
    [u \in Users |->
       LET own == {i \in Counted(from, to) : sales[i].cashier = u}
       IN  [total_sales |-> Total([i \in own |-> sales[i].total]),
            transaction_count |-> Cardinality(own)]]

\* end_of_day_report: only the expenses are always the shop's
EndOfDay(d, cashier) ==
    LET s == SalesReport(d, d, cashier)
        c == CostOfSales(d, d, cashier)
        p == PaymentReport(d, d, cashier)
    IN  [total_sales |-> s.total_sales, cogs |-> c, gross_profit |-> s.total_sales - c,
         total_expenses |-> ExpensesOf(d, d),
         net_profit |-> s.total_sales - c - ExpensesOf(d, d),
         transaction_count |-> s.transaction_count,
         pos_total |-> p.pos_total, transfer_total |-> p.transfer_total]

\* purchase_report
PurchaseReport(from, to) ==
    LET rows == {i \in DOMAIN purchases : purchases[i].day \in from .. to}
    IN  [total_cost |-> Total([i \in rows |-> purchases[i].total_cost]),
         total_paid |-> Total([i \in rows |-> purchases[i].amount_paid]),
         total_balance |-> Total([i \in rows |-> purchases[i].balance])]

\* low_stock_report and the list of the dashboard
LowStock == {p \in Products : product[p].quantity <= Threshold}

\* inventory_report marks the rows itself.
InventoryReport ==
    [total_value |-> Total([p \in Products |-> product[p].cost * product[p].quantity]),
     low_stock_count |-> Cardinality({p \in Products : product[p].quantity <= Threshold})]

-------------------------------------------------------------------------------
\* What is booked

\* A page is in front of the others and a dialog in front of the page.
Idle == ~ form.open /\ ~ sheet.open

Amount(items) == Total([p \in Products |-> items[p] * Price])

Baskets == [Products -> 0 .. MaxPieces] \ {[p \in Products |-> 0]}

Booked(items, cashier, d, cost, discount, method, rows) ==
    LET total == Amount(items) - discount
    IN  /\ total >= 0
        /\ Len(sales) < MaxSales
        /\ sales' = Append(sales,
             [cashier |-> cashier, day |-> d, items |-> items, cost |-> cost,
              discount |-> discount, total |-> total, method |-> method,
              status |-> "COMPLETED",
              rows |-> IF total > 0 THEN rows ELSE rows \ {"payment"}])

Sell(items, discount, method) ==
    /\ Idle
    /\ discount > 0 => user = Admin
    /\ \A p \in Products : items[p] <= product[p].quantity
    /\ Booked(items, user, day, [p \in Products |-> product[p].cost], discount, method,
              {"items", "payment"})
    /\ product' = [p \in Products |-> [product[p] EXCEPT !.quantity = @ - items[p]]]
    /\ UNCHANGED <<day, user, purchases, expenses, form, sheet>>

\* cancel_sale: the rows stay, the goods come back.
CancelSale(i) ==
    /\ Idle /\ user = Admin
    /\ sales[i].status = "COMPLETED"
    /\ sales' = [sales EXCEPT ![i].status = "CANCELLED"]
    /\ product' = [p \in Products |->
                     [product[p] EXCEPT !.quantity = @ + Quantity(sales[i], p)]]
    /\ UNCHANGED <<day, user, purchases, expenses, form, sheet>>

\* Rows of another PC: dated when that PC sold, booked under user 1, and a page
\* of the pull may end before the rows of the sale do.
PullSale(items, d, terms, rows) ==
    /\ d <= day
    /\ Booked(items, Admin, d, terms.cost, terms.discount, terms.method, rows)
    /\ sheet' = [sheet EXCEPT !.torn = sheet.tabs # <<>> \/ @]
    /\ UNCHANGED <<day, user, product, purchases, expenses, form>>

PullCancel(i) ==
    /\ sales[i].status = "COMPLETED"
    /\ sales' = [sales EXCEPT ![i].status = "CANCELLED"]
    /\ sheet' = [sheet EXCEPT !.torn = sheet.tabs # <<>> \/ @]
    /\ UNCHANGED <<day, user, product, purchases, expenses, form>>

\* create_expense: any date may be entered.
RecordExpense(amount, d) ==
    /\ Idle /\ user = Admin
    /\ Len(expenses) < MaxExpenses
    /\ expenses' = Append(expenses, [day |-> d, amount |-> amount])
    /\ UNCHANGED <<day, user, product, sales, purchases, form, sheet>>

\* update_expense: the form asks for the date again, and nobody passes it on.
EditExpense(i, amount) ==
    /\ Idle /\ user = Admin
    /\ expenses' = [expenses EXCEPT ![i].amount = amount]
    /\ UNCHANGED <<day, user, product, sales, purchases, form, sheet>>

\* ProductService.update may write a new cost price.
EditCost(p, cost) ==
    /\ Idle /\ user = Admin
    /\ product' = [product EXCEPT ![p].cost = cost]
    /\ UNCHANGED <<day, user, sales, purchases, expenses, form, sheet>>

OpenPurchase ==
    /\ Idle /\ user = Admin
    /\ Len(purchases) < MaxPurchases
    /\ form' = [NoForm EXCEPT !.open = TRUE]
    /\ UNCHANGED <<day, user, product, sales, purchases, expenses, sheet>>

\* _add_line refuses a product that has a line.  A line cannot be removed again:
\* nothing is connected to _remove_selected.
AddLine(line) ==
    /\ form.open
    /\ \A i \in DOMAIN form.lines : form.lines[i].product # line.product
    /\ form' = [form EXCEPT !.lines = Append(@, line)]
    /\ UNCHANGED <<day, user, product, sales, purchases, expenses, sheet>>

Reject ==
    /\ form.open
    /\ form' = NoForm
    /\ UNCHANGED <<day, user, product, sales, purchases, expenses, sheet>>

\* Fault: more may be paid than it costs.
Payable_Any(paid, total) == TRUE

\* The form asks for any amount, the service compares.
Payable(paid, total) == paid <= total

\* complete_purchase: stock and cost price of every line, and the header.
CompletePurchase(paid) ==
    LET lines == form.lines
        bought(p) == {i \in DOMAIN lines : lines[i].product = p}
        total == Total([i \in DOMAIN lines |-> lines[i].quantity * lines[i].cost])
    IN  /\ form.open /\ lines # <<>>
        /\ Payable(paid, total)
        /\ purchases' = Append(purchases, [day |-> day, total_cost |-> total,
                                           amount_paid |-> paid, balance |-> total - paid])
        /\ product' = [p \in Products |->
                         IF bought(p) = {} THEN product[p]
                         ELSE LET line == lines[CHOOSE i \in bought(p) : TRUE]
                              IN  [cost |-> line.cost,
                                   quantity |-> product[p].quantity + line.quantity]]
        /\ form' = NoForm
        /\ UNCHANGED <<day, user, sales, expenses, sheet>>

NextDay ==
    /\ Idle
    /\ day < MaxDay
    /\ day' = day + 1
    /\ UNCHANGED <<user, product, sales, purchases, expenses, form, sheet>>

SignIn(u) ==
    /\ Idle
    /\ user # u
    /\ user' = u
    /\ UNCHANGED <<day, product, sales, purchases, expenses, form, sheet>>

-------------------------------------------------------------------------------
\* The report pages

\* Fault: a cashier's My Sales lists everybody's sales.
Scope_Shop == None

\* sales_report of the service: a cashier's is always his own.
Scope == IF user = Admin THEN None ELSE user

\* What each tab shows of the books as they are now.
SalesTab(from, to) ==
    LET report == SalesReport(from, to, Scope)
    IN  [amount |-> report.total_sales, other |-> report.total_discounts]

ProfitTab(from, to) ==
    LET report == ProfitReport(from, to)
    IN  [amount |-> report.total_sales, other |-> report.cogs]

PaymentsTab(from, to) ==
    [amount |-> PaymentReport(from, to, None).grand_total,
     other |-> PaidBy("CREDIT", from, to, None)]

GoodsTab(from, to) ==
    LET goods == GoodsReport(from, to)
    IN  [amount |-> Total([p \in Products |-> goods[p].revenue]),
         other |-> Total([p \in Products |-> goods[p].cost])]

CashiersTab(from, to) ==
    LET cashiers == CashierReport(from, to)
    IN  [amount |-> Total([u \in Users |-> cashiers[u].total_sales]),
         other |-> Total([u \in Users |-> cashiers[u].transaction_count])]

\* The end of day is today's, whatever the dates say, and a cashier's is his own.
DayTab ==
    LET report == EndOfDay(day, IF user = Admin THEN None ELSE user)
    IN  [amount |-> report.total_sales, other |-> report.cogs]

Read(tab, from, to) ==
    CASE tab = "sales"    -> SalesTab(from, to)
      [] tab = "profit"   -> ProfitTab(from, to)
      [] tab = "payments" -> PaymentsTab(from, to)
      [] tab = "goods"    -> GoodsTab(from, to)
      [] tab = "cashiers" -> CashiersTab(from, to)
      [] tab = "eod"      -> DayTab

\* My Sales has two of them.
OwnTabs == IF user = Admin THEN Tabs ELSE <<"sales", "eod">>

OpenReports(from, to) ==
    /\ Idle
    /\ sheet' = [Closed EXCEPT !.open = TRUE, !.from = from, !.to = to]
    /\ UNCHANGED <<day, user, product, sales, purchases, expenses, form>>

\* _run_all_tabs and _run_report go on to the next query.
ReadTab ==
    LET n == Len(sheet.tabs) + 1
    IN  /\ sheet.open /\ n <= Len(OwnTabs)
        /\ sheet' = [sheet EXCEPT !.tabs = Append(@, Read(OwnTabs[n], sheet.from, sheet.to))]
        /\ UNCHANGED <<day, user, product, sales, purchases, expenses, form>>

CloseReports ==
    /\ sheet.open /\ Len(sheet.tabs) = Len(OwnTabs)
    /\ sheet' = Closed
    /\ UNCHANGED <<day, user, product, sales, purchases, expenses, form>>

-------------------------------------------------------------------------------

Pull ==
    \/ \E items \in Baskets, d \in Days, terms \in Terms, rows \in SUBSET {"items", "payment"} :
         PullSale(items, d, terms, rows)
    \/ \E i \in DOMAIN sales : PullCancel(i)

Next ==
    \/ \E items \in Baskets, discount \in Discounts, method \in Methods :
         Sell(items, discount, method)
    \/ \E i \in DOMAIN sales : CancelSale(i)
    \/ Pull
    \/ \E amount \in Amounts, d \in Days : RecordExpense(amount, d)
    \/ \E amount \in Amounts, i \in DOMAIN expenses : EditExpense(i, amount)
    \/ \E p \in Products, cost \in Costs : EditCost(p, cost)
    \/ OpenPurchase \/ Reject
    \/ \E line \in [product: Products, quantity: 1 .. MaxPieces, cost: Costs] : AddLine(line)
    \/ \E paid \in 0 .. MaxPaid : CompletePurchase(paid)
    \/ NextDay
    \/ \E u \in Users : SignIn(u)
    \/ \E from, to \in Days : OpenReports(from, to)
    \/ ReadTab \/ CloseReports

Spec == Init /\ [][Next]_vars

===============================================================================

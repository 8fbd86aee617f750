---------------------------- MODULE BooksProperties -----------------------------
(***************************************************************************)
(* What the reports must agree on, and what they may not forget.           *)
(***************************************************************************)
EXTENDS Books

\* Every sale is here with all of its rows.
Whole == \A i \in DOMAIN sales :
            /\ "items" \in sales[i].rows
            /\ sales[i].total > 0 => "payment" \in sales[i].rows

\* With no page open (an open page changes nothing of the books):
\* eleven queries with where clauses of their own tell one story: the dashboard
\* and the end of day agree, days add up to the period, cashiers to the shop,
\* goods less discounts and payments with store credit to the sales
\* (reporting_repository.py:233-748).
ReportsAgree ==
    Whole /\ ~ sheet.open =>
    /\ \A d \in Days : DashboardSummary(d) = EndOfDay(d, None)
    /\ LET period == ProfitReport(1, MaxDay)
           goods  == GoodsReport(1, MaxDay)
           total  == SalesReport(1, MaxDay, None)
       IN  /\ \A f \in {"total_sales", "cogs", "total_expenses"} :
                period[f] = Total([d \in Days |-> DashboardSummary(d)[f]])
           /\ total.total_sales = Total([p \in Products |-> goods[p].revenue])
                                    - total.total_discounts
           /\ period.cogs = Total([p \in Products |-> goods[p].cost])
           /\ total.total_sales = PaymentReport(1, MaxDay, None).grand_total
                                    + PaidBy("CREDIT", 1, MaxDay, None)
    /\ LET bought == PurchaseReport(1, MaxDay)
       IN  bought.total_cost = bought.total_paid + bought.total_balance
    /\ InventoryReport.low_stock_count = Cardinality(LowStock)
    /\ \A d \in Days, f \in {"total_sales", "cogs"} :
         EndOfDay(d, None)[f] = Total([u \in Users |-> EndOfDay(d, u)[f]])

\* The figures of a day follow from that day's documents alone: neither a new
\* cost price, nor a purchase, nor a sale or an expense of another day rewrites
\* them (models.py:311: "cost_price is the historical unit cost").
Of(d, list) == [i \in {i \in DOMAIN list : list[i].day = d} |-> list[i]]

DocumentsOf(d) == <<Of(d, sales), Of(d, expenses)>>

ClosedDaysAreKept ==
    [][ \A d \in Days :
          DocumentsOf(d)' = DocumentsOf(d) => DashboardSummary(d)' = DashboardSummary(d) ]_vars

\* The tabs of one run of the Reports page, and the two figures of My Sales,
\* agree unless the worker committed something between two queries
\* (reports_page.py:266, my_sales_page.py:129).
SheetAgrees ==
    LET t == sheet.tabs
        today == sheet.from = day /\ sheet.to = day
    IN  Whole /\ sheet.open /\ ~ sheet.torn /\ Len(t) = Len(OwnTabs) =>
          /\ today => t[Len(t)].amount = t[1].amount
          /\ user = Admin =>
               /\ t[1].amount = t[2].amount
               /\ t[1].amount = t[3].amount + t[3].other
               /\ t[1].amount + t[1].other = t[4].amount
               /\ t[2].other = t[4].other
               /\ t[1].amount = t[5].amount
               /\ today => t[6].other = t[2].other

===============================================================================

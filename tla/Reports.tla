------------------------------ MODULE Reports ------------------------------
(***************************************************************************)
(* AnalyticsService: reports over the orders, the ledger and the cart      *)
(* sessions, summed at the time of the request.  A report is several       *)
(* queries run side by side, each on what is committed when it runs, while *)
(* orders are placed, completed and cancelled.                             *)
(*                                                                         *)
(* The log is the sequence of committed changes, so a query is known by    *)
(* how much of it had been committed.  Time is a number of instants, and a *)
(* row carries the time of its statement, not of its commit.  A SellerOrder *)
(* is of one product, which stands for its seller's assortment, in some     *)
(* quantity and at the price of the day.                                    *)
(***************************************************************************)
EXTENDS Integers, Sequences, FiniteSets, Functions

CONSTANTS
  Shops,        \* sellers, as numbers: ties are broken by id
  Baskets,      \* orders, whether placed from a cart or for an auction won
  Units,        \* Units[so]: the quantity of the SellerOrder so
  Gross, Fee,   \* Gross[so], Fee[so]: what it costs, and the commission on that
  DayLength,    \* instants of a day
  LastInstant,  \* bound: the clock stops there
  MaxCommits,   \* bound: the length of the log
  DefaultDays,  \* DEFAULT_PERIOD_DAYS, 30
  MaxDays,      \* MAX_PERIOD_DAYS, 366
  TopN,         \* TOP_N, 5
  Missing       \* a query parameter that is not given

(* Of getSellerReport, and what getPlatformReport has besides. *)
SellerFigures == {"totals", "orders", "topProducts", "chart", "previousTotals", "previousOrders"}
Figures == SellerFigures \union {"conversion", "topSellers"}

ASSUME ShopAssumption ==
  /\ Shops \subseteq Nat /\ IsFiniteSet(Shops)
  /\ \A so \in Baskets \X Shops :
       Units[so] \in Nat \ {0} /\ Gross[so] \in Nat /\ Fee[so] \in 0 .. Gross[so]
ASSUME TimeAssumption ==
  /\ DayLength \in Nat \ {0} /\ LastInstant \in Nat /\ MaxCommits \in Nat
  /\ DefaultDays \in Nat \ {0} /\ MaxDays \in Nat
  /\ TopN \in Nat \ {0} /\ Missing \notin Nat

VARIABLES
  clock,   \* the instant it is
  log,     \* the committed changes, in order
  open,    \* open[o]: the transaction on basket o that is under way
  report   \* the report being compiled

reportVars == << clock, log, open, report >>

Instants == 0 .. LastInstant
SellerOrderIds == Baskets \X Shops

(* placedAt is that of the Order and its SellerOrders, at of the entries. *)
Changes ==
  [op : {"cart"}, basket : Baskets, at : Instants]
    \union [op : {"sale"}, basket : Baskets, shops : SUBSET Shops,
            placedAt : Instants, at : Instants]
    \union [op : {"cancel"}, so : SellerOrderIds, at : Instants]
    \union [op : {"complete"}, so : SellerOrderIds]

(* The seller is resolved from the caller, never a parameter. *)
FiguresFor(seller) == IF seller = Missing THEN Figures ELSE SellerFigures

Periods == [from : Int, to : Int]
None == [op |-> "none"]
NoReport == [pc |-> "idle"]

ReportsTypeOK ==
  /\ clock \in Instants
  /\ log \in Seq(Changes) /\ Len(log) <= MaxCommits
  /\ open \in [Baskets -> {None}
       \union [op : {"sale"}, shops : SUBSET Shops, at : Instants]
       \union [op : {"cancel"}, shop : Shops, at : Instants]]
  /\ \/ report = NoReport
     \/ /\ DOMAIN report = {"pc", "seller", "seen", "period"}
        /\ report.pc = "reading" /\ report.period \in Periods
        /\ report.seller \in Shops \union {Missing}
        /\ DOMAIN report.seen \subseteq FiguresFor(report.seller)
        /\ \A part \in DOMAIN report.seen : report.seen[part] \in 0 .. Len(log)

-----------------------------------------------------------------------------
(* Periods (period.ts) *)

StartOfDay(t) == t - (t % DayLength)

(* What an empty or reversed range, or one too long, resolves to. *)
BadRequest == [from |-> 0, to |-> 0]

(* to is the last day that is included. *)
ResolvePeriod(from, to, now) ==
  LET end == StartOfDay(IF to = Missing THEN now ELSE to) + DayLength
      start == IF from = Missing THEN end - DefaultDays * DayLength
               ELSE StartOfDay(from)
  IN  IF start >= end \/ end - start > MaxDays * DayLength
      THEN BadRequest
      ELSE [from |-> start, to |-> end]

PreviousPeriod(p) == [from |-> p.from - (p.to - p.from), to |-> p.from]

(* Half-open. *)
Within_Closed(t, p) == p.from <= t /\ t <= p.to
Within(t, p) == p.from <= t /\ t < p.to

Days(p) == {d \in p.from .. p.to - 1 : d % DayLength = 0}
Day(d) == [from |-> d, to |-> d + DayLength]

(* percentChange in tenths of a percent, rounded half up; {} for null. *)
PercentChange(current, previous) ==
  LET base == IF previous < 0 THEN -previous ELSE previous
  IN  IF previous = 0 THEN {}
      ELSE {(2000 * (current - previous) + base) \div (2 * base)}

-----------------------------------------------------------------------------
(* Rows: what the first n changes have left in the tables *)

Committed(n, op) == {log[i] : i \in {j \in 1 .. n : log[j].op = op}}

SaleOf(so, n) == {s \in Committed(n, "sale") : s.basket = so[1] /\ so[2] \in s.shops}
Placed(n) == {so \in SellerOrderIds : SaleOf(so, n) # {}}
CreatedAt(so, n) == (CHOOSE s \in SaleOf(so, n) : TRUE).placedAt
Cancelled(n) == {c.so : c \in Committed(n, "cancel")}
Completed(n) == {c.so : c \in Committed(n, "complete")} \ Cancelled(n)

(* Each entry is known by its type and SellerOrder: a SALE and a COMMISSION *)
(* for each SellerOrder, a REFUND and an ADJUSTMENT for each cancelled one. *)
Entries(n) ==
  (UNION {{[type |-> type, so |-> << s.basket, h >>, at |-> s.at] :
             type \in {"SALE", "COMMISSION"}, h \in s.shops} : s \in Committed(n, "sale")})
  \union {[type |-> type, so |-> c.so, at |-> c.at] :
            type \in {"REFUND", "ADJUSTMENT"}, c \in Committed(n, "cancel")}

(* Signed from the seller's point of view. *)
Amount(e) ==
  CASE e.type = "SALE" -> Gross[e.so]
    [] e.type = "COMMISSION" -> -Fee[e.so]
    [] e.type = "REFUND" -> -Gross[e.so]
    [] e.type = "ADJUSTMENT" -> Fee[e.so]

SumOf(entries, type) ==
  SumFunction([e \in {x \in entries : x.type = type} |-> Amount(e)])

-----------------------------------------------------------------------------
(* Figures (analytics.service.ts, revenue.ts and the SQL of the repository) *)

EntriesIn(n, p, shops) ==
  {e \in Entries(n) : Within(e.at, p) /\ e.so[2] \in shops}

(* foldRevenue: a payout is never part of it. *)
FoldRevenue(entries) ==
  LET netSales == SumOf(entries, "SALE") + SumOf(entries, "REFUND")
      platformCommission == -(SumOf(entries, "COMMISSION") + SumOf(entries, "ADJUSTMENT"))
  IN  [netSales |-> netSales, platformCommission |-> platformCommission,
       sellerNet |-> netSales - platformCommission]

LedgerTotals(n, p, shops) == FoldRevenue(EntriesIn(n, p, shops))

(* Orders placed in the period, by what they are now: of the platform whole *)
(* orders, of a seller his SellerOrders.                                    *)
OrderCounts(n, p) ==
  LET placed == {s.basket : s \in {x \in Committed(n, "sale") : Within(x.placedAt, p)}}
      parts(o) == {so \in Placed(n) : so[1] = o}
      over(o) == parts(o) \subseteq Completed(n) \union Cancelled(n)
  IN  [placed |-> Cardinality(placed),
       completed |-> Cardinality({o \in placed : parts(o) \subseteq Completed(n)}),
       cancelled |-> Cardinality({o \in placed : over(o) /\ parts(o) \cap Cancelled(n) # {}})]

SellerOrderCounts(n, p, h) ==
  LET placed == {so \in Placed(n) : so[2] = h /\ Within(CreatedAt(so, n), p)}
  IN  [placed |-> Cardinality(placed),
       completed |-> Cardinality(placed \cap Completed(n)),
       cancelled |-> Cardinality(placed \cap Cancelled(n))]

(* The best first, the smaller id of two that are equal. *)
Ranked(S, value, limit) ==
  LET before(h) == {k \in S : value[k] > value[h] \/ (value[k] = value[h] /\ k < h)}
      places == {h \in S : Cardinality(before(h)) < limit}
  IN  [i \in 1 .. Cardinality(places) |-> CHOOSE h \in places : Cardinality(before(h)) = i - 1]

Sold(h, n, p) ==
  {so \in Placed(n) \ Cancelled(n) : so[2] = h /\ Within(CreatedAt(so, n), p)}

TopProduct(h, sold) ==
  [product |-> h, unitsSold |-> SumFunctionOnSet(Units, sold),
   revenue |-> SumFunctionOnSet(Gross, sold)]

(* By what they brought in, at the prices they were sold for. *)
TopProducts(n, p, shops) ==
  LET revenue == [h \in shops |-> SumFunctionOnSet(Gross, Sold(h, n, p))]
      top == Ranked({h \in shops : Sold(h, n, p) # {}}, revenue, TopN)
  IN  [i \in DOMAIN top |-> TopProduct(top[i], Sold(top[i], n, p))]

TopSeller(h, entries) ==
  [seller |-> h, revenue |-> FoldRevenue(entries),
   orderCount |-> Cardinality({e.so : e \in entries})]

TopSellers(n, p) ==
  LET net == [h \in Shops |-> LedgerTotals(n, p, {h}).netSales]
      top == Ranked({h \in Shops : EntriesIn(n, p, {h}) # {}}, net, TopN)
  IN  [i \in DOMAIN top |-> TopSeller(top[i], EntriesIn(n, p, {top[i]}))]

ChartPoint(entries) ==
  [revenue |-> FoldRevenue(entries),
   orders |-> Cardinality({e.so : e \in {x \in entries : x.type = "SALE"}})]

(* One row for each day, the quiet ones too. *)
DailySales(n, p, shops) ==
  [d \in Days(p) |-> ChartPoint(EntriesIn(n, Day(d), shops))]

(* Of the cart sessions started in the period, those that ever converted:   *)
(* an order closes every session that its cart has open.                    *)
Conversion(n, p) ==
  LET started == {i \in 1 .. n : log[i].op = "cart" /\ Within(log[i].at, p)}
      converted == {i \in started :
        \E j \in i + 1 .. n : log[j].op = "sale" /\ log[j].basket = log[i].basket}
  IN  [cartsStarted |-> Cardinality(started), cartsConverted |-> Cardinality(converted)]

(* Tenths of a percent; {} for null. *)
Rate(c) ==
  IF c.cartsStarted = 0 THEN {}
  ELSE {(2000 * c.cartsConverted + c.cartsStarted) \div (2 * c.cartsStarted)}

(* buildComparison, from the two totals and the two numbers of orders. *)
Comparison(totals, previousTotals, placed, previousPlaced) ==
  [netSales |-> PercentChange(totals.netSales, previousTotals.netSales),
   platformCommission |->
     PercentChange(totals.platformCommission, previousTotals.platformCommission),
   orders |-> PercentChange(placed, previousPlaced)]

Placements(seller, n, p) ==
  IF seller = Missing THEN OrderCounts(n, p) ELSE SellerOrderCounts(n, p, seller)

-----------------------------------------------------------------------------
(* The business that goes on: one transaction at a time on a basket *)

Commit(change) == Len(log) < MaxCommits /\ log' = Append(log, change)
Now == Len(log)

Tick ==
  /\ clock < LastInstant
  /\ clock' = clock + 1
  /\ UNCHANGED << log, open, report >>

(* An item put into a cart without an open session opens one; two at once   *)
(* may open two.                                                            *)
StartSession(o) ==
  /\ open[o] = None
  /\ Cardinality({i \in 1 .. Now : log[i].op = "cart" /\ log[i].basket = o}) < 2
  /\ \A s \in Committed(Now, "sale") : s.basket # o
  /\ Commit([op |-> "cart", basket |-> o, at |-> clock])
  /\ UNCHANGED << clock, open, report >>

BeginSale(o, shops) ==
  /\ open[o] = None
  /\ \A s \in Committed(Now, "sale") : s.basket # o
  /\ open' = [open EXCEPT ![o] = [op |-> "sale", shops |-> shops, at |-> clock]]
  /\ UNCHANGED << clock, log, report >>

(* Each statement of a transaction has its time. *)
Stamps(o) == open[o].at .. clock

CommitSale(o) ==
  /\ open[o].op = "sale"
  /\ \E at \in Stamps(o) :
       Commit([op |-> "sale", basket |-> o, shops |-> open[o].shops,
               placedAt |-> open[o].at, at |-> at])
  /\ open' = [open EXCEPT ![o] = None]
  /\ UNCHANGED << clock, report >>

BeginCancel(o, h) ==
  /\ open[o] = None
  /\ << o, h >> \in Placed(Now) \ Cancelled(Now)
  /\ open' = [open EXCEPT ![o] = [op |-> "cancel", shop |-> h, at |-> clock]]
  /\ UNCHANGED << clock, log, report >>

(* The reversal is appended when it happens, never dated back. *)
ReversalStamps_Backdated(o) ==
  {s.at : s \in SaleOf(<< o, open[o].shop >>, Now)}
ReversalStamps(o) == Stamps(o)

CommitCancel(o) ==
  /\ open[o].op = "cancel"
  /\ \E at \in ReversalStamps(o) :
       Commit([op |-> "cancel", so |-> << o, open[o].shop >>, at |-> at])
  /\ open' = [open EXCEPT ![o] = None]
  /\ UNCHANGED << clock, report >>

RollBack(o) ==
  /\ open[o] # None
  /\ open' = [open EXCEPT ![o] = None]
  /\ UNCHANGED << clock, log, report >>

CompleteSellerOrder(o, h) ==
  /\ open[o] = None
  /\ << o, h >> \in Placed(Now) \ (Completed(Now) \union Cancelled(Now))
  /\ Commit([op |-> "complete", so |-> << o, h >>])
  /\ UNCHANGED << clock, open, report >>

-----------------------------------------------------------------------------
(* getPlatformReport and getSellerReport *)

CompileReport(seller, from, to) ==
  /\ report = NoReport
  /\ ResolvePeriod(from, to, clock) # BadRequest
  /\ report' = [pc |-> "reading", seller |-> seller, seen |-> << >>,
                period |-> ResolvePeriod(from, to, clock)]
  /\ UNCHANGED << clock, log, open >>

GetPlatformReport(from, to) == CompileReport(Missing, from, to)
GetSellerReport(h, from, to) == CompileReport(h, from, to)

(* An export is cut out of a platform report compiled like any other. *)
ExportDataset(from, to) == GetPlatformReport(from, to)

(* Promise.all: the queries run in any order, each on its own snapshot. *)
Read(part) ==
  /\ report.pc = "reading"
  /\ part \in FiguresFor(report.seller) \ DOMAIN report.seen
  /\ report' = [report EXCEPT !.seen =
       [q \in DOMAIN @ \union {part} |-> IF q = part THEN Now ELSE @[q]]]
  /\ UNCHANGED << clock, log, open >>

(* What the report, or an export of it, shows once its figures are in. *)
DatasetRows(dataset) ==
  LET p == report.period
      seen == report.seen
      shops == IF report.seller = Missing THEN Shops ELSE {report.seller}
      before == PreviousPeriod(p)
      revenue == LedgerTotals(seen["totals"], p, shops)
      previous == LedgerTotals(seen["previousTotals"], before, shops)
      orders == Placements(report.seller, seen["orders"], p)
      previousPlaced == Placements(report.seller, seen["previousOrders"], before).placed
  IN  CASE dataset = "sales-chart" -> DailySales(seen["chart"], p, shops)
        [] dataset = "top-products" -> TopProducts(seen["topProducts"], p, shops)
        [] dataset = "top-sellers" -> TopSellers(seen["topSellers"], p)
        [] dataset = "summary" ->
             [revenue |-> revenue, previous |-> previous,
              orders |-> orders, previousPlaced |-> previousPlaced,
              comparison |-> Comparison(revenue, previous, orders.placed, previousPlaced)]

(* All are in, or one of them failed and the report with it. *)
Answer ==
  /\ report.pc = "reading"
  /\ report' = NoReport
  /\ UNCHANGED << clock, log, open >>

ReportsInit ==
  /\ clock = 0 /\ log = << >>
  /\ open = [o \in Baskets |-> None]
  /\ report = NoReport

Trade ==
  \/ Tick
  \/ \E o \in Baskets : StartSession(o) \/ CommitSale(o) \/ CommitCancel(o) \/ RollBack(o)
  \/ \E o \in Baskets, shops \in (SUBSET Shops) \ {{}} : BeginSale(o, shops)
  \/ \E o \in Baskets, h \in Shops : BeginCancel(o, h) \/ CompleteSellerOrder(o, h)

Compile ==
  \/ \E from, to \in Instants \union {Missing} :
       \/ GetPlatformReport(from, to) \/ ExportDataset(from, to)
       \/ \E h \in Shops : GetSellerReport(h, from, to)
  \/ \E part \in Figures : Read(part)
  \/ Answer

ReportsNext == Trade \/ Compile

ReportsSpec == ReportsInit /\ [][ReportsNext]_reportVars

-----------------------------------------------------------------------------
(* Properties *)

Plus(r, s) == [f \in DOMAIN r |-> r[f] + s[f]]
Nothing == [netSales |-> 0, platformCommission |-> 0, sellerNet |-> 0]
SumOfRevenues(revenue) ==
  [f \in DOMAIN Nothing |-> SumFunction([x \in DOMAIN revenue |-> revenue[x][f]])]

(* A rise is never shown as a fall. *)
Rises(changes, current, previous) ==
  \A tenths \in changes :
    (current >= previous => tenths >= 0) /\ (current <= previous => tenths <= 0)

(* Figures that a report has read from one state of the database add up: the *)
(* days of the chart and the rows of all sellers to the totals, and this    *)
(* period and the one before it to the two together, so that no entry falls *)
(* into two days or two periods or between them; a seller has products to   *)
(* show when and only when not all he was ordered is cancelled; no more     *)
(* orders end than were placed, and no more carts convert than were         *)
(* started; and the comparison points the right way, though a period of     *)
(* refunds alone is below zero (AnalyticsService, "always reconciles with   *)
(* the platform totals"; period.ts, "without double-counting whatever       *)
(* landed on it").                                                          *)
ReportAddsUp ==
  report.pc = "reading" /\ DOMAIN report.seen = FiguresFor(report.seller) =>
    LET p == report.period
        seen == report.seen
        AtOnce(f, g) == {f, g} \subseteq DOMAIN seen /\ seen[f] = seen[g]
        shops == IF report.seller = Missing THEN Shops ELSE {report.seller}
        summary == DatasetRows("summary")
        totals == summary.revenue
        placements == summary.orders
        sellers == DatasetRows("top-sellers")
        products == DatasetRows("top-products")
        chart == DatasetRows("sales-chart")
    IN  /\ AtOnce("totals", "chart") =>
             totals = SumOfRevenues([d \in Days(p) |-> chart[d].revenue])
        /\ AtOnce("totals", "topSellers") /\ Cardinality(Shops) <= TopN =>
             totals = SumOfRevenues([i \in DOMAIN sellers |-> sellers[i].revenue])
        /\ AtOnce("totals", "previousTotals") =>
             Plus(totals, summary.previous) =
               LedgerTotals(seen["totals"],
                            [from |-> PreviousPeriod(p).from, to |-> p.to], shops)
        /\ AtOnce("orders", "topProducts") /\ report.seller # Missing =>
             (DOMAIN products = {} <=> placements.placed = placements.cancelled)
        /\ placements.completed + placements.cancelled <= placements.placed
        /\ Rises(summary.comparison.netSales, totals.netSales, summary.previous.netSales)
        /\ Rises(summary.comparison.orders, placements.placed, summary.previousPlaced)
        /\ "conversion" \in DOMAIN seen =>
             \A tenths \in Rate(Conversion(seen["conversion"], p)) : tenths \in 0 .. 1000


EarnedOn(d) == LedgerTotals(Now, Day(d), Shops)

(* The books of a period that is over are closed: only a transaction that    *)
(* made its entries before the end of the period and had not committed yet   *)
(* still changes what it earned (LedgerEntry.createdAt; the reversal of      *)
(* restoreStockAndReverseLedger counts when it is made).                     *)
ClosedPeriodsStay ==
  [][\A d \in {x \in Instants : x % DayLength = 0} :
       log' # log /\ Day(d).to <= clock /\ EarnedOn(d)' # EarnedOn(d) =>
         \E o \in Baskets : open[o] # None /\ open'[o] = None /\ open[o].at < Day(d).to]_reportVars

=============================================================================

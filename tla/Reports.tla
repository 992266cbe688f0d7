-------------------------------- MODULE Reports --------------------------------
(* What a sale amounts to and on which day it is reported                      *)
(* (src/main/checkout/checkoutCalculation.ts, src/main/reports/,               *)
(* src/main/salesHistory/).                                                    *)
(*                                                                             *)
(* A sale keeps the amounts worked out when it was completed; its business day *)
(* is worked out whenever somebody looks, from the instant of completion and   *)
(* the time zone configured by then.                                           *)
EXTENDS Integers, Sequences, FiniteSets, FiniteSetsExt

CONSTANTS
  Menu,      \* lines a cart may have: listed and sold price in cents, quantity
  Rates,     \* tax rates in basis points
  Zones,     \* IANA time zones: the seeded "America/Chicago", and "UTC" for one unknown
  Offset,    \* of a zone at an instant, in hours: daylight saving included
  Instants,  \* the hours at which something happens
  MaxBooked  \* bound on the sales

\* A price is no negative amount, and a tax rate one of the finitely many that the
\* settings take (settingsRepository.ts:47).
ASSUME ReportsAssumption ==
  /\ IsFiniteSet(Menu) /\ Menu \subseteq [listed: Nat, sold: Nat, quantity: Nat]
  /\ Rates \subseteq Nat /\ Rates # {} /\ IsFiniteSet(Rates)
  /\ Instants \subseteq Nat /\ Instants # {}

VARIABLES
  book,      \* sales, in the order of their completion
  rate,      \* tax_rate_bps
  zone,      \* business_timezone
  hour       \* the clock

reportsVars == <<book, rate, zone, hour>>

-------------------------------------------------------------------------------
(* checkoutCalculation.ts                                                      *)

ListedSubtotal(line) == line.listed * line.quantity
LineTotal(line) == line.sold * line.quantity

\* A price negotiated above the listed one is no negative discount.
LineDiscount(line) ==
  IF line.sold < line.listed THEN (line.listed - line.sold) * line.quantity ELSE 0

\* Mutated: the fraction of a cent is dropped.
TruncateTaxCents(taxable, bps) == (taxable * bps) \div 10000

\* Integer arithmetic that rounds half a cent up, once for the whole sale.
CalculateTaxCents(taxable, bps) == (taxable * bps + 5000) \div 10000

Subtotal(lines) == MapThenSumSet(ListedSubtotal, lines)
Discount(lines) == MapThenSumSet(LineDiscount, lines)
Taxable(lines) == MapThenSumSet(LineTotal, lines)

ReviewTotals(lines, bps) ==
  LET tax == CalculateTaxCents(Taxable(lines), bps)
  IN [subtotal |-> Subtotal(lines), discount |-> Discount(lines),
      taxable |-> Taxable(lines), bps |-> bps, tax |-> tax, total |-> Taxable(lines) + tax]

-------------------------------------------------------------------------------
(* Sales, voids and settings, reduced to what a report reads.                  *)

Complete(lines, method) ==
  /\ Len(book) < MaxBooked
  /\ book' = Append(book, [at |-> hour, voided |-> FALSE, method |-> method,
                           lines |-> lines, amounts |-> ReviewTotals(lines, rate)])
  /\ UNCHANGED <<rate, zone, hour>>

VoidBooked(k) ==
  /\ k \in DOMAIN book /\ ~book[k].voided
  /\ book' = [book EXCEPT ![k].voided = TRUE]
  /\ UNCHANGED <<rate, zone, hour>>

ConfigureTax == rate' \in Rates \ {rate} /\ UNCHANGED <<book, zone, hour>>

\* External: no screen writes business_timezone.
ZoneChanges == zone' \in Zones \ {zone} /\ UNCHANGED <<book, rate, hour>>
ClockTicks ==
  /\ hour' \in {t \in Instants : t > hour}
  /\ UNCHANGED <<book, rate, zone>>

-------------------------------------------------------------------------------
(* What the owner reads.                                                       *)

\* deriveBusinessDate.
BusinessDate(at) == (at + Offset[zone][at]) \div 24

\* salesHistoryService.list for one date, newest first.
HistoryOf(day) ==
  LET list[k \in 0..Len(book)] ==
        IF k = 0 THEN <<>>
        ELSE IF BusinessDate(book[k].at) = day THEN <<book[k]>> \o list[k - 1]
        ELSE list[k - 1]
  IN list[Len(book)]

\* The sum of one amount over some sales.
Summed(amount, sales) == MapThenSumSet(LAMBDA k: book[k].amounts[amount], sales)

SalesOf(day) == {k \in DOMAIN book : BusinessDate(book[k].at) = day}
Kept == {k \in DOMAIN book : ~book[k].voided}

\* dailyReportService.daily.
DailyReport(day) ==
  LET completed == SalesOf(day) \cap Kept
      paid(method) == {k \in completed : book[k].method = method}
  IN [completed |-> Cardinality(completed),
      voided |-> Cardinality(SalesOf(day) \ completed),
      gross |-> Summed("subtotal", completed), discount |-> Summed("discount", completed),
      tax |-> Summed("tax", completed), total |-> Summed("total", completed),
      cash |-> Summed("total", paid("CASH")), card |-> Summed("total", paid("CARD"))]

ReportsInit ==
  /\ book = <<>> /\ hour = Min(Instants) /\ zone = "America/Chicago" /\ rate = Max(Rates)

ReportsNext ==
  \/ \E lines \in SUBSET Menu, method \in {"CASH", "CARD"}:
       lines # {} /\ Complete(lines, method)
  \/ \E k \in DOMAIN book: VoidBooked(k)
  \/ ConfigureTax \/ ZoneChanges \/ ClockTicks

ReportsSpec == ReportsInit /\ [][ReportsNext]_reportsVars

-------------------------------------------------------------------------------
(* Properties.                                                                 *)

\* What the reports of some days say was taken in all, and what the lines of some sales
\* come to, without their tax; and that tax, in ten-thousandths of a cent.
Takings(days) == MapThenSumSet(LAMBDA day: DailyReport(day).total, days)
Payable(sales) == MapThenSumSet(LAMBDA k: Taxable(book[k].lines), sales)
ExactTax(sales) ==
  MapThenSumSet(LAMBDA k: Taxable(book[k].lines) * book[k].amounts.bps, sales)

\* A day's report against the sales it is of.
DayBalances(d) ==
  LET day == DailyReport(d)
      exact == ExactTax(SalesOf(d) \cap Kept)
  IN /\ day.completed + day.voided = Len(HistoryOf(d))
     /\ day.cash + day.card = day.total
     /\ day.total - day.tax = Payable(SalesOf(d) \cap Kept)
     /\ day.gross - day.discount <= day.total - day.tax
     /\ \/ day.completed = 0
        \/ 10000 * day.tax \in (exact - 5000 * day.completed + 1) ..
                               (exact + 5000 * day.completed)

\* Every completed sale is in the totals of one day, however the zone was changed
\* since: the days add up to the book, a day to its Cash and Card sales and to what
\* its customers paid for their lines, and the tax in it is within half a cent a sale
\* of the rates its sales were made at (dailyReportService.ts:60).
ReportsBalance ==
  LET days == {BusinessDate(book[k].at) : k \in DOMAIN book}
  IN Takings(days) = Summed("total", Kept) /\ \A d \in days: DayBalances(d)
===============================================================================

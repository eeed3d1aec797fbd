----------------------------- MODULE ReportChecks -----------------------------
(***************************************************************************)
(* The algorithms of the reports against what they are to compute, on      *)
(* bounded inputs.  TLC evaluates each ASSUME once, before a run.          *)
(***************************************************************************)
EXTENDS TradeReports, DemandInsights

CONSTANT Quantities                             \* quantities and revenues to try

\* An ABC analysis gives every product that sold one class, A before B before
\* C; what is in A, and what is in A and B, earned at most its threshold, and
\* one more product would exceed it.
AbcIsPareto(revenue, a, b) ==
    LET rows == AbcClasses(revenue, a, b)
        all == SeriesSum(revenue)
        earned(classes) == MapThenSumSet(LAMBDA k : revenue[rows[k].product],
                                         {k \in DOMAIN rows : rows[k].class \in classes})
        full(classes, limit) ==
            /\ 100 * earned(classes) <= limit * all
            /\ \A k \in DOMAIN rows : rows[k].class \notin classes =>
                  100 * (earned(classes) + revenue[rows[k].product]) > limit * all
                    \/ \E j \in 1..(k - 1) : rows[j].class \notin classes
    IN  /\ {rows[k].product : k \in DOMAIN rows} = {p \in DOMAIN revenue : revenue[p] > 0}
        /\ Len(rows) = Cardinality({rows[k].product : k \in DOMAIN rows})
        /\ \A j, k \in DOMAIN rows : j < k => revenue[rows[j].product] >= revenue[rows[k].product]
        /\ full({"A"}, a) /\ full({"A", "B"}, b)

ASSUME AbcHolds == \A revenue \in [Products -> Quantities] : AbcIsPareto(revenue, 80, 95)

\* The history that a forecast is fitted to holds every movement of its window
\* once, on the local day it was made.
ASSUME HistoryIsWhole ==
    \A days \in [1..3 -> 1..(ForecastHistoryDays + 1)], sold \in Quantities :
        LET outs == [i \in 1..3 |-> [product |-> "p", qty |-> sold + i, day |-> days[i], utc |-> days[i]]]
            today == ForecastHistoryDays + 1
            y == History(outs, "p", today)
        IN  /\ SeriesSum(y) = QuantityOf(outs, OutsOf(outs, "p", today - ForecastHistoryDays + 1))
            /\ \A i \in 1..3 : days[i] > 1 => y[days[i] - 2] >= outs[i].qty

\* The fitted line of a history is the least squares line: the residuals sum
\* to zero, also weighted by the day, so no other line is closer to it.
FitIsLeastSquares(y) ==
    LET fit == LinearRegression(y)
        residual(x) == y[x] * fit.n * fit.den - Fitted(fit, x)
    IN  /\ MapThenSumSet(residual, DOMAIN y) = 0
        /\ MapThenSumSet(LAMBDA x : x * residual(x), DOMAIN y) = 0

ASSUME ForecastHolds ==
    \A n \in 1..ForecastHistoryDays : \A y \in [0..(n - 1) -> Quantities] :
        /\ FitIsLeastSquares(y)
        /\ (\A x \in DOMAIN y : y[x] = y[0]) => /\ Trend(y) = "stable"
              /\ ForecastSeries(y, 1)[0] = y[0] * LinearRegression(y).n * LinearRegression(y).den

\* Movements of one product, all on day 1.
Moves(y) == [i \in 1..Cardinality(DOMAIN y) |-> [product |-> "p", qty |-> y[i], day |-> 1, utc |-> 1]]

\* Fewer than a fifth of the movements of a product are anomalies (one-sided
\* Chebyshev), none is when all quantities are equal, and one that is larger
\* than an anomaly is an anomaly too.
ASSUME AnomaliesAreFew ==
    \A n \in 1..7 : \A y \in [1..n -> Quantities \ {0}] :
        LET flagged == Anomalies(Moves(y), "p", 1, 0)
        IN  /\ 5 * Cardinality(flagged) < n
            /\ (\A i \in 1..n : y[i] = y[1]) => flagged = {}
            /\ \A i \in flagged, j \in 1..n : y[j] >= y[i] => j \in flagged

\* Ordering what is suggested leaves nothing to suggest, and stock that covers
\* the demand of the lead time at the pace of the window and the safety stock.
ASSUME SuggestionCovers ==
    \A onHand, sold \in Quantities :
        LET outs == <<[product |-> "p", qty |-> sold, day |-> 1, utc |-> 1]>>
            short == Suggestion(("p" :> [onHand |-> onHand]), outs, "p", 1)
        IN  onHand <= ReorderLevel =>
              ReorderHistoryDays * onHand + short >= sold * LeadTimeDays + ReorderHistoryDays * SafetyStock
=============================================================================

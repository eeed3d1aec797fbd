---------------------------- MODULE DemandInsights ----------------------------
(***************************************************************************)
(* apps/insights: reorder suggestions, demand forecast and anomalies, from *)
(* the STOCK_OUT movements outs (product, qty, local day, UTC day).        *)
(* Fractions are exact: a quotient is kept as numerator and denominator    *)
(* where the code has floats.                                              *)
(***************************************************************************)
EXTENDS Integers, Sequences, FiniteSets, FiniteSetsExt

CONSTANTS ReorderHistoryDays, LeadTimeDays,      \* 30 and 7 in the code
          ForecastHistoryDays, TrendDays,        \* 60 and 14
          AnomalyHistoryDays,                    \* 90
          MinHistoryPoints,                      \* 5
          ZThreshold,                            \* 2
          ReorderLevel, SafetyStock              \* of every product

OutsOf(outs, p, first) == {i \in DOMAIN outs : outs[i].product = p /\ outs[i].day >= first}
QuantityOf(outs, S) == MapThenSumSet(LAMBDA i : outs[i].qty, S)

\* suggested_quantity times ReorderHistoryDays; zero is no suggestion.  The
\* window is one day longer than the days it is divided by.
Suggestion(items, outs, p, today) ==
    LET sold == QuantityOf(outs, OutsOf(outs, p, today - ReorderHistoryDays))
    IN  IF items[p].onHand > ReorderLevel THEN 0
        ELSE Max({0, sold * LeadTimeDays + ReorderHistoryDays * (SafetyStock - items[p].onHand)})

History(outs, p, today) ==
    [i \in 0..(ForecastHistoryDays - 1) |->
        QuantityOf(outs, {j \in DOMAIN outs : /\ outs[j].product = p
                                              /\ outs[j].day = today - ForecastHistoryDays + 1 + i})]

SeriesSum(f) == MapThenSumSet(LAMBDA x : f[x], DOMAIN f)

\* slope = num / den, intercept = (y_sum - slope * x_sum) / n; the deviations
\* are taken n times, which leaves the quotient as it is.
LinearRegression(y) ==
    LET n == Cardinality(DOMAIN y)
        xs == SeriesSum([x \in DOMAIN y |-> x])
        ys == SeriesSum(y)
        xdev(x) == n * x - xs
        num == MapThenSumSet(LAMBDA x : xdev(x) * (n * y[x] - ys), DOMAIN y)
        den == MapThenSumSet(LAMBDA x : xdev(x) * xdev(x), DOMAIN y)
    IN  IF n < 2 THEN [num |-> 0, den |-> 1, n |-> 1, xs |-> 0, ys |-> ys]
        ELSE [num |-> num, den |-> den, n |-> n, xs |-> xs, ys |-> ys]

\* The fitted line at x, times n * den.
Fitted(fit, x) == fit.ys * fit.den + fit.num * (fit.n * x - fit.xs)

\* The forecast of the next periods, times n * den, clipped at zero.
ForecastSeries(y, periods) ==
    LET fit == LinearRegression(y)
    IN  [i \in 0..(periods - 1) |-> Max({0, Fitted(fit, Cardinality(DOMAIN y) + i)})]

Trend(y) ==
    LET n == Cardinality(DOMAIN y)
        recent == MapThenSumSet(LAMBDA x : y[x], Max({0, n - TrendDays})..(n - 1))
        earlier == MapThenSumSet(LAMBDA x : y[x], 0..(Min({TrendDays, n}) - 1))
    IN  IF 10 * recent > 11 * earlier THEN "increasing"
        ELSE IF 10 * recent < 9 * earlier THEN "decreasing" ELSE "stable"

\* quantity > mean + ZThreshold * pstdev over the sample S of movements, without the root.
Outlier(outs, S, i) ==
    LET n == Cardinality(S)
        dev(j) == n * outs[j].qty - QuantityOf(outs, S)
        spread == MapThenSumSet(LAMBDA j : dev(j) * dev(j), S)
    IN  /\ spread # 0
        /\ dev(i) > 0
        /\ n * dev(i) * dev(i) > ZThreshold * ZThreshold * spread

\* Recent is by the UTC date of the movement, history by its local date.
Anomalies(outs, p, today, recent) ==
    LET sample == OutsOf(outs, p, today - AnomalyHistoryDays)
    IN  IF Cardinality(sample) < MinHistoryPoints THEN {}
        ELSE {i \in sample : outs[i].utc >= today - recent /\ Outlier(outs, sample, i)}
=============================================================================

--------------------------- MODULE RollingRenewal ---------------------------
(* When an account is renewed, and until when: renewal/service.go and the   *)
(* dates of config/dateutil.go.  A day is numbered from January 1 of        *)
(* FirstYear, a month from that January.                                    *)
EXTENDS Integers

CONSTANTS FirstYear,
          LastMonth,  \* bound: the months the calendar has
          Groups,     \* patron groups
          NoDate      \* an account without an expiration date, no limit

ASSUME CalendarAssumption ==
  /\ FirstYear \in Nat /\ LastMonth \in Nat
  /\ NoDate \notin Nat

(* Dates (the proleptic Gregorian calendar of package time).                *)
IsLeap(y) == y % 4 = 0 /\ (y % 100 # 0 \/ y % 400 = 0)
Length(m) ==
  CASE m % 12 \in {3, 5, 8, 10} -> 30
    [] m % 12 = 1 -> IF IsLeap(FirstYear + m \div 12) THEN 29 ELSE 28
    [] OTHER -> 31
FirstOf[m \in 0..LastMonth] == IF m = 0 THEN 0 ELSE FirstOf[m - 1] + Length(m - 1)
MonthOf(d) == CHOOSE m \in 0..(LastMonth - 1) : FirstOf[m] <= d /\ d < FirstOf[m + 1]

(* What ParseDuration accepts: a number of days, months or years.           *)
Duration == [value : Nat \ {0}, period : {"D", "M", "Y"}]

(* time.AddDate: a day that the month does not have runs over into the next *)
(* month.                                                                   *)
AddMonths(d, n) == FirstOf[MonthOf(d) + n] + (d - FirstOf[MonthOf(d)])

(* A year is twelve months, in days and in the calendar.                    *)
InMonths(dur) == IF dur.period = "Y" THEN 12 * dur.value ELSE dur.value

Shifted(d, sign, dur) ==
  IF dur.period = "D" THEN d + sign * dur.value ELSE AddMonths(d, sign * InMonths(dur))
AddDuration(d, dur) == Shifted(d, 1, dur)
(* The calendar has the month of d, and the one that d + dur begins in.     *)
InCalendar(d, dur) ==
  /\ \E m \in 0..(LastMonth - 1) : FirstOf[m] <= d /\ d < FirstOf[m + 1]
  /\ dur.period # "D" => MonthOf(d) + InMonths(dur) <= LastMonth
SubtractDuration(d, dur) == Shifted(d, -1, dur)

(* Mutant: the window is measured from the account's date. *)
IsWithinPeriodBackwards(expires, today, within) == AddDuration(today, within) >= today

IsWithinPeriod(expires, today, within) == expires <= AddDuration(today, within)

IsExpired(expires, today) == expires < today

(* RollingRenewalConfig; groups is every group when selectPatrons is off.   *)
RenewalConfig ==
  [enabled : BOOLEAN, renewWithin : Duration, extendFor : Duration, extendExpired : BOOLEAN,
   extendExpiredLimits : Duration \cup {NoDate}, dryRun : BOOLEAN, groups : SUBSET Groups]

ShouldRenew(u, cfg, today) ==
  /\ cfg.enabled
  /\ u.expires # NoDate
  /\ u.group \in cfg.groups
  /\ IsExpired(u.expires, today) =>
       /\ cfg.extendExpired
       /\ cfg.extendExpiredLimits # NoDate =>
            u.expires >= SubtractDuration(today, cfg.extendExpiredLimits)
  /\ IsWithinPeriod(u.expires, today, cfg.renewWithin)

CalculateNewExpiration(today, cfg) == AddDuration(today, cfg.extendFor)

(* The validation of a configuration does not compare the two periods; this *)
(* is what a sensible one has: the extension is the longer one whatever the *)
(* day.  Two numbers of months compare as numbers; days and months do by    *)
(* the days that so many months have at least and at most.                  *)
AtLeast(dur) == IF dur.period = "D" THEN dur.value ELSE 28 * InMonths(dur)
AtMost(dur) == IF dur.period = "D" THEN dur.value ELSE 31 * InMonths(dur)

ExtendsBeyondWindow(cfg) ==
  \/ /\ "D" \notin {cfg.renewWithin.period, cfg.extendFor.period}
     /\ InMonths(cfg.renewWithin) <= InMonths(cfg.extendFor)
  \/ AtMost(cfg.renewWithin) <= AtLeast(cfg.extendFor)
=============================================================================

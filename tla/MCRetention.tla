----------------------------- MODULE MCRetention -----------------------------
EXTENDS Retention

(* Short months for the days of a run. *)
MCMonths == {2 * k : k \in 0 .. 10}

(* The first days of the months of a year, and of the first half of a leap year. *)
MCCalendar == {0, 31, 59, 90, 120, 151, 181, 212, 243, 273, 304, 334, 365, 396, 425, 456, 486}
==============================================================================

-------------------------- MODULE MCHealthReporter --------------------------
(* A small device and two configurations for the health reporter.          *)
EXTENDS HealthReporter

Bounds(warn, error) ==
  [warnAbove |-> warn, warnBelow |-> None, errorAbove |-> error, errorBelow |-> None]

Lenient ==
  [named |-> TRUE, interval |-> 1, staleAfter |-> 2, streamTimeout |-> 1,
   limits |-> Bounds(None, None), requiredFix |-> "fix", ignored |-> {"CPU"}]

Strict == [Lenient EXCEPT !.limits = Bounds(1, 1), !.requiredFix = "rtk_fixed", !.ignored = {}]

(* Refused: no temperature between its bounds. *)
Impossible == [Lenient EXCEPT !.limits = [Bounds(1, 2) EXCEPT !.warnBelow = 1]]

AskedFor == {Strict, Impossible}

Floating == [solved |-> TRUE, type |-> "rtk_float"]
OneFix == {Floating}

Degraded == [mode |-> 4, valid |-> {"attitude", "velocity", "position"}]
OneWord == {Degraded}

=============================================================================

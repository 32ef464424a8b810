--------------------------- MODULE MCUsagePeriods ---------------------------
(***************************************************************************)
(* Values of the constants of UsagePeriods for model checking.             *)
(***************************************************************************)
EXTENDS UsagePeriods

\* October 2023 to September 2024, with a leap day; day 0 is 1 October.
Lengths == <<31, 30, 31, 31, 29, 31, 30, 31, 30, 31, 31, 30>>
Gregorian ==
  LET start[k \in 0 .. Len(Lengths)] ==
        IF k = 0 THEN 0 ELSE start[k - 1] + Lengths[k]
  IN  start

Date(month, day) == 24 * (Gregorian[month] + day - 1)

\* Two days not every month has, stepping forward and back, and one all have.
MCStarts == {Date(3, 31), Date(3, 14) + 12, Date(5, 31)}

D(m, d, h, n) == [months |-> m, days |-> d, hours |-> h, negative |-> n]

\* P1M, P1MT12H, P3W, P30DT12H, and two that do not move on: PT0S, -P1M.
MCDurations ==
  {D(1, 0, 0, FALSE), D(1, 0, 12, FALSE), D(0, 21, 0, FALSE),
   D(0, 30, 12, FALSE), D(0, 0, 0, FALSE), D(1, 0, 0, TRUE)}

\* Times before, at, just before and long after the starts.
MCTimes ==
  {Date(2, 1), Date(3, 31), Date(4, 29), Date(5, 15), Date(5, 31),
   Date(6, 30), Date(7, 1) - 12}

\* A monthly plan, subscribed to from the middle or from the end of January.
JanuaryStarts == {Date(3, 14) + 12, Date(3, 31)}
OneMonth == {D(1, 0, 0, FALSE)}

----------------------------------------------------------------------------
(* What the design document says of the anchor.                            *)

(* "usage_period = P1M anchored to the subscription start": every cycle    *)
(* a subscription is credited from the anchor on begins a usage period.    *)
CyclesBeginPeriods ==
  \A g \in grants, G \in grids :
    anchor <= g.at /\ g.at <= G.t =>
      \E i \in DOMAIN G.periods : G.periods[i].from = g.at

=============================================================================

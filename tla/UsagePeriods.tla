---------------------------- MODULE UsagePeriods ----------------------------
(***************************************************************************)
(* Calendar periods in metery.  Three parts of the code step through time  *)
(* by an ISO 8601 duration, each with a shiftTime of its own: the ledger   *)
(* builds the usage periods of a balance read (ledger.go, buildPeriods),   *)
(* the recurrence worker finds the next cycle (worker/recurrence.go), and  *)
(* the handlers find when a grant expires (service/grant.go).  Months      *)
(* differ in length, so these steps do not commute with one another.       *)
(*                                                                         *)
(* One subscription is followed, to a plan whose grants recur and expire   *)
(* after one interval, together with the entitlement they are issued on,   *)
(* whose usage period is that interval too.  The worker steps from the     *)
(* subscription's starts_at; the ledger steps from the entitlement's       *)
(* anchor, which the plan's entry may give, which is the entitlement's     *)
(* created_at where it is NULL, and which an entitlement that was there    *)
(* before brings along: no code makes the two the same time.               *)
(*                                                                         *)
(* A time counts hours; a duration has its years in months and its weeks   *)
(* in days, minutes left out.                                              *)
(***************************************************************************)
EXTENDS Integers, Sequences, FiniteSets

CONSTANTS
  MonthStart,  \* MonthStart[k]: the day on which month k of the calendar begins
  Starts,      \* starts_at of subscriptions, anchors, and times of creation
  Durations,   \* [months, days, hours, negative]
  Times,       \* when the clock may be read, and the times clients ask about
  MaxPeriods,  \* bound on the periods of a read that does not end
  MaxReads     \* bound on the reads remembered

Month == DOMAIN MonthStart
LastMonth == Cardinality(Month) - 1

ASSUME PeriodAssumption ==
  /\ LastMonth \in Nat /\ Month = 0 .. LastMonth
  /\ MonthStart \in [Month -> Int]
  /\ Starts \subseteq Int /\ Times \subseteq Int /\ MaxPeriods \in Nat
  /\ MaxReads \in Nat
  /\ Durations \subseteq
       [months : Nat, days : Nat, hours : Nat, negative : BOOLEAN]

\* Months follow one another, and the shortest has 28 days.
ASSUME CalendarAssumption ==
  /\ \A j, k \in Month : j < k => MonthStart[j] < MonthStart[k]
  /\ \A k \in Month \ {LastMonth} : MonthStart[k] + 28 <= MonthStart[k + 1]
  /\ \A day \in MonthStart[0] .. MonthStart[LastMonth] - 1 :
       \E k \in Month \ {LastMonth} : /\ MonthStart[k] <= day
                                      /\ day < MonthStart[k + 1]

VARIABLES
  now,    \* the clock
  sub,    \* [starts, dur]: the subscription and its plan's interval
  anchor, \* usage_period_anchor, or created_at: where the periods begin
  grants, \* its grants: [at, expires]
  read,   \* the call of buildPeriods in progress
  grids   \* the results of earlier ones: [t, periods]

vars == <<now, sub, anchor, grants, read, grids>>

----------------------------------------------------------------------------
(* time.AddDate: the day of the month stays, and one past the month's end  *)
(* runs over into the next.                                                *)
MonthOf(day) ==
  CHOOSE k \in Month : /\ MonthStart[k] <= day
                       /\ k < LastMonth => day < MonthStart[k + 1]
DayOfMonth(t) == t \div 24 - MonthStart[MonthOf(t \div 24)]

AddDate(t, months, days) ==
  24 * (MonthStart[MonthOf(t \div 24) + months] + DayOfMonth(t) + days)
    + (t % 24)

InCalendar(t, months) ==
  /\ MonthStart[0] <= t \div 24 /\ t \div 24 < MonthStart[LastMonth]
  /\ MonthOf(t \div 24) + months \in Month

ASSUME StartAssumption ==
  \A t \in Starts, d \in Durations : InCalendar(t, d.months)

(* Slip: hours are not turned round when stepping back.                    *)
ShiftTime_HoursForward(t, d, mult) ==
  LET sign == IF d.negative THEN -mult ELSE mult
  IN  AddDate(t, sign * d.months, sign * d.days) + d.hours

(* Slip: the step does not look which way the loop goes.                   *)
ShiftTime_OneWay(t, d, mult) ==
  LET sign == IF d.negative THEN -1 ELSE 1
  IN  AddDate(t, sign * d.months, sign * d.days) + sign * d.hours

(* The ledger's shiftTime, forward or back.                                *)
ShiftTime(t, d, mult) ==
  LET sign == IF d.negative THEN -mult ELSE mult
  IN  AddDate(t, sign * d.months, sign * d.days) + sign * d.hours

(* Slip: a month is taken for thirty days.                                 *)
NextCycle_ThirtyDays(base, d) ==
  base + 24 * (30 * d.months + d.days) + d.hours

(* Slip: cycles are counted from the start instead of from the last one.   *)
NextCycle_FromStart(base, d) ==
  AddDate(sub.starts, d.months * Cardinality(grants),
          d.days * Cardinality(grants)) + d.hours * Cardinality(grants)

(* The worker's shiftTime does not look at the sign.                       *)
NextCycle(base, d) == AddDate(base, d.months, d.days) + d.hours

(* Slip: a month's end stays a month's end.                                *)
Expiration_Clamped(t, d) ==
  LET k == MonthOf(t \div 24) + d.months
      last == MonthStart[k + 1] - MonthStart[k] - 1
      day == IF DayOfMonth(t) > last THEN last ELSE DayOfMonth(t)
  IN  24 * (MonthStart[k] + day + d.days) + (t % 24) + d.hours

(* Nor does that of the handlers.                                          *)
Expiration(t, d) == AddDate(t, d.months, d.days) + d.hours

----------------------------------------------------------------------------
(* The subscription is created with its initial grant, effective at its    *)
(* start; the client may have put the start before or after the clock.     *)
Init ==
  /\ sub \in [starts : Starts, dur : Durations]
  /\ anchor \in Starts
  /\ now \in Starts
  /\ grants = {[at |-> sub.starts, expires |-> Expiration(sub.starts, sub.dur)]}
  /\ read = [pc |-> "idle"]
  /\ grids = {}

Tick ==
  /\ now' \in {t \in Times : now < t}
  /\ UNCHANGED <<sub, anchor, grants, read, grids>>

(* The worker's pass over this subscription; a cycle that is there already *)
(* is turned away by the emission index.  The worker works out the expiry  *)
(* of the new grant with its own shiftTime.                                *)
Latest == CHOOSE g \in grants : \A h \in grants : h.at <= g.at

EmitCycle ==
  LET next == NextCycle(Latest.at, sub.dur)
  IN  /\ InCalendar(next, sub.dur.months)
      /\ next <= now
      /\ \A g \in grants : g.at # next
      /\ grants' = grants \cup
           {[at |-> next, expires |-> NextCycle(next, sub.dur)]}
      /\ UNCHANGED <<now, sub, anchor, read, grids>>

(* A balance read, at a time the client asks about.                        *)
ReadBegin ==
  /\ read.pc = "idle" /\ Cardinality(grids) < MaxReads
  /\ \E t \in Times :
       read' = [pc |-> "back", t |-> t, curr |-> anchor, periods |-> << >>]
  /\ UNCHANGED <<now, sub, anchor, grants, grids>>

(* Slip: the anchor itself is taken for a time before it.                  *)
StartsAfter_OrAt(curr, t) == curr >= t

StartsAfter(curr, t) == curr > t

(* for curr.After(t)                                                       *)
StepBack ==
  LET r == read IN
  /\ r.pc = "back"
  /\ IF StartsAfter(r.curr, r.t)
       THEN /\ InCalendar(r.curr, -sub.dur.months)
            /\ InCalendar(r.curr, sub.dur.months)
            /\ read' = [r EXCEPT !.curr = ShiftTime(@, sub.dur, -1)]
       ELSE read' = [r EXCEPT !.pc = "forward"]
  /\ UNCHANGED <<now, sub, anchor, grants, grids>>

(* Slip: a boundary counts as after itself.                                *)
EndsAfter_OrAt(next, t) == next >= t

EndsAfter(next, t) == next > t

(* Slip: the loop breaks before it appends the period.                     *)
StepForward_BreakFirst ==
  LET r == read
      next == ShiftTime(r.curr, sub.dur, 1)
  IN
  /\ r.pc = "forward"
  /\ Len(r.periods) < MaxPeriods
  /\ InCalendar(r.curr, sub.dur.months) /\ InCalendar(r.curr, -sub.dur.months)
  /\ IF ~EndsAfter(next, r.t)
       THEN /\ read' = [r EXCEPT !.curr = next,
                          !.periods = Append(@, [from |-> r.curr, to |-> next])]
            /\ UNCHANGED grids
       ELSE /\ read' = [pc |-> "idle"]
            /\ grids' = grids \cup {[t |-> r.t, periods |-> r.periods]}
  /\ UNCHANGED <<now, sub, anchor, grants>>

(* One turn of the second loop; the last one returns the periods.          *)
StepForward ==
  LET r == read
      next == ShiftTime(r.curr, sub.dur, 1)
      found == Append(r.periods, [from |-> r.curr, to |-> next])
  IN
  /\ r.pc = "forward"
  /\ Len(r.periods) < MaxPeriods
  /\ InCalendar(r.curr, sub.dur.months) /\ InCalendar(r.curr, -sub.dur.months)
  /\ IF ~EndsAfter(next, r.t)
       THEN /\ read' = [r EXCEPT !.curr = next, !.periods = found]
            /\ UNCHANGED grids
       ELSE /\ read' = [pc |-> "idle"]
            /\ grids' = grids \cup {[t |-> r.t, periods |-> found]}
  /\ UNCHANGED <<now, sub, anchor, grants>>

ReadStep == StepBack \/ StepForward

Next == Tick \/ EmitCycle \/ ReadBegin \/ ReadStep

Spec == Init /\ [][Next]_vars

(* A read is a loop in memory: it goes on.                                 *)
FairSpec == Spec /\ WF_vars(ReadStep)

----------------------------------------------------------------------------
(* Properties.                                                             *)

Period == [from : Int, to : Int]
Busy(pcs) == [pc : pcs, t : Times, curr : Int, periods : Seq(Period)]

(* Every variable keeps its type; a list of periods a read returned is     *)
(* never empty.                                                            *)
TypeOK ==
  /\ now \in Times \cup Starts
  /\ sub \in [starts : Starts, dur : Durations]
  /\ anchor \in Starts
  /\ grants \subseteq [at : Int, expires : Int]
  /\ read \in [pc : {"idle"}] \cup Busy({"back", "forward"})
  /\ grids \subseteq [t : Times, periods : Seq(Period) \ {<< >>}]

(* The periods of a read are a chain without gap or overlap, of which the  *)
(* last holds the time asked about; from the anchor on, the anchor begins  *)
(* the first.                                                              *)
Chained(P) == \A i \in 1 .. Len(P) - 1 : P[i].to = P[i + 1].from

GridTiles ==
  \A G \in grids :
    LET P == G.periods IN
    /\ Chained(P)
    /\ P[Len(P)].from <= G.t /\ G.t < P[Len(P)].to
    /\ anchor <= G.t => P[1].from = anchor

(* Reads at two times from the anchor on see the same periods, as far as   *)
(* both go: what one read saves at a boundary another finds a boundary.    *)
GridsAgree ==
  \A G, H \in grids :
    anchor <= G.t /\ anchor <= H.t =>
      \A i \in DOMAIN G.periods \cap DOMAIN H.periods :
        G.periods[i] = H.periods[i]

(* No time is in two different periods, before the anchor either, if steps *)
(* back undo steps forward: durations of fixed length, or months counted   *)
(* from a day that every month has.                                        *)
Invertible ==
  \/ sub.dur.months = 0
  \/ sub.dur.days = 0 /\ sub.dur.hours = 0 /\ DayOfMonth(anchor) < 28

PeriodsDisjoint ==
  Invertible =>
    \A G, H \in grids : \A i \in DOMAIN G.periods, j \in DOMAIN H.periods :
      LET p == G.periods[i]  q == H.periods[j]
      IN  p = q \/ p.to <= q.from \/ q.to <= p.from

(* Where the periods are anchored to the subscription's start, the         *)
(* worker's cycles are the ledger's periods: every grant takes effect just *)
(* where a period of a later read begins, across short months and leap     *)
(* days, though each side steps from its own last result.                  *)
CadenceOnGrid ==
  anchor = sub.starts =>
    \A g \in grants, G \in grids :
      g.at <= G.t => \E i \in DOMAIN G.periods : G.periods[i].from = g.at

(* Wherever they are anchored, no usage period is credited two cycles, as  *)
(* long as steps back undo steps forward: a cycle is never shorter than    *)
(* the period in which it begins.                                          *)
PeriodCreditedOnce ==
  Invertible =>
    \A G \in grids : \A i \in DOMAIN G.periods : \A g, h \in grants :
      LET p == G.periods[i]
      IN  /\ p.from <= g.at /\ g.at < p.to
          /\ p.from <= h.at /\ h.at < p.to
          => g.at = h.at

(* A grant that lasts one interval expires at the very time the next takes *)
(* effect: the customer has one of them at any time, and never two.        *)
NoGap ==
  \A g, h \in grants : g.at < h.at =>
    /\ g.expires <= h.at
    /\ \E k \in grants : k.at = g.expires

(* A read comes to an end if the usage period is of some positive length;  *)
(* with one that is not, it never does.                                    *)
Positive(d) == ~d.negative /\ d.months + d.days + d.hours > 0

ReadEnds ==
  /\ read.pc # "idle" /\ Positive(sub.dur) ~> read.pc = "idle"
  /\ [](~Positive(sub.dur) => grids = {})

=============================================================================

------------------------- MODULE UsagePeriodsProofs -------------------------
(***************************************************************************)
(* The usage periods of a balance read, for every calendar whose months    *)
(* follow one another and every duration: they tile the time from the      *)
(* anchor to the one asked about, and those of two reads agree.            *)
(***************************************************************************)
EXTENDS UsagePeriods, SequenceTheorems, TLAPS

(* Periods as the loop makes them: each a step long, one after the other.  *)
Steps(P) ==
  /\ P \in Seq(Period)
  /\ Chained(P)
  /\ \A i \in DOMAIN P : P[i].to = ShiftTime(P[i].from, sub.dur, 1)

FromAnchor(P, t) == anchor <= t /\ P # << >> => P[1].from = anchor

SameAs(P, Q) == \A i \in DOMAIN P \cap DOMAIN Q : P[i] = Q[i]

(* The loop's invariant.  Where it stands is the end of what it has found, *)
(* or the anchor; what it has found agrees with every earlier result.      *)
LoopInv ==
  read.pc # "idle" =>
    /\ read \in Busy({"back", "forward"})
    /\ Steps(read.periods) /\ FromAnchor(read.periods, read.t)
    /\ read.pc = "back" => read.periods = << >>
    /\ read.pc = "forward" => read.curr <= read.t
    /\ IF read.periods = << >>
         THEN anchor <= read.t => read.curr = anchor
         ELSE read.curr = read.periods[Len(read.periods)].to
    /\ \A G \in grids : anchor <= read.t /\ anchor <= G.t =>
                          SameAs(read.periods, G.periods)

GridInv ==
  \A G \in grids :
    /\ G.t \in Times
    /\ Steps(G.periods) /\ FromAnchor(G.periods, G.t) /\ G.periods # << >>
    /\ LET last == G.periods[Len(G.periods)]
       IN  last.from <= G.t /\ G.t < last.to

PeriodInv ==
  /\ sub \in [starts : Starts, dur : Durations] /\ anchor \in Starts
  /\ LoopInv /\ GridInv /\ GridsAgree

----------------------------------------------------------------------------
(* A step from a time in the calendar is a time.                           *)
LEMMA ShiftType ==
  ASSUME NEW t \in Int, NEW d \in Durations,
         InCalendar(t, d.months), InCalendar(t, -d.months)
  PROVE  ShiftTime(t, d, 1) \in Int /\ ShiftTime(t, d, -1) \in Int
<1> DEFINE day == t \div 24
           k == MonthOf(day)
<1>1. /\ day \in Int /\ t % 24 \in Int
      /\ d.months \in Nat /\ d.days \in Nat /\ d.hours \in Nat
      /\ d.negative \in BOOLEAN
  BY PeriodAssumption
<1>2. 0 \in Month /\ LastMonth \in Month /\ MonthStart \in [Month -> Int]
  BY PeriodAssumption
<1>3. day \in MonthStart[0] .. MonthStart[LastMonth] - 1
  BY <1>1, <1>2 DEF InCalendar
<1>4. k \in Month
  <2>1. \E j \in Month : /\ MonthStart[j] <= day
                         /\ j < LastMonth => day < MonthStart[j + 1]
    BY <1>3, CalendarAssumption
  <2> QED
    BY <2>1 DEF MonthOf
<1>5. k + d.months \in Month /\ k - d.months \in Month
  BY <1>1, <1>4, PeriodAssumption DEF InCalendar
<1>6. DayOfMonth(t) \in Int
  BY <1>1, <1>2, <1>4 DEF DayOfMonth
<1> HIDE DEF k, day
<1>7. /\ MonthStart[k + d.months] \in Int /\ MonthStart[k - d.months] \in Int
      /\ k \in Int
  BY <1>2, <1>4, <1>5, PeriodAssumption
<1>8. AddDate(t, d.months, d.days) \in Int /\ AddDate(t, -d.months, -d.days) \in Int
  BY <1>1, <1>6, <1>7 DEF AddDate, k, day
<1>9. /\ 1 * d.months = d.months /\ 1 * d.days = d.days /\ 1 * d.hours = d.hours
      /\ (-1) * d.months = -d.months /\ (-1) * d.days = -d.days
      /\ (-1) * d.hours = -d.hours
  <2>1. \A x \in Nat : 1 * x = x /\ (-1) * x = -x
    OBVIOUS
  <2> HIDE DEF k, day
  <2> QED
    BY <1>1, <2>1
<1>10. CASE d.negative
  BY <1>1, <1>8, <1>9, <1>10 DEF ShiftTime
<1>11. CASE ~d.negative
  BY <1>1, <1>8, <1>9, <1>11 DEF ShiftTime
<1> QED
  BY <1>10, <1>11

(* What a turn of the loop appends.                                        *)
LEMMA StepsAppend ==
  ASSUME NEW P \in Seq(Period), Steps(P), NEW from \in Int, NEW to \in Int,
         to = ShiftTime(from, sub.dur, 1),
         P # << >> => from = P[Len(P)].to
  PROVE  LET Q == Append(P, [from |-> from, to |-> to]) IN
         /\ Steps(Q) /\ Q # << >> /\ Len(Q) = Len(P) + 1
         /\ Q[Len(Q)] = [from |-> from, to |-> to]
         /\ \A i \in DOMAIN P : Q[i] = P[i]
<1> DEFINE p == [from |-> from, to |-> to]
           Q == Append(P, p)
<1>1. p \in Period /\ p.from = from /\ p.to = to
  BY DEF Period
<1> HIDE DEF p
<1>2. /\ Q \in Seq(Period) /\ Q # << >> /\ Len(Q) = Len(P) + 1
      /\ Q[Len(Q)] = p /\ Len(P) \in Nat
      /\ DOMAIN Q = 1 .. Len(P) + 1 /\ DOMAIN P = 1 .. Len(P)
      /\ \A i \in DOMAIN P : Q[i] = P[i]
  BY <1>1, AppendProperties, EmptySeq, LenProperties
<1> HIDE DEF Q
<1>3. Chained(Q)
  <2> SUFFICES ASSUME NEW i \in 1 .. Len(P)
               PROVE  Q[i].to = Q[i + 1].from
    BY <1>2 DEF Chained
  <2>1. CASE i = Len(P)
    <3>1. P # << >>
      BY <1>2, <2>1
    <3> QED
      BY <1>1, <1>2, <2>1, <3>1
  <2>2. CASE i # Len(P)
    <3>0. \A n \in Nat : \A j \in 1 .. n :
            j # n => j \in 1 .. n - 1 /\ j + 1 \in 1 .. n
      OBVIOUS
    <3>1. Len(P) \in Nat /\ DOMAIN P = 1 .. Len(P)
      BY <1>2
    <3>2. i \in 1 .. Len(P) - 1 /\ i \in DOMAIN P /\ i + 1 \in DOMAIN P
      BY <2>2, <3>0, <3>1
    <3>3. P[i].to = P[i + 1].from
      BY <3>2 DEF Steps, Chained
    <3> QED
      BY <1>2, <3>2, <3>3
  <2> QED
    BY <2>1, <2>2
<1>4. \A i \in DOMAIN Q : Q[i].to = ShiftTime(Q[i].from, sub.dur, 1)
  <2> SUFFICES ASSUME NEW i \in DOMAIN Q
               PROVE  Q[i].to = ShiftTime(Q[i].from, sub.dur, 1)
    OBVIOUS
  <2>1. i \in DOMAIN P \/ Q[i] = p
    BY <1>2
  <2> QED
    BY <1>1, <1>2, <2>1 DEF Steps
<1> QED
  BY <1>2, <1>3, <1>4 DEF Steps, Q, p

(* Two chains from the anchor that agree so far agree in the next period.  *)
LEMMA NextAgrees ==
  ASSUME NEW P \in Seq(Period), NEW Q \in Seq(Period), Steps(P), Steps(Q),
         P # << >>, P[1].from = anchor, Q # << >> => Q[1].from = anchor,
         \A i \in DOMAIN P \cap DOMAIN Q : i < Len(P) => P[i] = Q[i]
  PROVE  SameAs(P, Q)
<1> DEFINE n == Len(P)
<1>1. /\ n \in Nat \ {0} /\ DOMAIN P = 1 .. n
      /\ DOMAIN Q = 1 .. Len(Q) /\ Len(Q) \in Nat
      /\ \A i \in DOMAIN P : P[i] \in Period
      /\ \A i \in DOMAIN Q : Q[i] \in Period
  OBVIOUS
<1>2. ASSUME n \in DOMAIN Q
      PROVE  P[n] = Q[n]
  <2>1. P[n].from = Q[n].from
    <3>1. CASE n = 1
      BY <1>1, <1>2, <3>1
    <3>2. CASE n # 1
      <4>1. /\ n - 1 \in 1 .. Len(P) - 1 /\ n - 1 \in 1 .. Len(Q) - 1
            /\ n - 1 \in DOMAIN P \cap DOMAIN Q /\ (n - 1) + 1 = n
        BY <1>1, <1>2, <3>2
      <4>2. P[n - 1] = Q[n - 1]
        BY <1>1, <4>1
      <4> QED
        BY <4>1, <4>2 DEF Steps, Chained
    <3> QED
      BY <3>1, <3>2
  <2>2. P[n].to = Q[n].to
    BY <1>1, <1>2, <2>1 DEF Steps
  <2>3. P[n] \in Period /\ Q[n] \in Period
    BY <1>1, <1>2
  <2>4. \A x \in Period : x = [from |-> x.from, to |-> x.to]
    BY DEF Period
  <2> HIDE DEF n
  <2> QED
    BY <2>1, <2>2, <2>3, <2>4
<1> QED
  BY <1>1, <1>2 DEF SameAs

----------------------------------------------------------------------------
(* One turn of the second loop.                                            *)
LEMMA ForwardStep ==
  ASSUME PeriodInv, StepForward
  PROVE  PeriodInv'
<1> DEFINE r == read
           next == ShiftTime(r.curr, sub.dur, 1)
           p == [from |-> r.curr, to |-> next]
           found == Append(r.periods, p)
<1>1. /\ r \in Busy({"forward"}) /\ r.t \in Int /\ r.curr \in Int
      /\ r.periods \in Seq(Period) /\ r.t \in Times
      /\ sub \in [starts : Starts, dur : Durations]
      /\ anchor \in Starts /\ anchor \in Int
  BY PeriodAssumption DEF PeriodInv, LoopInv, Busy, StepForward
<1>2. next \in Int
  BY <1>1, ShiftType DEF StepForward
<1>3. /\ Steps(r.periods) /\ FromAnchor(r.periods, r.t) /\ r.curr <= r.t
      /\ IF r.periods = << >>
           THEN anchor <= r.t => r.curr = anchor
           ELSE r.curr = r.periods[Len(r.periods)].to
      /\ \A G \in grids : anchor <= r.t /\ anchor <= G.t =>
                            SameAs(r.periods, G.periods)
  BY <1>1 DEF PeriodInv, LoopInv, Busy
<1>4. /\ Steps(found) /\ found # << >> /\ Len(found) = Len(r.periods) + 1
      /\ found[Len(found)] = p
      /\ \A i \in DOMAIN r.periods : found[i] = r.periods[i]
  BY <1>1, <1>2, <1>3, StepsAppend
<1>5. found \in Seq(Period) /\ p.from = r.curr /\ p.to = next /\ Len(r.periods) \in Nat
  BY <1>1, <1>4 DEF Steps
<1>6. /\ sub' = sub /\ anchor' = anchor
      /\ IF ~EndsAfter(next, r.t)
           THEN /\ read' = [r EXCEPT !.curr = next, !.periods = found]
                /\ grids' = grids
           ELSE /\ read' = [pc |-> "idle"]
                /\ grids' = grids \cup {[t |-> r.t, periods |-> found]}
  BY DEF StepForward
<1> HIDE DEF found, next, p
<1>7. FromAnchor(found, r.t)
  <2> SUFFICES ASSUME anchor <= r.t
               PROVE  found[1].from = anchor
    BY DEF FromAnchor
  <2>1. CASE r.periods = << >>
    BY <1>3, <1>4, <1>5, <2>1
  <2>2. CASE r.periods # << >>
    <3>1. 1 \in DOMAIN r.periods
      BY <1>1, <2>2
    <3> QED
      BY <1>3, <1>4, <2>2, <3>1 DEF FromAnchor
  <2> QED
    BY <2>1, <2>2
<1>8. ASSUME NEW G \in grids, anchor <= r.t, anchor <= G.t
      PROVE  SameAs(found, G.periods)
  <2>1. /\ G.periods \in Seq(Period) /\ Steps(G.periods)
        /\ G.periods # << >> /\ G.periods[1].from = anchor
    BY <1>8 DEF PeriodInv, GridInv, FromAnchor, Steps
  <2>2. ASSUME NEW i \in DOMAIN found \cap DOMAIN G.periods, i < Len(found)
        PROVE  found[i] = G.periods[i]
    <3>1. i \in DOMAIN r.periods
      BY <1>1, <1>4, <1>5, <2>2
    <3> QED
      BY <1>3, <1>4, <1>8, <2>2, <3>1 DEF SameAs
  <2>3. found[1].from = anchor
    BY <1>4, <1>7, <1>8 DEF FromAnchor
  <2> QED
    BY <1>4, <1>5, <2>1, <2>2, <2>3, NextAgrees
<1>9. CASE ~EndsAfter(next, r.t)
  <2>1. /\ read' = [r EXCEPT !.curr = next, !.periods = found]
        /\ grids' = grids /\ sub' = sub /\ anchor' = anchor
    BY <1>6, <1>9
  <2>2. /\ read'.pc = "forward" /\ read'.t = r.t /\ read'.curr = next
        /\ read'.periods = found /\ read' \in Busy({"back", "forward"})
    BY <1>1, <1>2, <1>5, <2>1 DEF Busy
  <2>3. next <= r.t
    BY <1>1, <1>2, <1>9 DEF EndsAfter
  <2>4. Steps(read.periods)' /\ FromAnchor(read.periods, read.t)'
    BY <1>4, <1>7, <2>1, <2>2 DEF Steps, FromAnchor
  <2>5. read'.curr = read'.periods[Len(read'.periods)].to /\ read'.periods # << >>
    BY <1>4, <1>5, <2>2
  <2>6. \A G \in grids' : anchor' <= read'.t /\ anchor' <= G.t =>
                            SameAs(read'.periods, G.periods)
    BY <1>8, <2>1, <2>2
  <2>7. LoopInv'
    BY <2>2, <2>3, <2>4, <2>5, <2>6 DEF LoopInv, SameAs
  <2> QED
    BY <2>1, <2>7 DEF PeriodInv, GridInv, GridsAgree, Steps, FromAnchor
<1>10. CASE EndsAfter(next, r.t)
  <2> DEFINE N == [t |-> r.t, periods |-> found]
  <2>1. read'.pc = "idle" /\ grids' = grids \cup {N} /\ sub' = sub /\ anchor' = anchor
    BY <1>6, <1>10
  <2>2. N.t = r.t /\ N.periods = found
    OBVIOUS
  <2> HIDE DEF N
  <2>3. r.t < next
    BY <1>1, <1>2, <1>10 DEF EndsAfter
  <2>4. GridInv'
    BY <1>1, <1>3, <1>4, <1>5, <1>7, <2>1, <2>2, <2>3
    DEF PeriodInv, GridInv, Steps, FromAnchor
  <2>5. GridsAgree'
    BY <1>8, <2>1, <2>2 DEF PeriodInv, GridsAgree, SameAs
  <2> QED
    BY <2>1, <2>4, <2>5 DEF PeriodInv, LoopInv
<1> QED
  BY <1>9, <1>10

(* One turn of the first.                                                  *)
LEMMA BackStep ==
  ASSUME PeriodInv, StepBack
  PROVE  PeriodInv'
<1>1. /\ read \in Busy({"back"}) /\ read.t \in Int /\ read.curr \in Int
      /\ read.periods = << >> /\ read.t \in Times
      /\ sub \in [starts : Starts, dur : Durations]
      /\ anchor \in Starts /\ anchor \in Int
      /\ anchor <= read.t => read.curr = anchor
  BY PeriodAssumption DEF PeriodInv, LoopInv, Busy, StepBack
<1>2. sub' = sub /\ anchor' = anchor /\ grids' = grids
  BY DEF StepBack
<1>3. /\ read' \in Busy({"back", "forward"}) /\ read'.periods = << >>
      /\ read'.t = read.t /\ read'.pc \in {"back", "forward"}
      /\ anchor <= read.t => read'.curr = anchor
      /\ read'.pc = "forward" => read'.curr <= read.t
  <2>1. CASE StartsAfter(read.curr, read.t)
    <3>1. ShiftTime(read.curr, sub.dur, -1) \in Int
      BY <1>1, <2>1, ShiftType DEF StepBack
    <3>2. read' = [read EXCEPT !.curr = ShiftTime(read.curr, sub.dur, -1)]
      BY <2>1 DEF StepBack
    <3>3. ~(anchor <= read.t)
      BY <1>1, <2>1 DEF StartsAfter
    <3> QED
      BY <1>1, <3>1, <3>2, <3>3 DEF Busy
  <2>2. CASE ~StartsAfter(read.curr, read.t)
    <3>1. read' = [read EXCEPT !.pc = "forward"]
      BY <2>2 DEF StepBack
    <3>2. read.curr <= read.t
      BY <1>1, <2>2 DEF StartsAfter
    <3> QED
      BY <1>1, <3>1, <3>2 DEF Busy
  <2> QED
    BY <2>1, <2>2
<1>4. LoopInv'
  BY <1>2, <1>3 DEF LoopInv, Steps, Chained, FromAnchor, SameAs, Busy
<1> QED
  BY <1>2, <1>4 DEF PeriodInv, GridInv, GridsAgree, Steps, FromAnchor

(* Every step keeps the invariant.                                         *)
LEMMA PeriodStep ==
  ASSUME PeriodInv, [Next]_vars
  PROVE  PeriodInv'
<1>1. CASE ReadBegin
  <2>1. PICK t \in Times :
          read' = [pc |-> "back", t |-> t, curr |-> anchor, periods |-> << >>]
    BY <1>1 DEF ReadBegin
  <2>2. sub' = sub /\ anchor' = anchor /\ grids' = grids /\ anchor \in Int
    BY <1>1, PeriodAssumption DEF ReadBegin, PeriodInv
  <2>3. read' \in Busy({"back", "forward"}) /\ read'.periods = << >> /\ read'.pc = "back"
        /\ read'.curr = anchor
    BY <2>1, <2>2 DEF Busy
  <2>4. LoopInv'
    BY <2>2, <2>3 DEF LoopInv, Steps, Chained, FromAnchor, SameAs
  <2> QED
    BY <2>2, <2>4 DEF PeriodInv, GridInv, GridsAgree, Steps, FromAnchor
<1>2. CASE UNCHANGED <<sub, anchor, read, grids>>
  BY <1>2 DEF PeriodInv, LoopInv, GridInv, GridsAgree, Steps, FromAnchor
<1>3. CASE Tick \/ EmitCycle \/ UNCHANGED vars
  BY <1>2, <1>3 DEF Tick, EmitCycle, vars
<1> QED
  BY <1>1, <1>3, BackStep, ForwardStep DEF Next, ReadStep

LEMMA PeriodInvInductive == Spec => []PeriodInv
<1>1. Init => PeriodInv
  BY DEF Init, PeriodInv, LoopInv, GridInv, GridsAgree
<1> QED
  BY <1>1, PeriodStep, PTL DEF Spec

----------------------------------------------------------------------------
(* The worker's cycles.  A step forward goes forward, and the ledger's and *)
(* the worker's are one as long as the duration is positive.               *)

(* What a time in the calendar is made of.                                 *)
LEMMA MonthType ==
  ASSUME NEW t \in Int, NEW m \in Int, InCalendar(t, m)
  PROVE  LET k == MonthOf(t \div 24) IN
         /\ k \in Month /\ k + m \in Month /\ k \in Int
         /\ MonthStart[k] \in Int /\ MonthStart[k + m] \in Int
         /\ m > 0 => MonthStart[k] < MonthStart[k + m]
         /\ m = 0 => MonthStart[k] = MonthStart[k + m]
         /\ m < 0 => MonthStart[k + m] < MonthStart[k]
         /\ t = 24 * (MonthStart[k] + DayOfMonth(t)) + (t % 24)
         /\ DayOfMonth(t) \in Int /\ t % 24 \in Int
<1> DEFINE day == t \div 24
           k == MonthOf(day)
<1>1. day \in Int /\ t % 24 \in Int /\ t = 24 * day + (t % 24)
  OBVIOUS
<1>2. 0 \in Month /\ LastMonth \in Month /\ MonthStart \in [Month -> Int]
  BY PeriodAssumption
<1>3. day \in MonthStart[0] .. MonthStart[LastMonth] - 1
  BY <1>1, <1>2 DEF InCalendar
<1>4. k \in Month
  <2>1. \E j \in Month : /\ MonthStart[j] <= day
                         /\ j < LastMonth => day < MonthStart[j + 1]
    BY <1>3, CalendarAssumption
  <2> QED
    BY <2>1 DEF MonthOf
<1>5. k + m \in Month
  BY DEF InCalendar
<1>6. k \in Int /\ MonthStart[k] \in Int /\ MonthStart[k + m] \in Int
  BY <1>2, <1>4, <1>5, PeriodAssumption
<1>7. DayOfMonth(t) = day - MonthStart[k]
  BY DEF DayOfMonth
<1> HIDE DEF k, day
<1>8. /\ m > 0 => MonthStart[k] < MonthStart[k + m]
      /\ m < 0 => MonthStart[k + m] < MonthStart[k]
  <2>1. m > 0 => k < k + m
    BY <1>6
  <2>2. m < 0 => k + m < k
    BY <1>6
  <2> QED
    BY <1>4, <1>5, <2>1, <2>2, CalendarAssumption
<1>9. m = 0 => k + m = k
  BY <1>6
<1>10. /\ t = 24 * (MonthStart[k] + DayOfMonth(t)) + (t % 24)
       /\ DayOfMonth(t) \in Int
  BY <1>1, <1>6, <1>7
<1> QED
  BY <1>1, <1>4, <1>5, <1>6, <1>8, <1>9, <1>10 DEF k, day

LEMMA CycleAfter ==
  ASSUME NEW t \in Int, NEW d \in Durations, InCalendar(t, d.months)
  PROVE  /\ NextCycle(t, d) \in Int /\ t <= NextCycle(t, d)
         /\ d.months + d.days + d.hours > 0 => t < NextCycle(t, d)
         /\ Expiration(t, d) = NextCycle(t, d)
<1> DEFINE k == MonthOf(t \div 24)
           a == MonthStart[k]
           b == MonthStart[k + d.months]
           dom == DayOfMonth(t)
           h == t % 24
<1>1. d.months \in Nat /\ d.days \in Nat /\ d.hours \in Nat
  BY PeriodAssumption
<1>2. /\ a \in Int /\ b \in Int /\ dom \in Int /\ h \in Int
      /\ d.months > 0 => a < b
      /\ d.months = 0 => a = b
      /\ t = 24 * (a + dom) + h
  BY <1>1, MonthType
<1>3. NextCycle(t, d) = 24 * (b + dom + d.days) + h + d.hours
  BY DEF NextCycle, AddDate
<1>4. Expiration(t, d) = NextCycle(t, d)
  BY DEF NextCycle, Expiration
<1> HIDE DEF a, b, dom, h, k
<1> QED
  BY <1>1, <1>2, <1>3, <1>4

LEMMA ShiftPositive ==
  ASSUME NEW t, NEW d \in Durations, ~d.negative
  PROVE  ShiftTime(t, d, 1) = NextCycle(t, d)
<1>1. d.months \in Nat /\ d.days \in Nat /\ d.hours \in Nat
  BY PeriodAssumption
<1>2. \A x \in Nat : 1 * x = x
  OBVIOUS
<1> QED
  BY <1>1, <1>2 DEF ShiftTime, NextCycle

(* A step by any other duration does not lead on.                          *)
LEMMA ShiftOther ==
  ASSUME NEW t \in Int, NEW d \in Durations, InCalendar(t, d.months),
         InCalendar(t, -d.months), ~Positive(d)
  PROVE  ShiftTime(t, d, 1) <= t
<1>1. /\ d.months \in Nat /\ d.days \in Nat /\ d.hours \in Nat
      /\ d.negative \in BOOLEAN
  BY PeriodAssumption
<1>2. \A x \in Nat : 1 * x = x /\ (-1) * x = -x
  OBVIOUS
<1>3. ~d.negative => ShiftTime(t, d, 1) = NextCycle(t, d)
  BY ShiftPositive
<1>4. CASE d.negative
  <2> DEFINE k == MonthOf(t \div 24)
             a == MonthStart[k]
             b == MonthStart[k + (-d.months)]
             dom == DayOfMonth(t)
             h == t % 24
  <2>1. /\ a \in Int /\ b \in Int /\ dom \in Int /\ h \in Int
        /\ -d.months < 0 => b < a
        /\ -d.months = 0 => a = b
        /\ t = 24 * (a + dom) + h
    BY <1>1, MonthType
  <2>2. ShiftTime(t, d, 1) = 24 * (b + dom + (-d.days)) + h + (-d.hours)
    BY <1>1, <1>2, <1>4 DEF ShiftTime, AddDate
  <2> HIDE DEF a, b, dom, h, k
  <2>3. ShiftTime(t, d, 1) <= t
    BY <1>1, <2>1, <2>2
  <2> QED
    BY <2>3
<1>5. CASE ~d.negative
  <2>1. d.months = 0 /\ d.days = 0 /\ d.hours = 0
    BY <1>1, <1>5 DEF Positive
  <2> DEFINE k == MonthOf(t \div 24)
             a == MonthStart[k]
             b == MonthStart[k + d.months]
             dom == DayOfMonth(t)
             h == t % 24
  <2>2. a \in Int /\ dom \in Int /\ h \in Int /\ a = b /\ t = 24 * (a + dom) + h
    BY <1>1, <2>1, MonthType
  <2>3. NextCycle(t, d) = 24 * (b + dom + d.days) + h + d.hours
    BY DEF NextCycle, AddDate
  <2> HIDE DEF a, b, dom, h, k
  <2>4. NextCycle(t, d) = t
    BY <2>1, <2>2, <2>3
  <2> QED
    BY <1>3, <1>5, <2>4
<1> QED
  BY <1>1, <1>4, <1>5

----------------------------------------------------------------------------
(* The cadence.  Grants follow one another as the steps of the worker do,  *)
(* and the loop of a read from the anchor on stands on one of them, or is  *)
(* past the last.                                                          *)

HasStart(P, t) == \E i \in DOMAIN P : P[i].from = t

GrantSteps ==
  /\ \A g \in grants : /\ g.at \in Int /\ InCalendar(g.at, sub.dur.months)
                       /\ sub.starts <= g.at
                       /\ g.expires = NextCycle(g.at, sub.dur)
  /\ \E g \in grants : g.at = sub.starts
  /\ \E g \in grants : \A h \in grants : h.at <= g.at

OnCadence(P, t) ==
  /\ \A g \in grants : g.at < t => HasStart(P, g.at)
  /\ (\E g \in grants : g.at = t) \/ (\A g \in grants : g.at < t)
  /\ \A i \in DOMAIN P : P[i].from < t

LoopOnCadence ==
  /\ anchor = sub.starts /\ Positive(sub.dur)
  /\ read.pc = "forward" /\ anchor <= read.t
  => OnCadence(read.periods, read.curr)

CadenceInv ==
  /\ PeriodInv
  /\ GrantSteps /\ NoGap
  /\ LoopOnCadence /\ CadenceOnGrid
  /\ ~Positive(sub.dur) => grids = {}

(* What follows a period is the next one, or where the chain ends.         *)
LEMMA NextInChain ==
  ASSUME NEW P \in Seq(Period), Steps(P), NEW t, HasStart(P, t),
         NEW n, n = ShiftTime(t, sub.dur, 1)
  PROVE  HasStart(P, n) \/ (P # << >> /\ n = P[Len(P)].to)
<1>1. PICK i \in DOMAIN P : P[i].from = t
  BY DEF HasStart
<1>2. P[i].to = n
  BY <1>1 DEF Steps
<1>3. Len(P) \in Nat /\ DOMAIN P = 1 .. Len(P)
  OBVIOUS
<1>4. CASE i = Len(P)
  BY <1>1, <1>2, <1>3, <1>4
<1>5. CASE i # Len(P)
  <2>1. i \in 1 .. Len(P) - 1 /\ i + 1 \in DOMAIN P
    BY <1>1, <1>3, <1>5
  <2>2. P[i].to = P[i + 1].from
    BY <2>1 DEF Steps, Chained
  <2>3. HasStart(P, n)
    BY <1>2, <2>1, <2>2 DEF HasStart
  <2> QED
    BY <2>3
<1> QED
  BY <1>4, <1>5

(* The worker's grant is the last, and starts where the one before ends.   *)
LEMMA EmitShape ==
  ASSUME CadenceInv, EmitCycle
  PROVE  \E last \in grants, new \in grants' :
           /\ \A g \in grants : g.at <= last.at
           /\ grants' = grants \cup {new}
           /\ new.at = last.expires /\ new.at = NextCycle(last.at, sub.dur)
           /\ new.at \in Int /\ last.at < new.at
           /\ InCalendar(new.at, sub.dur.months)
           /\ new.expires = NextCycle(new.at, sub.dur)
<1> DEFINE last == Latest
           next == NextCycle(last.at, sub.dur)
           new == [at |-> next, expires |-> NextCycle(next, sub.dur)]
<1>1. last \in grants /\ \A g \in grants : g.at <= last.at
  BY DEF CadenceInv, GrantSteps, Latest
<1>2. /\ InCalendar(next, sub.dur.months) /\ \A g \in grants : g.at # next
      /\ grants' = grants \cup {new}
  BY DEF EmitCycle
<1>3. sub.dur \in Durations
  BY DEF CadenceInv, PeriodInv
<1>4. /\ last.at \in Int /\ InCalendar(last.at, sub.dur.months)
      /\ last.expires = next
  BY <1>1 DEF CadenceInv, GrantSteps
<1> HIDE DEF last
<1>5. next \in Int /\ last.at <= next
  BY <1>3, <1>4, CycleAfter
<1>6. last.at # next
  BY <1>1, <1>2
<1>7. new.at = next /\ new.expires = NextCycle(next, sub.dur)
  OBVIOUS
<1> HIDE DEF next
<1> HIDE DEF new
<1>9. last.at < next
  BY <1>4, <1>5, <1>6
<1> QED
  BY <1>1, <1>2, <1>4, <1>5, <1>7, <1>9 DEF next

LEMMA EmitOnCadence ==
  ASSUME CadenceInv, EmitCycle
  PROVE  GrantSteps' /\ NoGap' /\ LoopOnCadence' /\ CadenceOnGrid'
<1>1. PICK last \in grants, new \in grants' :
        /\ \A g \in grants : g.at <= last.at
        /\ grants' = grants \cup {new}
        /\ new.at = last.expires /\ new.at = NextCycle(last.at, sub.dur)
        /\ new.at \in Int /\ last.at < new.at
        /\ InCalendar(new.at, sub.dur.months)
        /\ new.expires = NextCycle(new.at, sub.dur)
  BY EmitShape
<1>2. sub' = sub /\ anchor' = anchor /\ read' = read /\ grids' = grids
  BY DEF EmitCycle
<1>3. /\ \A g \in grants : /\ g.at \in Int /\ sub.starts <= g.at
                           /\ g.expires = NextCycle(g.at, sub.dur)
      /\ sub.starts \in Int
      /\ sub \in [starts : Starts, dur : Durations]
  BY PeriodAssumption DEF CadenceInv, GrantSteps, PeriodInv
<1>4. \A g \in grants : g.at < new.at
  BY <1>1, <1>3
<1>5. GrantSteps'
  <2>1. \A g \in grants' : /\ g.at \in Int /\ InCalendar(g.at, sub.dur.months)
                           /\ sub.starts <= g.at
                           /\ g.expires = NextCycle(g.at, sub.dur)
    BY <1>1, <1>3 DEF CadenceInv, GrantSteps
  <2>2. \E g \in grants' : g.at = sub.starts
    BY <1>1 DEF CadenceInv, GrantSteps
  <2>3. \A h \in grants' : h.at <= new.at
    BY <1>1, <1>3
  <2> QED
    BY <1>2, <2>1, <2>2, <2>3 DEF GrantSteps, InCalendar, NextCycle
<1>6. NoGap'
  <2> SUFFICES ASSUME NEW g \in grants', NEW h \in grants', g.at < h.at
               PROVE  g.expires <= h.at /\ \E k \in grants' : k.at = g.expires
    BY DEF NoGap
  <2>1. CASE g \in grants /\ h \in grants
    BY <1>1, <2>1 DEF CadenceInv, NoGap
  <2>2. CASE g = new
    BY <1>1, <1>3, <1>4, <2>2
  <2>3. CASE g \in grants /\ h = new /\ g.at = last.at
    <3>1. g.expires = new.at
      BY <1>1, <1>3, <2>3
    <3> QED
      BY <1>1, <2>3, <3>1
  <2>4. CASE g \in grants /\ h = new /\ g.at # last.at
    <3>1. g.at < last.at
      BY <1>1, <1>3, <2>4
    <3>2. g.expires <= last.at /\ \E k \in grants : k.at = g.expires
      BY <1>1, <3>1, <2>4 DEF CadenceInv, NoGap
    <3> QED
      BY <1>1, <1>3, <2>4, <3>2
  <2> QED
    BY <1>1, <2>1, <2>2, <2>3, <2>4
<1>7. ASSUME NEW P \in Seq(Period), Steps(P), Positive(sub.dur),
             HasStart(P, last.at)
      PROVE  HasStart(P, new.at) \/ (P # << >> /\ new.at = P[Len(P)].to)
  <2>1. PICK i \in DOMAIN P : P[i].from = last.at
    BY <1>7 DEF HasStart
  <2>2. new.at = ShiftTime(last.at, sub.dur, 1)
    BY <1>1, <1>3, <1>7, ShiftPositive DEF Positive
  <2> QED
    BY <1>7, <2>2, NextInChain
<1>8. LoopOnCadence'
  <2> SUFFICES ASSUME anchor = sub.starts, Positive(sub.dur),
                      read.pc = "forward", anchor <= read.t
               PROVE  /\ \A g \in grants' :
                           g.at < read.curr => HasStart(read.periods, g.at)
                      /\ \/ \E g \in grants' : g.at = read.curr
                         \/ \A g \in grants' : g.at < read.curr
                      /\ \A i \in DOMAIN read.periods :
                           read.periods[i].from < read.curr
    BY <1>2 DEF LoopOnCadence, OnCadence, HasStart
  <2> DEFINE P == read.periods
  <2>1. /\ P \in Seq(Period) /\ Steps(P) /\ read.curr \in Int
        /\ P # << >> => read.curr = P[Len(P)].to
        /\ P = << >> => read.curr = sub.starts
    BY DEF CadenceInv, PeriodInv, LoopInv, Busy
  <2>2. /\ \A g \in grants : g.at < read.curr => HasStart(P, g.at)
        /\ (\E g \in grants : g.at = read.curr) \/ (\A g \in grants : g.at < read.curr)
        /\ \A i \in DOMAIN P : P[i].from < read.curr
    BY DEF CadenceInv, LoopOnCadence, OnCadence
  <2>3. \A t : HasStart(P, t) => t < read.curr
    BY <2>2 DEF HasStart
  <2>4. \A t : HasStart(P, t) => P # << >>
    BY <2>1 DEF HasStart
  <2> HIDE DEF P
  <2>5. CASE last.at < read.curr
    <3>1. HasStart(P, last.at)
      BY <2>2, <2>5
    <3>2. HasStart(P, new.at) \/ new.at = read.curr
      BY <1>7, <2>1, <3>1
    <3> QED
      BY <1>1, <2>1, <2>2, <2>3, <3>2 DEF P
  <2>6. CASE ~(last.at < read.curr)
    <3>1. new.at > read.curr /\ \E g \in grants : g.at = read.curr
      BY <1>1, <1>3, <2>1, <2>2, <2>6
    <3> QED
      BY <1>1, <2>1, <2>2, <3>1 DEF P
  <2> QED
    BY <2>5, <2>6
<1>9. CadenceOnGrid'
  <2> SUFFICES ASSUME anchor = sub.starts, NEW G \in grids,
                      NEW g \in grants', g.at <= G.t
               PROVE  HasStart(G.periods, g.at)
    BY <1>2 DEF CadenceOnGrid, HasStart
  <2>1. CASE g \in grants
    BY <2>1 DEF CadenceInv, CadenceOnGrid, HasStart
  <2>2. CASE g = new
    <3> DEFINE P == G.periods
    <3>1. /\ P \in Seq(Period) /\ Steps(P) /\ G.t < P[Len(P)].to
          /\ G.t \in Int /\ P # << >>
      BY PeriodAssumption DEF CadenceInv, PeriodInv, GridInv, Steps
    <3>2. P[Len(P)].to \in Int
      <4>1. P[Len(P)] \in Period
        BY <3>1
      <4> QED
        BY <4>1 DEF Period
    <3>3. last.at <= G.t
      BY <1>1, <1>3, <2>2, <3>1
    <3>4. HasStart(P, last.at) /\ Positive(sub.dur)
      BY <3>3 DEF CadenceInv, CadenceOnGrid, HasStart
    <3>5. HasStart(P, new.at) \/ new.at = P[Len(P)].to
      BY <1>7, <3>1, <3>4
    <3> QED
      BY <1>1, <2>2, <3>1, <3>2, <3>5
  <2> QED
    BY <1>1, <2>1, <2>2
<1> QED
  BY <1>5, <1>6, <1>8, <1>9

(* Where the loop goes from a time it stands on: grants before its next    *)
(* stand begin a period it has found, and it stands on one or past all.    *)
Grown(P, Q, c, n) ==
  /\ Len(Q) = Len(P) + 1 /\ Q[Len(Q)] = [from |-> c, to |-> n]
  /\ \A i \in DOMAIN P : Q[i] = P[i]

LEMMA TurnOnCadence ==
  ASSUME CadenceInv, NEW c \in Int, NEW n \in Int, n = NextCycle(c, sub.dur),
         c < n, NEW P \in Seq(Period), NEW Q \in Seq(Period),
         Grown(P, Q, c, n), OnCadence(P, c)
  PROVE  OnCadence(Q, n)
<1> USE DEF Grown, OnCadence
<1>1. /\ \A g \in grants : /\ g.at \in Int
                           /\ g.expires = NextCycle(g.at, sub.dur)
      /\ \A g, h \in grants : g.at < h.at =>
           /\ g.expires <= h.at
           /\ \E k \in grants : k.at = g.expires
  BY DEF CadenceInv, GrantSteps, NoGap
<1>2. /\ Len(P) \in Nat /\ DOMAIN P = 1 .. Len(P) /\ DOMAIN Q = 1 .. Len(P) + 1
      /\ \A i \in DOMAIN P : P[i].from \in Int
  <2>1. \A i \in DOMAIN P : P[i] \in Period
    OBVIOUS
  <2> QED
    BY <2>1 DEF Period
<1>3. Q[Len(Q)].from = c /\ Len(Q) \in DOMAIN Q
  BY <1>2
<1>4. \A t : HasStart(P, t) => HasStart(Q, t)
  BY <1>2 DEF HasStart
<1>5. HasStart(Q, c)
  BY <1>3 DEF HasStart
<1>6. ASSUME NEW g \in grants, c < g.at
      PROVE  n <= g.at /\ \E k \in grants : k.at = n
  <2>1. PICK h \in grants : h.at = c
    BY <1>1, <1>6
  <2> QED
    BY <1>1, <1>6, <2>1
<1>7. ASSUME NEW g \in grants, g.at < n
      PROVE  HasStart(Q, g.at)
  BY <1>1, <1>4, <1>5, <1>6, <1>7
<1>8. (\E g \in grants : g.at = n) \/ (\A g \in grants : g.at < n)
  BY <1>1, <1>6
<1>9. \A i \in DOMAIN Q : Q[i].from < n
  <2> SUFFICES ASSUME NEW i \in DOMAIN Q
               PROVE  Q[i].from < n
    OBVIOUS
  <2>1. i \in DOMAIN P \/ i = Len(Q)
    BY <1>2
  <2> QED
    BY <1>2, <1>3, <2>1
<1> QED
  BY <1>7, <1>8, <1>9

LEMMA ForwardOnCadence ==
  ASSUME CadenceInv, StepForward
  PROVE  /\ LoopOnCadence' /\ CadenceOnGrid'
         /\ ~Positive(sub.dur) => grids' = {}
<1> DEFINE r == read
           next == ShiftTime(r.curr, sub.dur, 1)
           p == [from |-> r.curr, to |-> next]
           found == Append(r.periods, p)
           N == [t |-> r.t, periods |-> found]
<1>1. /\ r \in Busy({"forward"}) /\ r.t \in Int /\ r.curr \in Int
      /\ r.periods \in Seq(Period) /\ r.curr <= r.t
      /\ sub.dur \in Durations /\ r.pc = "forward"
  BY PeriodAssumption DEF CadenceInv, PeriodInv, LoopInv, Busy, StepForward
<1>2. /\ InCalendar(r.curr, sub.dur.months) /\ InCalendar(r.curr, -sub.dur.months)
      /\ sub' = sub /\ anchor' = anchor /\ grants' = grants
      /\ IF ~EndsAfter(next, r.t)
           THEN /\ read' = [r EXCEPT !.curr = next, !.periods = found]
                /\ grids' = grids
           ELSE read' = [pc |-> "idle"] /\ grids' = grids \cup {N}
  BY DEF StepForward
<1>3. next \in Int
  BY <1>1, <1>2, ShiftType
<1>4. p \in Period
  BY <1>1, <1>3 DEF Period
<1>5. /\ found \in Seq(Period) /\ Len(found) = Len(r.periods) + 1
      /\ found[Len(found)] = p
      /\ \A i \in DOMAIN r.periods : found[i] = r.periods[i]
  <2> HIDE DEF p
  <2> QED
    BY <1>1, <1>4, AppendProperties
<1>6. N.t = r.t /\ N.periods = found
  OBVIOUS
<1>7. CASE ~Positive(sub.dur)
  <2>1. next <= r.curr
    BY <1>1, <1>2, <1>7, ShiftOther
  <2>2. ~EndsAfter(next, r.t)
    BY <1>1, <1>3, <2>1 DEF EndsAfter
  <2> QED
    BY <1>2, <1>7, <2>2 DEF CadenceInv, LoopOnCadence, CadenceOnGrid
<1>8. CASE anchor = sub.starts /\ Positive(sub.dur) /\ ~(sub.starts <= r.t)
  <2>1. \A g \in grants : ~(g.at <= r.t)
    BY <1>1, <1>8, PeriodAssumption DEF CadenceInv, GrantSteps, PeriodInv
  <2>2. read'.pc = "forward" => read'.t = r.t
    <3> HIDE DEF found, next
    <3>1. CASE ~EndsAfter(next, r.t)
      BY <1>1, <1>2, <3>1 DEF Busy
    <3>2. CASE EndsAfter(next, r.t)
      BY <1>2, <3>2
    <3> QED
      BY <3>1, <3>2
  <2> HIDE DEF N
  <2> QED
    BY <1>2, <1>6, <1>8, <2>1, <2>2 DEF CadenceInv, LoopOnCadence, CadenceOnGrid
<1>9. CASE anchor = sub.starts /\ Positive(sub.dur) /\ sub.starts <= r.t
  <2>1. next = NextCycle(r.curr, sub.dur) /\ r.curr < next
    BY <1>1, <1>2, <1>9, ShiftPositive, CycleAfter DEF Positive
  <2>2. OnCadence(r.periods, r.curr)
    BY <1>1, <1>9 DEF CadenceInv, LoopOnCadence
  <2>3. OnCadence(found, next)
    <3> HIDE DEF found, next
    <3>1. Grown(r.periods, found, r.curr, next)
      BY <1>5 DEF Grown
    <3> QED
      BY <1>1, <1>3, <1>5, <2>1, <2>2, <3>1, TurnOnCadence
  <2> HIDE DEF found, next, N
  <2>4. CASE ~EndsAfter(next, r.t)
    <3>1. read'.curr = next /\ read'.periods = found /\ read'.t = r.t
      BY <1>1, <1>2, <2>4 DEF Busy
    <3> QED
      BY <1>2, <1>9, <2>3, <2>4, <3>1
      DEF CadenceInv, LoopOnCadence, OnCadence, CadenceOnGrid
  <2>5. CASE EndsAfter(next, r.t)
    <3>1. \A g \in grants : g.at <= r.t => HasStart(found, g.at)
      BY <1>1, <1>3, <2>3, <2>5 DEF EndsAfter, CadenceInv, GrantSteps, OnCadence
    <3> QED
      BY <1>2, <1>6, <1>9, <2>5, <3>1
      DEF CadenceInv, LoopOnCadence, CadenceOnGrid, HasStart
  <2> QED
    BY <2>4, <2>5
<1>10. CASE anchor # sub.starts /\ Positive(sub.dur)
  BY <1>2, <1>10 DEF LoopOnCadence, CadenceOnGrid
<1> QED
  BY <1>7, <1>8, <1>9, <1>10

(* Every step keeps the invariant.                                         *)
LEMMA CadenceStep ==
  ASSUME CadenceInv, [Next]_vars
  PROVE  CadenceInv'
<1>1. PeriodInv'
  BY PeriodStep DEF CadenceInv
<1>2. CASE EmitCycle
  <2>1. sub' = sub /\ anchor' = anchor /\ grids' = grids
    BY <1>2 DEF EmitCycle
  <2> QED
    BY <1>1, <1>2, <2>1, EmitOnCadence DEF CadenceInv
<1>3. ASSUME sub' = sub /\ anchor' = anchor, grants' = grants
      PROVE  GrantSteps' /\ NoGap'
  BY <1>3 DEF CadenceInv, GrantSteps, NoGap, InCalendar, NextCycle
<1>4. CASE StepForward
  <2>1. sub' = sub /\ anchor' = anchor /\ grants' = grants
    BY <1>4 DEF StepForward
  <2> QED
    BY <1>1, <1>3, <1>4, <2>1, ForwardOnCadence DEF CadenceInv
<1>5. CASE StepBack
  <2>1. sub' = sub /\ anchor' = anchor /\ grants' = grants /\ grids' = grids
    BY <1>5 DEF StepBack
  <2>2. GrantSteps' /\ NoGap'
    BY <1>3, <2>1
  <2>3. LoopOnCadence'
    <3> SUFFICES ASSUME anchor = sub.starts, read'.pc = "forward",
                        anchor <= read'.t
                 PROVE  /\ \A g \in grants : ~(g.at < read'.curr)
                        /\ \E g \in grants : g.at = read'.curr
                        /\ read'.periods = << >>
      BY <2>1 DEF LoopOnCadence, OnCadence
    <3>1. read \in Busy({"back"}) /\ read.periods = << >> /\ read.curr \in Int
      BY <1>5 DEF CadenceInv, PeriodInv, LoopInv, Busy, StepBack
    <3>2. read' = [read EXCEPT !.pc = "forward"]
      BY <1>5, <3>1 DEF StepBack, Busy
    <3>3. read'.t = read.t /\ read'.curr = read.curr /\ read'.periods = << >>
      BY <3>1, <3>2 DEF Busy
    <3>4. read.curr = sub.starts
      BY <3>1, <3>3 DEF CadenceInv, PeriodInv, LoopInv, Busy
    <3> QED
      BY <3>1, <3>3, <3>4 DEF CadenceInv, GrantSteps
  <2> QED
    BY <1>1, <2>1, <2>2, <2>3 DEF CadenceInv, CadenceOnGrid
<1>6. CASE ReadBegin
  <2>1. sub' = sub /\ anchor' = anchor /\ grants' = grants /\ grids' = grids /\ read'.pc = "back"
    BY <1>6 DEF ReadBegin
  <2> QED
    BY <1>1, <1>3, <2>1 DEF CadenceInv, LoopOnCadence, CadenceOnGrid
<1>7. CASE UNCHANGED <<sub, anchor, grants, read, grids>>
  BY <1>1, <1>3, <1>7
  DEF CadenceInv, LoopOnCadence, OnCadence, CadenceOnGrid
<1> QED
  BY <1>2, <1>4, <1>5, <1>6, <1>7 DEF Next, ReadStep, Tick, vars

LEMMA CadenceInvInductive == Spec => []CadenceInv
<1>1. Init => CadenceInv
  <2> SUFFICES ASSUME Init PROVE CadenceInv
    OBVIOUS
  <2> DEFINE g == [at |-> sub.starts, expires |-> Expiration(sub.starts, sub.dur)]
  <2>1. /\ sub \in [starts : Starts, dur : Durations] /\ sub.starts \in Int
        /\ anchor \in Starts
        /\ grants = {g} /\ read.pc = "idle" /\ grids = {}
    BY PeriodAssumption DEF Init
  <2>2. g.at = sub.starts /\ g.expires = NextCycle(sub.starts, sub.dur)
        /\ InCalendar(sub.starts, sub.dur.months)
    BY <2>1, StartAssumption, CycleAfter
  <2> HIDE DEF g
  <2>3. PeriodInv
    BY <2>1 DEF PeriodInv, LoopInv, GridInv, GridsAgree
  <2>4. GrantSteps
    BY <2>1, <2>2 DEF GrantSteps
  <2>5. NoGap
    BY <2>1, <2>2 DEF NoGap
  <2> QED
    BY <2>1, <2>3, <2>4, <2>5 DEF CadenceInv, LoopOnCadence, CadenceOnGrid
<1> QED
  BY <1>1, CadenceStep, PTL DEF Spec

----------------------------------------------------------------------------
(* The theorems.                                                           *)

(* Whatever the calendar and the duration, a read that ends has found      *)
(* periods without gap or overlap, from the anchor to the time it is       *)
(* about.                                                                  *)
THEOREM PeriodsTile == Spec => []GridTiles
<1>1. PeriodInv => GridTiles
  BY DEF PeriodInv, GridInv, GridTiles, Steps, FromAnchor
<1> QED
  BY <1>1, PeriodInvInductive, PTL

(* Reads at any two times from the anchor on agree on their periods, which *)
(* is what makes a snapshot taken by one of use to another.                *)
THEOREM PeriodsAgree == Spec => []GridsAgree
BY PeriodInvInductive, PTL DEF PeriodInv

(* If the entitlement is anchored to the subscription's start, every grant *)
(* of the worker takes effect where a period of a later read begins,       *)
(* whatever the calendar, the start and the interval.                      *)
THEOREM CyclesOnGrid == Spec => []CadenceOnGrid
BY CadenceInvInductive, PTL DEF CadenceInv

(* A grant that lasts one interval gives way to the next just when that    *)
(* one takes effect.                                                       *)
THEOREM GrantsFollow == Spec => []NoGap
BY CadenceInvInductive, PTL DEF CadenceInv

----------------------------------------------------------------------------
(* Types.                                                                  *)
LEMMA TypeStep ==
  ASSUME CadenceInv, TypeOK, [Next]_vars
  PROVE  TypeOK'
<1>1. CASE Tick
  BY <1>1 DEF Tick, TypeOK
<1>2. CASE EmitCycle
  <2> DEFINE next == NextCycle(Latest.at, sub.dur)
             new == [at |-> next, expires |-> NextCycle(next, sub.dur)]
  <2>1. /\ InCalendar(next, sub.dur.months) /\ grants' = grants \cup {new}
        /\ UNCHANGED <<now, sub, anchor, read, grids>>
    BY <1>2 DEF EmitCycle
  <2>2. /\ Latest \in grants /\ Latest.at \in Int
        /\ InCalendar(Latest.at, sub.dur.months) /\ sub.dur \in Durations
    BY DEF CadenceInv, GrantSteps, Latest, PeriodInv
  <2>3. next \in Int
    BY <2>2, CycleAfter
  <2> HIDE DEF next
  <2>4. new \in [at : Int, expires : Int]
    BY <2>1, <2>2, <2>3, CycleAfter
  <2>5. QED
    BY <2>1, <2>4 DEF TypeOK
<1>3. CASE ReadBegin
  <2>1. PICK t \in Times :
          read' = [pc |-> "back", t |-> t, curr |-> anchor, periods |-> << >>]
    BY <1>3 DEF ReadBegin
  <2>2. UNCHANGED <<now, sub, anchor, grants, grids>> /\ anchor \in Int
    BY <1>3, PeriodAssumption DEF ReadBegin, TypeOK
  <2>3. read' \in Busy({"back", "forward"})
    BY <2>1, <2>2 DEF Busy
  <2>4. QED
    BY <2>2, <2>3 DEF TypeOK
<1>4. CASE StepBack \/ StepForward
  <2>1. UNCHANGED <<now, sub, anchor, grants>>
    BY <1>4 DEF StepBack, StepForward
  <2>2. PeriodInv'
    BY <1>4, BackStep, ForwardStep DEF CadenceInv
  <2>3. read'.pc # "idle" => read' \in Busy({"back", "forward"})
    BY <2>2 DEF PeriodInv, LoopInv
  <2>4. \/ read' \in Busy({"back", "forward"})
        \/ read' = [pc |-> "idle"]
    <3>1. CASE StepBack
      <4>1. read'.pc # "idle"
        <5>1. read \in Busy({"back"})
          BY <3>1 DEF CadenceInv, PeriodInv, LoopInv, Busy, StepBack
        <5>2. read'.pc \in {"back", "forward"}
          BY <3>1, <5>1 DEF StepBack, Busy
        <5>3. QED
          BY <5>2
      <4>2. QED
        BY <2>3, <4>1
    <3>2. CASE StepForward
      <4>1. read \in Busy({"forward"})
        BY <3>2 DEF CadenceInv, PeriodInv, LoopInv, Busy, StepForward
      <4>2. read' = [pc |-> "idle"] \/ read'.pc = "forward"
        BY <3>2, <4>1 DEF StepForward, Busy
      <4>3. QED
        BY <2>3, <4>2
    <3>3. QED
      BY <1>4, <3>1, <3>2
  <2>5. read' \in [pc : {"idle"}] \cup Busy({"back", "forward"})
    BY <2>4
  <2>6. grids' \subseteq [t : Times, periods : Seq(Period) \ {<< >>}]
    <3>1. grids' = grids \/ \E P : grids' = grids \cup {[t |-> read.t, periods |-> P]}
      BY <1>4 DEF StepBack, StepForward
    <3>2. CASE grids' = grids
      BY <3>2 DEF TypeOK
    <3>3. ASSUME NEW P, grids' = grids \cup {[t |-> read.t, periods |-> P]}
          PROVE  grids' \subseteq [t : Times, periods : Seq(Period) \ {<< >>}]
      <4> DEFINE N == [t |-> read.t, periods |-> P]
      <4>1. N \in grids' /\ N.t = read.t /\ N.periods = P
        BY <3>3
      <4>2. N.t \in Times /\ N.periods \in Seq(Period) /\ N.periods # << >>
        BY <2>2, <4>1 DEF PeriodInv, GridInv, Steps
      <4>3. N \in [t : Times, periods : Seq(Period) \ {<< >>}]
        BY <4>1, <4>2
      <4> HIDE DEF N
      <4>4. grids' = grids \cup {N}
        BY <3>3 DEF N
      <4>5. QED
        BY <4>3, <4>4 DEF TypeOK
    <3>4. QED
      BY <3>1, <3>2, <3>3
  <2>7. QED
    BY <2>1, <2>5, <2>6 DEF TypeOK
<1>5. CASE UNCHANGED vars
  BY <1>5 DEF TypeOK, vars
<1>6. QED
  BY <1>1, <1>2, <1>3, <1>4, <1>5 DEF Next, ReadStep

(* Every variable keeps its type, and a read that ends has found a period. *)
THEOREM PeriodTypes == Spec => []TypeOK
<1>1. Init => TypeOK
  <2> SUFFICES ASSUME Init PROVE TypeOK
    OBVIOUS
  <2>1. /\ sub \in [starts : Starts, dur : Durations] /\ sub.starts \in Int
        /\ anchor \in Starts /\ now \in Starts /\ read = [pc |-> "idle"] /\ grids = {}
    BY PeriodAssumption DEF Init
  <2>2. Expiration(sub.starts, sub.dur) \in Int
    BY <2>1, StartAssumption, CycleAfter
  <2>3. grants \subseteq [at : Int, expires : Int]
    BY <2>1, <2>2 DEF Init
  <2>4. QED
    BY <2>1, <2>3 DEF TypeOK
<1>2. QED
  BY <1>1, TypeStep, CadenceInvInductive, PTL DEF Spec

----------------------------------------------------------------------------
(* Where steps back undo steps forward, all of them stay on one lattice:   *)
(* its points are the anchor and what is a number of whole steps from it.  *)
Home == MonthOf(anchor \div 24)
Day == DayOfMonth(anchor)
Hour == anchor % 24
Span == sub.dur.months
Length == 24 * sub.dur.days + sub.dur.hours

At(k) ==
  IF Span = 0 THEN anchor + k * Length
  ELSE 24 * (MonthStart[Home + k * Span] + Day) + Hour

Sits(k) == k \in Int /\ (Span # 0 => Home + k * Span \in Month)

Regular ==
  /\ sub \in [starts : Starts, dur : Durations] /\ Positive(sub.dur)
  /\ anchor \in Starts /\ Invertible

LEMMA AnchorFacts ==
  ASSUME Regular
  PROVE  /\ anchor \in Int /\ Hour \in 0 .. 23
         /\ sub.dur \in Durations /\ ~sub.dur.negative
         /\ Span = sub.dur.months /\ Span \in Nat
         /\ sub.dur.days \in Nat /\ sub.dur.hours \in Nat
         /\ Length = 24 * sub.dur.days + sub.dur.hours /\ Length \in Nat
         /\ Span = 0 => Length > 0
         /\ Home \in Month /\ Home \in Int
         /\ anchor = 24 * (MonthStart[Home] + Day) + Hour
         /\ Day \in Nat
         /\ Span # 0 => /\ sub.dur.days = 0 /\ sub.dur.hours = 0
                        /\ Day \in 0 .. 27
<1>1. /\ anchor \in Starts /\ anchor \in Int /\ sub.dur \in Durations
      /\ ~sub.dur.negative
      /\ sub.dur.months \in Nat /\ sub.dur.days \in Nat
      /\ sub.dur.hours \in Nat
      /\ sub.dur.months + sub.dur.days + sub.dur.hours > 0
  BY PeriodAssumption DEF Regular, Positive
<1>2. InCalendar(anchor, sub.dur.months)
  BY <1>1, StartAssumption
<1>3. PICK t, m : t = anchor /\ m = sub.dur.months
  OBVIOUS
<1>4. /\ MonthOf(t \div 24) \in Month /\ MonthOf(t \div 24) \in Int
      /\ t = 24 * (MonthStart[MonthOf(t \div 24)] + DayOfMonth(t)) + (t % 24)
      /\ DayOfMonth(t) \in Int /\ MonthStart[MonthOf(t \div 24)] \in Int
  BY <1>1, <1>2, <1>3, MonthType
<1>5. /\ Home = MonthOf(t \div 24) /\ Day = DayOfMonth(t) /\ Hour = t % 24
  BY <1>3 DEF Home, Day, Hour
<1>6. Hour \in 0 .. 23
  <2>1. t \in Int
    BY <1>1, <1>3
  <2>2. t % 24 \in 0 .. 23
    BY <2>1
  <2>3. QED
    BY <1>5, <2>2
<1>7. MonthStart[Home] <= t \div 24
  <2> DEFINE day == t \div 24
  <2>1. day \in Int
    BY <1>1, <1>3
  <2>2. 0 \in Month /\ LastMonth \in Month /\ MonthStart \in [Month -> Int]
    BY PeriodAssumption
  <2>3. day \in MonthStart[0] .. MonthStart[LastMonth] - 1
    BY <1>2, <1>3, <2>1, <2>2 DEF InCalendar
  <2> HIDE DEF day
  <2>4. \E k \in Month : /\ MonthStart[k] <= day
                         /\ k < LastMonth => day < MonthStart[k + 1]
    BY <2>3, CalendarAssumption
  <2>5. MonthStart[MonthOf(day)] <= day
    BY <2>4 DEF MonthOf
  <2>6. QED
    BY <1>5, <2>5 DEF day
<1>8. Day \in Nat
  <2>1. DayOfMonth(t) = t \div 24 - MonthStart[MonthOf(t \div 24)]
    BY DEF DayOfMonth
  <2>2. t \div 24 \in Int
    BY <1>1, <1>3
  <2>3. QED
    BY <1>4, <1>5, <1>7, <2>1, <2>2
<1>9. Span # 0 => sub.dur.days = 0 /\ sub.dur.hours = 0 /\ Day < 28
  BY DEF Regular, Invertible, Span, Day
<1>10. /\ Length = 24 * sub.dur.days + sub.dur.hours /\ Length \in Nat
       /\ Span = 0 => Length > 0
  BY <1>1 DEF Span, Length
<1>11. Span = sub.dur.months /\ Span \in Nat
  BY <1>1 DEF Span
<1>12. anchor = 24 * (MonthStart[Home] + Day) + Hour
  BY <1>3, <1>4, <1>5
<1>13. Home \in Month /\ Home \in Int
  BY <1>4, <1>5
<1>14. Span # 0 => Day \in 0 .. 27
  BY <1>8, <1>9
<1> HIDE DEF Home, Day, Hour, Span, Length
<1>15. QED
  BY <1>1, <1>6, <1>8, <1>9, <1>10, <1>11, <1>12, <1>13, <1>14

LEMMA AnchorSits ==
  ASSUME Regular
  PROVE  Sits(0) /\ At(0) = anchor
<1>1. 0 * Span = 0 /\ Home + 0 = Home /\ 0 * Length = 0
      /\ anchor + 0 = anchor
  BY AnchorFacts
<1>2. Home + 0 * Span = Home
  BY <1>1
<1>3. Sits(0)
  BY <1>2, AnchorFacts DEF Sits
<1>4. At(0) = anchor
  BY <1>1, <1>2, AnchorFacts DEF At
<1>5. QED
  BY <1>3, <1>4

(* A day before the shortest month's end is in the month it counts from.   *)
LEMMA MonthIs ==
  ASSUME NEW x \in Month, NEW dom \in 0 .. 27,
         MonthStart[x] + dom < MonthStart[LastMonth]
  PROVE  MonthOf(MonthStart[x] + dom) = x
<1> DEFINE day == MonthStart[x] + dom
<1>1. /\ Month = 0 .. LastMonth /\ LastMonth \in Nat
      /\ \A j \in Month : MonthStart[j] \in Int /\ j \in Int
  BY PeriodAssumption
<1>2. x # LastMonth /\ x < LastMonth /\ x + 1 \in Month
  BY <1>1
<1>3. MonthStart[x] <= day /\ day < MonthStart[x + 1]
  BY <1>1, <1>2, CalendarAssumption
<1>4. ASSUME NEW j \in Month, MonthStart[j] <= day,
             j < LastMonth => day < MonthStart[j + 1]
      PROVE  j = x
  <2>1. ~(j < x)
    <3>1. SUFFICES ASSUME j < x PROVE FALSE
      OBVIOUS
    <3>2. j < LastMonth /\ j + 1 \in Month /\ (j + 1 = x \/ j + 1 < x)
      BY <1>1, <1>2, <3>1
    <3>3. MonthStart[j + 1] <= MonthStart[x]
      BY <1>1, <3>2, CalendarAssumption
    <3>4. QED
      BY <1>1, <1>3, <1>4, <3>2, <3>3
  <2>2. ~(x < j)
    <3>1. SUFFICES ASSUME x < j PROVE FALSE
      OBVIOUS
    <3>2. x + 1 = j \/ x + 1 < j
      BY <1>1, <3>1
    <3>3. MonthStart[x + 1] <= MonthStart[j]
      BY <1>1, <1>2, <3>2, CalendarAssumption
    <3>4. QED
      BY <1>1, <1>2, <1>3, <1>4, <3>3
  <2>3. QED
    BY <1>1, <2>1, <2>2
<1> HIDE DEF day
<1>5. MonthOf(day) = x
  BY <1>2, <1>3, <1>4 DEF MonthOf
<1>6. QED
  BY <1>5 DEF day

(* A step from a point of the lattice leads to the next, or the one before.*)
LEMMA NextSits ==
  ASSUME Regular, NEW k, Sits(k), NEW s \in {1, -1},
         NEW t, t = At(k), NEW m, m = s * sub.dur.months, InCalendar(t, m)
  PROVE  Sits(k + s) /\ At(k + s) = ShiftTime(t, sub.dur, s)
<1>1. k \in Int /\ k + s \in Int /\ Span \in Nat /\ m = s * Span /\ m \in Int
  BY AnchorFacts DEF Sits
<1>2. ShiftTime(t, sub.dur, s)
        = AddDate(t, m, s * sub.dur.days) + s * sub.dur.hours
  BY AnchorFacts DEF ShiftTime
<1>3. CASE Span = 0
  <2>1. t = anchor + k * Length /\ At(k + s) = anchor + (k + s) * Length
    BY <1>3 DEF At
  <2>2. /\ Length \in Int /\ anchor \in Int /\ k * Length \in Int
        /\ s * Length \in Int
        /\ (k + s) * Length = k * Length + s * Length
    <3>1. PICK n : n = Length
      OBVIOUS
    <3>2. n \in Int /\ anchor \in Int
      BY <3>1, AnchorFacts
    <3>3. k * n \in Int /\ s * n \in Int /\ (k + s) * n = k * n + s * n
      <4>1. CASE s = 1
        BY <1>1, <3>2, <4>1
      <4>2. CASE s = -1
        BY <1>1, <3>2, <4>2
      <4>3. QED
        BY <4>1, <4>2
    <3>4. QED
      BY <3>1, <3>2, <3>3
  <2>3. t \in Int /\ m = 0
    BY <1>1, <1>3, <2>1, <2>2
  <2> DEFINE a == MonthStart[MonthOf(t \div 24)]
             b == MonthStart[MonthOf(t \div 24) + m]
             d == DayOfMonth(t)
             r == t % 24
  <2>4. a = b /\ a \in Int /\ d \in Int /\ r \in Int /\ t = 24 * (a + d) + r
    BY <1>1, <2>3, MonthType
  <2>5. AddDate(t, m, s * sub.dur.days) = 24 * (b + d + s * sub.dur.days) + r
    BY DEF AddDate
  <2> HIDE DEF a, b, d, r
  <2>6. s * Length = 24 * (s * sub.dur.days) + s * sub.dur.hours
    <3>1. PICK days : days = sub.dur.days
      OBVIOUS
    <3>2. PICK hours : hours = sub.dur.hours
      OBVIOUS
    <3>3. days \in Nat /\ hours \in Nat /\ Length = 24 * days + hours
      BY <3>1, <3>2, AnchorFacts
    <3>4. s * Length = 24 * (s * days) + s * hours
      <4>1. CASE s = 1
        BY <3>3, <4>1
      <4>2. CASE s = -1
        BY <3>3, <4>2
      <4>3. QED
        BY <4>1, <4>2
    <3>5. QED
      BY <3>1, <3>2, <3>4
  <2>7. s * sub.dur.days \in Int /\ s * sub.dur.hours \in Int
    BY AnchorFacts
  <2>8. AddDate(t, m, s * sub.dur.days) + s * sub.dur.hours = t + s * Length
    BY <2>4, <2>5, <2>6, <2>7
  <2>9. At(k + s) = ShiftTime(t, sub.dur, s)
    BY <1>2, <2>1, <2>2, <2>8
  <2>10. QED
    BY <1>1, <1>3, <2>9 DEF Sits
<1>4. CASE Span # 0
  <2>1. PICK x : x = Home + k * Span
    OBVIOUS
  <2>2. /\ x \in Month /\ Day \in 0 .. 27 /\ Hour \in 0 .. 23
        /\ sub.dur.days = 0 /\ sub.dur.hours = 0
    BY <1>4, <2>1, AnchorFacts DEF Sits
  <2>3. x \in Int /\ MonthStart[x] \in Int
    BY <2>2, PeriodAssumption
  <2>4. PICK day : day = MonthStart[x] + Day
    OBVIOUS
  <2>5. t = 24 * day + Hour /\ day \in Int
    BY <1>4, <2>1, <2>2, <2>3, <2>4 DEF At
  <2>6. Home + (k + s) * Span = x + m
    BY <1>1, <2>1, AnchorFacts
  <2>7. t \div 24 = day /\ t % 24 = Hour
    BY <2>2, <2>5
  <2>8. MonthOf(day) = x
    <3>1. MonthStart[x] + Day < MonthStart[LastMonth]
      BY <2>4, <2>7 DEF InCalendar
    <3>2. QED
      BY <2>2, <2>4, <3>1, MonthIs
  <2>9. DayOfMonth(t) = Day
    <3>1. DayOfMonth(t) = day - MonthStart[x]
      BY <2>7, <2>8 DEF DayOfMonth
    <3>2. QED
      BY <2>2, <2>3, <2>4, <3>1
  <2>10. x + m \in Month
    BY <2>7, <2>8 DEF InCalendar
  <2>11. AddDate(t, m, s * sub.dur.days)
           = 24 * (MonthStart[x + m] + Day + s * 0) + Hour
    BY <2>2, <2>7, <2>8, <2>9 DEF AddDate
  <2>12. MonthStart[x + m] \in Int
    BY <2>10, PeriodAssumption
  <2>13. At(k + s) = 24 * (MonthStart[x + m] + Day) + Hour
    BY <1>4, <2>6, Zenon DEF At
  <2>14. At(k + s) = ShiftTime(t, sub.dur, s)
    BY <1>2, <2>2, <2>11, <2>12, <2>13
  <2>15. Sits(k + s)
    BY <1>1, <2>6, <2>10 DEF Sits
  <2>16. QED
    BY <2>14, <2>15
<1>5. QED
  BY <1>1, <1>3, <1>4

LEMMA AtRises ==
  ASSUME Regular, NEW j, Sits(j), NEW k, Sits(k), j < k
  PROVE  At(j) \in Int /\ At(k) \in Int /\ At(j) < At(k)
<1>1. j \in Int /\ k \in Int /\ Span \in Nat /\ Length \in Nat
  BY AnchorFacts DEF Sits
<1>2. CASE Span = 0
  <2>1. Length > 0 /\ anchor \in Int
    BY <1>2, AnchorFacts
  <2>2. At(j) = anchor + j * Length /\ At(k) = anchor + k * Length
    BY <1>2 DEF At
  <2>3. j * Length \in Int /\ k * Length \in Int /\ j * Length < k * Length
    BY <1>1, <2>1
  <2>4. QED
    BY <2>1, <2>2, <2>3
<1>3. CASE Span # 0
  <2>1. PICK x, y : x = Home + j * Span /\ y = Home + k * Span
    OBVIOUS
  <2>2. x \in Month /\ y \in Month
    BY <1>3, <2>1 DEF Sits
  <2>3. x < y
    <3>1. j * Span \in Int /\ k * Span \in Int /\ j * Span < k * Span
      BY <1>1, <1>3
    <3>2. QED
      BY <2>1, <3>1, AnchorFacts
  <2>4. /\ At(j) = 24 * (MonthStart[x] + Day) + Hour
        /\ At(k) = 24 * (MonthStart[y] + Day) + Hour
    BY <1>3, <2>1, Zenon DEF At
  <2>5. /\ MonthStart[x] \in Int /\ MonthStart[y] \in Int
        /\ MonthStart[x] < MonthStart[y]
    BY <2>2, <2>3, CalendarAssumption, PeriodAssumption
  <2>6. Hour \in Int /\ Day \in Int
    BY AnchorFacts
  <2>7. QED
    BY <2>4, <2>5, <2>6
<1>4. QED
  BY <1>1, <1>2, <1>3

Point(t) == \E k \in Int : Sits(k) /\ t = At(k)

Cell(p) ==
  \E k \in Int : Sits(k) /\ Sits(k + 1) /\ p.from = At(k) /\ p.to = At(k + 1)

Cells(P) == \A i \in DOMAIN P : Cell(P[i])

(* Where a read stands is a point of the lattice, and every period found   *)
(* is a cell of it, from one point to the next.                            *)
OnLattice ==
  Regular =>
    /\ read.pc # "idle" => Point(read.curr) /\ Cells(read.periods)
    /\ \A G \in grids : Cells(G.periods)

LEMMA PointType ==
  ASSUME Regular, NEW k, Sits(k)
  PROVE  At(k) \in Int
<1>1. CASE Span = 0
  <2>1. k \in Int /\ Length \in Int /\ anchor \in Int
    BY AnchorFacts DEF Sits
  <2>2. At(k) = anchor + k * Length
    BY <1>1 DEF At
  <2>3. QED
    BY <2>1, <2>2
<1>2. CASE Span # 0
  <2>1. PICK x : x = Home + k * Span
    OBVIOUS
  <2>2. x \in Month
    BY <1>2, <2>1 DEF Sits
  <2>3. At(k) = 24 * (MonthStart[x] + Day) + Hour
    BY <1>2, <2>1, Zenon DEF At
  <2>4. MonthStart[x] \in Int
    BY <2>2, PeriodAssumption
  <2>5. Hour \in Int /\ Day \in Int
    BY AnchorFacts
  <2>6. QED
    BY <2>3, <2>4, <2>5
<1>3. QED
  BY <1>1, <1>2

LEMMA CellsApart ==
  ASSUME Regular, NEW p, Cell(p), NEW q, Cell(q)
  PROVE  \/ p.from = q.from /\ p.to = q.to
         \/ p.to <= q.from \/ q.to <= p.from
<1>1. PICK j \in Int : /\ Sits(j) /\ Sits(j + 1)
                       /\ p.from = At(j) /\ p.to = At(j + 1)
  BY DEF Cell
<1>2. PICK k \in Int : /\ Sits(k) /\ Sits(k + 1)
                       /\ q.from = At(k) /\ q.to = At(k + 1)
  BY DEF Cell
<1>3. ASSUME NEW a \in Int, NEW b \in Int, Sits(a), Sits(b), a <= b
      PROVE  At(a) <= At(b)
  <2>1. CASE a = b
    BY <1>3, <2>1, PointType
  <2>2. CASE a < b
    <3>1. At(a) \in Int /\ At(b) \in Int /\ At(a) < At(b)
      BY <1>3, <2>2, AtRises
    <3>2. QED
      BY <3>1
  <2>3. QED
    BY <1>3, <2>1, <2>2
<1>4. CASE j = k
  BY <1>1, <1>2, <1>4
<1>5. CASE j < k
  <2>1. PICK c : c = j + 1
    OBVIOUS
  <2>2. c \in Int /\ c <= k /\ Sits(c) /\ p.to = At(c)
    BY <1>1, <1>5, <2>1
  <2>3. QED
    BY <1>2, <1>3, <2>2
<1>6. CASE k < j
  <2>1. PICK c : c = k + 1
    OBVIOUS
  <2>2. c \in Int /\ c <= j /\ Sits(c) /\ q.to = At(c)
    BY <1>2, <1>6, <2>1
  <2>3. QED
    BY <1>1, <1>3, <2>2
<1>7. QED
  BY <1>4, <1>5, <1>6

LEMMA BackOnLattice ==
  ASSUME PeriodInv, OnLattice, StepBack
  PROVE  OnLattice'
<1>1. /\ sub' = sub /\ anchor' = anchor /\ grids' = grids /\ read \in Busy({"back"})
      /\ read.periods = << >>
  BY DEF PeriodInv, LoopInv, Busy, StepBack
<1>2. SUFFICES ASSUME Regular
               PROVE  Point(read'.curr) /\ Cells(read'.periods)
  BY <1>1 DEF OnLattice, Regular, Point, Cells, Cell, Sits, At, Home, Day,
              Hour, Span, Length, Invertible, Positive
<1>3. Point(read.curr) /\ read.pc # "idle"
  BY <1>1, <1>2 DEF OnLattice, Busy
<1>4. read'.periods = read.periods
  BY <1>1 DEF StepBack, Busy
<1>5. Cells(read'.periods)
  BY <1>1, <1>4 DEF Cells
<1>6. Point(read'.curr)
  <2>1. CASE ~StartsAfter(read.curr, read.t)
    <3>1. read'.curr = read.curr
      BY <1>1, <2>1 DEF StepBack, Busy
    <3>2. QED
      BY <1>3, <3>1
  <2>2. CASE StartsAfter(read.curr, read.t)
    <3>1. PICK t : t = read.curr
      OBVIOUS
    <3>2. PICK k \in Int : Sits(k) /\ t = At(k)
      BY <1>3, <3>1 DEF Point
    <3>3. InCalendar(t, -sub.dur.months)
      BY <2>2, <3>1 DEF StepBack
    <3>4. PICK s : s = -1
      OBVIOUS
    <3>5. PICK m : m = s * sub.dur.months
      OBVIOUS
    <3>6. m = -sub.dur.months
      BY <1>2, <3>4, <3>5, AnchorFacts
    <3>7. s \in {1, -1} /\ InCalendar(t, m)
      BY <3>3, <3>4, <3>6
    <3>8. Sits(k + s) /\ At(k + s) = ShiftTime(t, sub.dur, s)
      BY <1>2, <3>2, <3>5, <3>7, NextSits
    <3>9. read'.curr = ShiftTime(t, sub.dur, s)
      BY <1>1, <2>2, <3>1, <3>4 DEF StepBack, Busy
    <3>10. k + s \in Int
      BY <3>4
    <3>11. QED
      BY <3>8, <3>9, <3>10 DEF Point
  <2>3. QED
    BY <2>1, <2>2
<1>7. QED
  BY <1>5, <1>6

LEMMA ForwardOnLattice ==
  ASSUME PeriodInv, OnLattice, StepForward
  PROVE  OnLattice'
<1> DEFINE next == ShiftTime(read.curr, sub.dur, 1)
           new == [from |-> read.curr, to |-> next]
           found == Append(read.periods, new)
<1>1. sub' = sub /\ anchor' = anchor /\ read \in Busy({"forward"})
  BY DEF PeriodInv, LoopInv, Busy, StepForward
<1>2. SUFFICES ASSUME Regular
               PROVE  /\ read'.pc # "idle" => /\ Point(read'.curr)
                                              /\ Cells(read'.periods)
                      /\ \A G \in grids' : Cells(G.periods)
  BY <1>1 DEF OnLattice, Regular, Point, Cells, Cell, Sits, At, Home, Day,
              Hour, Span, Length, Invertible, Positive
<1>3. /\ Point(read.curr) /\ Cells(read.periods)
      /\ \A G \in grids : Cells(G.periods)
  BY <1>1, <1>2 DEF OnLattice, Busy
<1>4. PICK t : t = read.curr
  OBVIOUS
<1>5. PICK k \in Int : Sits(k) /\ t = At(k)
  BY <1>3, <1>4 DEF Point
<1>6. PICK s : s = 1
  OBVIOUS
<1>7. PICK m : m = s * sub.dur.months
  OBVIOUS
<1>8. m = sub.dur.months
  BY <1>2, <1>6, <1>7, AnchorFacts
<1>9. s \in {1, -1} /\ InCalendar(t, m)
  BY <1>4, <1>6, <1>8 DEF StepForward
<1>10. Sits(k + s) /\ At(k + s) = ShiftTime(t, sub.dur, s)
  BY <1>2, <1>5, <1>7, <1>9, NextSits
<1>11. Sits(k + 1) /\ next = At(k + 1) /\ k + 1 \in Int
  BY <1>4, <1>6, <1>10
<1>12. Cell(new) /\ Point(next)
  BY <1>4, <1>5, <1>11 DEF Cell, Point
<1>13. Cells(found)
  <2>1. read.periods \in Seq(Period)
    BY <1>1 DEF Busy
  <2> HIDE DEF new
  <2>2. /\ DOMAIN found = 1 .. Len(read.periods) + 1 /\ Len(read.periods) \in Nat
        /\ DOMAIN read.periods = 1 .. Len(read.periods)
        /\ found[Len(read.periods) + 1] = new
        /\ \A i \in DOMAIN read.periods : found[i] = read.periods[i]
    BY <2>1
  <2> HIDE DEF found
  <2>3. ASSUME NEW i \in DOMAIN found PROVE Cell(found[i])
    <3>1. i \in DOMAIN read.periods \/ i = Len(read.periods) + 1
      BY <2>2
    <3>2. QED
      BY <1>3, <1>12, <2>2, <3>1 DEF Cells
  <2>4. QED
    BY <2>3 DEF Cells
<1> HIDE DEF new, found, next
<1>14. CASE ~EndsAfter(next, read.t)
  <2>1. /\ read' = [read EXCEPT !.curr = next, !.periods = found]
        /\ grids' = grids
    BY <1>14 DEF StepForward, next, found, new
  <2>2. read'.curr = next /\ read'.periods = found
    BY <1>1, <2>1 DEF Busy
  <2>3. QED
    BY <1>3, <1>12, <1>13, <2>1, <2>2
<1>15. CASE EndsAfter(next, read.t)
  <2>1. /\ read' = [pc |-> "idle"]
        /\ grids' = grids \cup {[t |-> read.t, periods |-> found]}
    BY <1>15 DEF StepForward, next, found, new
  <2>2. QED
    BY <1>3, <1>13, <2>1
<1>16. QED
  BY <1>14, <1>15

LEMMA LatticeStep ==
  ASSUME PeriodInv, OnLattice, [Next]_vars
  PROVE  OnLattice'
<1>1. CASE Tick \/ EmitCycle \/ UNCHANGED vars
  <2>1. UNCHANGED <<sub, anchor, read, grids>>
    BY <1>1 DEF Tick, EmitCycle, vars
  <2>2. QED
    BY <2>1 DEF OnLattice, Regular, Point, Cells, Cell, Sits, At, Home, Day,
                Hour, Span, Length, Invertible, Positive
<1>2. CASE ReadBegin
  <2>1. /\ sub' = sub /\ anchor' = anchor /\ grids' = grids /\ read'.curr = anchor
        /\ read'.periods = << >>
    BY <1>2 DEF ReadBegin
  <2>2. SUFFICES ASSUME Regular
                 PROVE  Point(read'.curr) /\ Cells(read'.periods)
    BY <2>1 DEF OnLattice, Regular, Point, Cells, Cell, Sits, At, Home, Day,
                Hour, Span, Length, Invertible, Positive
  <2>3. Sits(0) /\ read'.curr = At(0)
    BY <2>1, <2>2, AnchorSits
  <2>4. Point(read'.curr)
    BY <2>3 DEF Point
  <2>5. Cells(read'.periods)
    BY <2>1 DEF Cells
  <2>6. QED
    BY <2>4, <2>5
<1>3. QED
  BY <1>1, <1>2, BackOnLattice, ForwardOnLattice DEF Next, ReadStep

LEMMA LatticeDisjoint ==
  ASSUME CadenceInv, OnLattice
  PROVE  PeriodsDisjoint
<1>1. SUFFICES ASSUME Invertible,
                      NEW G \in grids, NEW H \in grids,
                      NEW i \in DOMAIN G.periods, NEW j \in DOMAIN H.periods
               PROVE  \/ G.periods[i] = H.periods[j]
                      \/ G.periods[i].to <= H.periods[j].from
                      \/ H.periods[j].to <= G.periods[i].from
  BY DEF PeriodsDisjoint
<1>2. /\ Positive(sub.dur) /\ sub \in [starts : Starts, dur : Durations]
      /\ anchor \in Starts
  BY <1>1 DEF CadenceInv, PeriodInv
<1>3. Regular
  BY <1>1, <1>2 DEF Regular
<1>4. Cell(G.periods[i]) /\ Cell(H.periods[j])
  BY <1>1, <1>3 DEF OnLattice, Cells
<1>5. G.periods[i] \in Period /\ H.periods[j] \in Period
  BY <1>1 DEF CadenceInv, PeriodInv, GridInv, Steps
<1>6. PICK p, q : p = G.periods[i] /\ q = H.periods[j]
  OBVIOUS
<1>7. \/ p.from = q.from /\ p.to = q.to
      \/ p.to <= q.from \/ q.to <= p.from
  BY <1>3, <1>4, <1>6, CellsApart
<1>8. p.from = q.from /\ p.to = q.to => p = q
  BY <1>5, <1>6 DEF Period
<1>9. QED
  BY <1>6, <1>7, <1>8

(* Where steps back undo steps forward, no time is in two of the periods   *)
(* any reads return, also those of times before the anchor: an event is    *)
(* counted in one usage period whoever asks.                               *)
THEOREM PeriodsApart == Spec => []PeriodsDisjoint
<1>1. Init => OnLattice
  BY DEF Init, OnLattice
<1>2. CadenceInv /\ OnLattice /\ [Next]_vars => OnLattice'
  BY LatticeStep DEF CadenceInv
<1>3. QED
  BY <1>1, <1>2, CadenceInvInductive, LatticeDisjoint, PTL DEF Spec

(* A cycle of the worker from any time in a period ends with the period or *)
(* after it.                                                               *)
LEMMA StepMonotone ==
  ASSUME Regular, NEW k, Sits(k), Sits(k + 1),
         NEW u \in Int, InCalendar(u, sub.dur.months), At(k) <= u
  PROVE  At(k + 1) <= NextCycle(u, sub.dur)
<1> DEFINE y == MonthOf(u \div 24)
           a == MonthStart[y]
           b == MonthStart[y + sub.dur.months]
           dom == DayOfMonth(u)
           h == u % 24
<1>1. /\ k \in Int /\ Span \in Nat /\ Length \in Nat /\ Span = sub.dur.months
      /\ sub.dur.days \in Nat /\ sub.dur.hours \in Nat
      /\ Length = 24 * sub.dur.days + sub.dur.hours /\ anchor \in Int
  BY AnchorFacts DEF Sits
<1>2. /\ y \in Month /\ y + sub.dur.months \in Month /\ y \in Int
      /\ a \in Int /\ b \in Int /\ dom \in Int /\ h \in 0 .. 23
      /\ sub.dur.months = 0 => a = b
      /\ u = 24 * (a + dom) + h
  <2>1. PICK m : m = sub.dur.months
    OBVIOUS
  <2>2. m \in Int /\ InCalendar(u, m)
    BY <1>1, <2>1
  <2>3. h \in 0 .. 23
    OBVIOUS
  <2> HIDE DEF h
  <2>4. /\ y \in Month /\ y + m \in Month /\ y \in Int
        /\ a \in Int /\ MonthStart[y + m] \in Int /\ dom \in Int
        /\ m = 0 => a = MonthStart[y + m]
        /\ u = 24 * (a + dom) + h
    BY <2>2, MonthType DEF h
  <2>5. QED
    BY <2>1, <2>3, <2>4
<1>3. NextCycle(u, sub.dur) = 24 * (b + dom + sub.dur.days) + h + sub.dur.hours
  BY DEF NextCycle, AddDate
<1>4. dom >= 0 /\ (y < LastMonth => u \div 24 < MonthStart[y + 1])
  <2>1. u \div 24 \in MonthStart[0] .. MonthStart[LastMonth] - 1
    BY PeriodAssumption DEF InCalendar
  <2>2. \E j \in Month : /\ MonthStart[j] <= u \div 24
                         /\ j < LastMonth => u \div 24 < MonthStart[j + 1]
    BY <2>1, CalendarAssumption
  <2>3. /\ MonthStart[y] <= u \div 24
        /\ y < LastMonth => u \div 24 < MonthStart[y + 1]
    BY <2>2 DEF MonthOf
  <2>4. QED
    BY <1>2, <2>1, <2>3 DEF DayOfMonth
<1> HIDE DEF a, b, dom, h
<1>5. CASE Span = 0
  <2>1. At(k) = anchor + k * Length /\ At(k + 1) = anchor + (k + 1) * Length
    BY <1>5 DEF At
  <2>2. PICK n : n = Length
    OBVIOUS
  <2>3. k * n \in Int /\ (k + 1) * n = k * n + n
    BY <1>1, <2>2
  <2>4. At(k + 1) = At(k) + Length /\ At(k) \in Int
    BY <1>1, <2>1, <2>2, <2>3
  <2>5. NextCycle(u, sub.dur) = u + Length
    <3>1. a = b
      BY <1>1, <1>2, <1>5
    <3>2. PICK days, hours : days = sub.dur.days /\ hours = sub.dur.hours
      OBVIOUS
    <3>3. days \in Nat /\ hours \in Nat /\ Length = 24 * days + hours
      BY <1>1, <3>2
    <3>4. NextCycle(u, sub.dur) = 24 * (a + dom + days) + h + hours
      BY <1>3, <3>1, <3>2
    <3>5. QED
      BY <1>2, <3>3, <3>4
  <2>6. QED
    BY <1>1, <2>4, <2>5
<1>6. CASE Span # 0
  <2>1. PICK x : x = Home + k * Span
    OBVIOUS
  <2>2. PICK z : z = Home + (k + 1) * Span
    OBVIOUS
  <2>3. x \in Month /\ z \in Month /\ z = x + Span /\ x \in Int /\ z \in Int
    <3>1. PICK n : n = Span
      OBVIOUS
    <3>2. (k + 1) * n = k * n + n /\ k * n \in Int /\ n \in Int
      <4>1. n \in Int /\ k \in Int
        BY <1>1, <3>1
      <4>2. QED
        BY <4>1
    <3>3. z = x + Span
      BY <2>1, <2>2, <3>1, <3>2, AnchorFacts
    <3>4. QED
      BY <1>6, <2>1, <2>2, <3>3, PeriodAssumption DEF Sits
  <2>4. /\ At(k) = 24 * (MonthStart[x] + Day) + Hour
        /\ At(k + 1) = 24 * (MonthStart[z] + Day) + Hour
    BY <1>6, <2>1, <2>2, Zenon DEF At
  <2>5. /\ Day \in 0 .. 27 /\ Hour \in 0 .. 23
        /\ sub.dur.days = 0 /\ sub.dur.hours = 0
    BY <1>6, AnchorFacts
  <2>6. MonthStart[x] \in Int /\ MonthStart[z] \in Int
    BY <2>3, PeriodAssumption
  <2>7. NextCycle(u, sub.dur) = 24 * (b + dom) + h
    BY <1>2, <1>3, <2>5
  <2>8. ~(y < x)
    <3>1. SUFFICES ASSUME y < x PROVE FALSE
      OBVIOUS
    <3>2. y < LastMonth /\ y + 1 \in Month /\ (y + 1 = x \/ y + 1 < x)
      BY <1>2, <2>3, <3>1, PeriodAssumption
    <3>3. MonthStart[y + 1] <= MonthStart[x] /\ MonthStart[y + 1] \in Int
      BY <2>3, <2>6, <3>2, CalendarAssumption, PeriodAssumption
    <3>4. QED
      BY <1>4, <2>4, <2>5, <2>6, <3>2, <3>3
  <2>9. CASE y = x
    <3>1. a = MonthStart[x] /\ b = MonthStart[z]
      BY <1>1, <2>3, <2>9 DEF a, b
    <3>2. QED
      BY <1>2, <2>4, <2>5, <2>6, <2>7, <3>1
  <2>10. CASE x < y
    <3>1. PICK w : w = y + sub.dur.months
      OBVIOUS
    <3>2. w \in Month /\ w \in Int /\ b = MonthStart[w] /\ z < w
      BY <1>1, <1>2, <2>3, <2>10, <3>1 DEF b
    <3>3. z # LastMonth /\ z + 1 \in Month /\ (z + 1 = w \/ z + 1 < w)
      BY <2>3, <3>2, PeriodAssumption
    <3>4. MonthStart[z] + 28 <= MonthStart[z + 1] /\ MonthStart[z + 1] \in Int
      BY <2>3, <3>3, CalendarAssumption, PeriodAssumption
    <3>5. MonthStart[z + 1] <= b
      <4>1. CASE z + 1 = w
        BY <3>2, <3>4, <4>1
      <4>2. CASE z + 1 < w
        <5>1. MonthStart[z + 1] < MonthStart[w] /\ MonthStart[w] \in Int
          BY <3>2, <3>3, <4>2, CalendarAssumption, PeriodAssumption
        <5>2. QED
          BY <3>2, <3>4, <5>1
      <4>3. QED
        BY <3>3, <4>1, <4>2
    <3>6. QED
      BY <1>2, <1>4, <2>4, <2>5, <2>6, <2>7, <3>4, <3>5
  <2>11. QED
    BY <1>2, <2>3, <2>8, <2>9, <2>10
<1>7. QED
  BY <1>1, <1>5, <1>6

(* Of two cycles the later begins where the earlier ends or after it, and  *)
(* so not in the period that holds the earlier.                            *)
LEMMA CreditsApart ==
  ASSUME CadenceInv, OnLattice
  PROVE  PeriodCreditedOnce
<1>1. SUFFICES ASSUME Invertible,
                      NEW G \in grids, NEW i \in DOMAIN G.periods,
                      NEW g \in grants, NEW h \in grants,
                      G.periods[i].from <= g.at, g.at < G.periods[i].to,
                      G.periods[i].from <= h.at, h.at < G.periods[i].to
               PROVE  ~(g.at < h.at)
  <2>1. \A g \in grants : g.at \in Int
    BY DEF CadenceInv, GrantSteps
  <2>2. QED
    BY <1>1, <2>1 DEF PeriodCreditedOnce
<1>2. SUFFICES ASSUME g.at < h.at PROVE FALSE
  OBVIOUS
<1>3. /\ Positive(sub.dur) /\ sub \in [starts : Starts, dur : Durations]
      /\ anchor \in Starts
  BY <1>1 DEF CadenceInv, PeriodInv
<1>4. Regular
  BY <1>1, <1>3 DEF Regular
<1>5. PICK k \in Int : /\ Sits(k) /\ Sits(k + 1)
                       /\ G.periods[i].from = At(k) /\ G.periods[i].to = At(k + 1)
  BY <1>1, <1>4 DEF OnLattice, Cells, Cell
<1>6. /\ g.at \in Int /\ h.at \in Int /\ InCalendar(g.at, sub.dur.months)
      /\ g.expires = NextCycle(g.at, sub.dur) /\ g.expires <= h.at
  BY <1>1, <1>2 DEF CadenceInv, GrantSteps, NoGap
<1>7. At(k + 1) <= g.expires
  BY <1>1, <1>4, <1>5, <1>6, StepMonotone
<1>8. g.expires \in Int /\ At(k + 1) \in Int
  BY <1>3, <1>4, <1>5, <1>6, CycleAfter, PointType
<1>9. QED
  BY <1>1, <1>5, <1>6, <1>7, <1>8

(* Wherever the entitlement is anchored, no usage period of it is credited *)
(* two cycles, as long as steps back undo steps forward.                   *)
THEOREM CreditedOnce == Spec => []PeriodCreditedOnce
<1>1. Init => OnLattice
  BY DEF Init, OnLattice
<1>2. CadenceInv /\ OnLattice /\ [Next]_vars => OnLattice'
  BY LatticeStep DEF CadenceInv
<1>3. QED
  BY <1>1, <1>2, CadenceInvInductive, CreditsApart, PTL DEF Spec

=============================================================================

--------------------------- MODULE BalancesProofs ---------------------------
(***************************************************************************)
(* Reads and the snapshots they leave, for every number of concurrent      *)
(* reads, of grants, events and calls: the types; that while closed        *)
(* periods are left alone, a snapshot is of a period that is over; that a  *)
(* snapshot is always sane; what a walk counts, burns and carries; that a  *)
(* walk from a snapshot goes on as the whole one does; and that snapshots  *)
(* are what the ledger carries over their boundaries.                      *)
(***************************************************************************)
EXTENDS Balances, LedgerProofs

EntRows == [created : Time, anchor : Time \cup {None}, dur : Durations,
            cap : Caps]

IsSnaps(s) == \E S : s \in Seq([asOf : Int, active : S])

Timely(s) == \A i \in DOMAIN s : s[i].asOf <= now

PeriodsOf(q) == Periods(Anchor(q.ent), q.ent.dur, q.t)

(* What a read holds.  The row it has copied is the entitlement's, and its *)
(* time is not ahead, until something disturbs the order.                  *)
ReadInv(q) ==
  /\ q.pc \in {"idle", "grants", "time", "seed", "walk"}
  /\ q.pc # "idle" => q.ent \in EntRows /\ (orderly => q.ent = ent)
  /\ q.pc \in {"grants", "time"} =>
       /\ q.at \in Time \cup {None}
       /\ orderly => q.at = None \/ ~Ahead(q.at)
  /\ q.pc \in {"seed", "walk"} => q.t \in Time /\ (orderly => ~Ahead(q.t))
  /\ q.pc = "walk" =>
       /\ q.ent.dur > 0 /\ q.i \in 1 .. Len(PeriodsOf(q))
       /\ IsSnaps(q.new) /\ (orderly => Timely(q.new))

CacheInv ==
  /\ TypeOK /\ ClosedPeriodsOnly
  /\ DOMAIN read = Reads /\ \A r \in Reads : ReadInv(read[r])
  /\ \A s \in saves : IsSnaps(s)

----------------------------------------------------------------------------
(* What steps keep.                                                        *)

(* What a step may do to the clock, the order and the row.                 *)
Onward ==
  /\ now' \in Time /\ now <= now'
  /\ orderly' \in BOOLEAN /\ (orderly' => orderly /\ ent' = ent)

LEMMA EntTyped ==
  ASSUME NEW e \in EntRows
  PROVE  Anchor(e) \in Int /\ e.dur \in Nat
<1>1. e.created \in Time /\ e.anchor \in Time \cup {None} /\ e.dur \in Durations
  BY DEF EntRows
<1>2. e.created \in Int /\ e.anchor \in Int
  BY <1>1 DEF Time, None
<1>3. e.dur \in Nat
  BY <1>1, BalanceAssumption
<1>4. QED
  BY <1>2, <1>3 DEF Anchor

LEMMA StartTyped ==
  ASSUME ent \in EntRows, ent.dur > 0, NEW t \in Time
  PROVE  PeriodStart(t) \in Int /\ PeriodStart(t) <= t
<1>1. Anchor(ent) \in Int /\ ent.dur \in Nat \ {0} /\ t \in Int
  BY EntTyped DEF Time
<1> DEFINE P == Periods(Anchor(ent), ent.dur, t)
           n == Len(P)
<1>2. /\ n \in Nat \ {0} /\ P[n].from <= t
      /\ \A i \in 1 .. n : P[i].from \in Int
  BY <1>1, PeriodsTyped, Zenon
<1>3. n \in 1 .. n
  BY <1>2
<1>4. QED
  BY <1>2, <1>3 DEF PeriodStart

LEMMA AsOfTyped ==
  ASSUME NEW S, NEW s \in Seq([asOf : Int, active : S]), NEW i \in DOMAIN s
  PROVE  s[i].asOf \in Int
<1>1. DOMAIN s = 1 .. Len(s)
  OBVIOUS
<1>2. s[i] \in [asOf : Int, active : S]
  BY <1>1, ElementOfSeq
<1>3. QED
  BY <1>2

(* A time that is not ahead does not come to be.                           *)
LEMMA AheadKept ==
  ASSUME ent \in EntRows, now \in Time, Onward, ent' = ent,
         NEW t \in Time, ~Ahead(t)
  PROVE  ~Ahead(t)'
<1>1. SUFFICES ASSUME ent.dur > 0 PROVE ~(now' < PeriodStart(t))
  BY DEF Ahead, PeriodStart
<1>2. PeriodStart(t) \in Int
  BY <1>1, StartTyped
<1>3. now \in Int /\ now' \in Int
  BY DEF Onward, Time
<1>4. QED
  BY <1>1, <1>2, <1>3 DEF Onward, Ahead

(* A read that a step leaves alone keeps its invariant.                    *)
LEMMA ReadKept ==
  ASSUME CacheInv, Onward, NEW r \in Reads, read'[r] = read[r]
  PROVE  ReadInv(read[r])'
<1> DEFINE q == read[r]
<1>1. ReadInv(q) /\ ent \in EntRows /\ now \in Time
  BY DEF CacheInv, TypeOK, EntRows
<1>2. CASE ~orderly'
  BY <1>1, <1>2 DEF ReadInv, PeriodsOf
<1>3. CASE orderly'
  <2>1. orderly /\ ent' = ent
    BY <1>3 DEF Onward
  <2>2. \A t \in Time : ~Ahead(t) => ~Ahead(t)'
    BY <1>1, <2>1, AheadKept
  <2>3. q.pc = "walk" => Timely(q.new)'
    <3>1. SUFFICES ASSUME q.pc = "walk", NEW i \in DOMAIN q.new
                   PROVE  q.new[i].asOf <= now'
      BY DEF Timely
    <3>2. PICK S : q.new \in Seq([asOf : Int, active : S])
      BY <1>1, <3>1 DEF ReadInv, IsSnaps
    <3>3. q.new[i].asOf \in Int
      BY <3>1, <3>2, AsOfTyped
    <3>4. q.new[i].asOf <= now
      BY <1>1, <2>1, <3>1 DEF ReadInv, Timely
    <3>5. now \in Int /\ now' \in Int /\ now <= now'
      BY <1>1 DEF Onward, Time
    <3>6. QED
      BY <3>3, <3>4, <3>5
  <2>4. QED
    BY <1>1, <2>1, <2>2, <2>3 DEF ReadInv, PeriodsOf
<1>4. QED
  BY <1>2, <1>3 DEF Onward

(* What was saved or waits to be saved does not come to be ahead.          *)
LEMMA SavedKept ==
  ASSUME CacheInv, Onward
  PROVE  orderly' => /\ \A a \in DOMAIN snaps : a <= now'
                     /\ \A s \in saves : Timely(s)'
<1>1. SUFFICES ASSUME orderly'
               PROVE  /\ \A a \in DOMAIN snaps : a <= now'
                      /\ \A s \in saves : Timely(s)'
  OBVIOUS
<1>2. /\ now \in Int /\ now' \in Int /\ now <= now' /\ orderly
      /\ DOMAIN snaps \subseteq Int /\ ClosedPeriodsOnly
  BY <1>1 DEF CacheInv, TypeOK, Onward, Time
<1>3. \A a \in DOMAIN snaps : a <= now'
  BY <1>2 DEF ClosedPeriodsOnly
<1>4. ASSUME NEW s \in saves, NEW i \in DOMAIN s
      PROVE  s[i].asOf <= now'
  <2>1. PICK S : s \in Seq([asOf : Int, active : S])
    BY <1>4 DEF CacheInv, IsSnaps
  <2>2. s[i].asOf \in Int
    BY <1>4, <2>1, AsOfTyped
  <2>3. s[i].asOf <= now
    BY <1>2, <1>4 DEF ClosedPeriodsOnly
  <2>4. QED
    BY <1>2, <2>2, <2>3
<1>5. QED
  BY <1>3, <1>4 DEF Timely

(* The tables' rows are of their types.                                    *)
RowsTyped ==
  /\ DOMAIN grants \subseteq GrantIds /\ DOMAIN events \subseteq EventIds
  /\ \A g \in DOMAIN grants :
       grants[g] \in [amount : Amounts, priority : Priorities,
                     effective : Time, expires : Nat \cup {None},
                     voided : BOOLEAN]
  /\ \A i \in DOMAIN events : events[i] \in [time : Time, value : Values]
  /\ ent \in EntRows

Saved(s) == IsSnaps(s) /\ s # << >> /\ (orderly => Timely(s))

LEMMA Assemble ==
  ASSUME Onward, calls' \in 0 .. MaxCalls, RowsTyped',
         DOMAIN read' = Reads, \A r \in Reads : ReadInv(read[r])',
         \A s \in saves' : Saved(s)',
         DOMAIN snaps' \subseteq Int,
         orderly' => \A a \in DOMAIN snaps' : a <= now'
  PROVE  CacheInv'
<1>1. TypeOK'
  <2>1. \A r \in Reads :
          read'[r].pc \in {"idle", "grants", "time", "seed", "walk"}
    BY DEF ReadInv
  <2>2. \A s \in saves' : s # << >>
    BY DEF Saved
  <2>3. QED
    BY <2>1, <2>2 DEF TypeOK, RowsTyped, EntRows, Onward
<1>2. ClosedPeriodsOnly'
  BY DEF ClosedPeriodsOnly, Saved, Timely
<1>3. \A s \in saves' : IsSnaps(s)'
  BY DEF Saved
<1>4. QED
  BY <1>1, <1>2, <1>3 DEF CacheInv

(* A write, or a tick: reads and saves go on.                              *)
LEMMA QuietStep ==
  ASSUME CacheInv, Onward, calls' \in 0 .. MaxCalls, RowsTyped',
         UNCHANGED <<read, saves, snaps>>
  PROVE  CacheInv'
<1>1. \A r \in Reads : ReadInv(read[r])'
  BY ReadKept
<1>2. \A s \in saves' : Saved(s)'
  BY SavedKept DEF CacheInv, TypeOK, Saved, IsSnaps
<1>3. DOMAIN snaps' \subseteq Int /\ DOMAIN read' = Reads
  BY DEF CacheInv, TypeOK
<1>4. orderly' => \A a \in DOMAIN snaps' : a <= now'
  BY SavedKept
<1>5. QED
  BY <1>1, <1>2, <1>3, <1>4, Assemble

(* A step of one read, which may leave snapshots to be saved.              *)
LEMMA OwnStep ==
  ASSUME CacheInv, Onward, calls' \in 0 .. MaxCalls, UNCHANGED tables,
         NEW r \in Reads, NEW q, read' = [read EXCEPT ![r] = q],
         ReadInv(read[r])',
         \A s \in saves' : s \in saves \/ Saved(s)'
  PROVE  CacheInv'
<1>1. ASSUME NEW o \in Reads
      PROVE  ReadInv(read[o])'
  <2>1. o # r => read'[o] = read[o]
    BY DEF CacheInv
  <2>2. QED
    BY <2>1, ReadKept
<1>2. \A s \in saves : Saved(s)'
  BY SavedKept DEF CacheInv, TypeOK, Saved, IsSnaps
<1>3. \A s \in saves' : Saved(s)'
  BY <1>2
<1>4. DOMAIN snaps' \subseteq Int /\ DOMAIN read' = Reads /\ RowsTyped'
  BY DEF CacheInv, TypeOK, tables, RowsTyped, EntRows
<1>5. orderly' => \A a \in DOMAIN snaps' : a <= now'
  BY SavedKept DEF tables
<1>6. QED
  BY <1>1, <1>3, <1>4, <1>5, Assemble

----------------------------------------------------------------------------
(* Actions.                                                                *)
LEMMA TickStep ==
  ASSUME CacheInv, Tick
  PROVE  CacheInv'
<1>1. Onward
  BY BalanceAssumption DEF Tick, Onward, CacheInv, TypeOK, Time, tables
<1>2. RowsTyped' /\ calls' \in 0 .. MaxCalls
  BY DEF Tick, tables, CacheInv, TypeOK, RowsTyped, EntRows
<1>3. QED
  BY <1>1, <1>2, QuietStep DEF Tick, tables

LEMMA InputTime ==
  ASSUME CacheInv, NEW t \in Inputs
  PROVE  t \in Time
BY BalanceAssumption DEF Inputs, CacheInv, TypeOK

LEMMA CallCounted ==
  ASSUME CacheInv, Call
  PROVE  calls' \in 0 .. MaxCalls
BY BalanceAssumption DEF Call, CacheInv, TypeOK

LEMMA WriteKeeps ==
  ASSUME CacheInv, WriteStep
  PROVE  CacheInv'
<1>1. now \in Time /\ now \in Int /\ orderly \in BOOLEAN /\ RowsTyped
  BY DEF CacheInv, TypeOK, RowsTyped, EntRows, Time
<1>2. /\ UNCHANGED <<now, read, saves, snaps>>
      /\ calls' \in 0 .. MaxCalls
  BY CallCounted
  DEF WriteStep, IngestEvent, CreateGrant, VoidGrant, ResetEntitlement
<1>3. CASE \E i \in EventIds, t \in Inputs, v \in Values : IngestEvent(i, t, v)
  <2>1. PICK i \in EventIds, t \in Inputs, v \in Values : IngestEvent(i, t, v)
    BY <1>3
  <2>2. Onward
    BY <1>1, <1>2, <2>1 DEF IngestEvent, Orderly, Onward
  <2>3. [time |-> t, value |-> v] \in [time : Time, value : Values]
    BY InputTime
  <2>4. RowsTyped'
    BY <1>1, <2>1, <2>3 DEF IngestEvent, Insert, RowsTyped
  <2>5. QED
    BY <1>2, <2>2, <2>4, QuietStep
<1>4. CASE \E a \in Amounts, p \in Priorities, t \in Inputs, l \in Lifetimes :
             CreateGrant(a, p, t, l)
  <2>1. PICK a \in Amounts, p \in Priorities, t \in Inputs, l \in Lifetimes :
          CreateGrant(a, p, t, l)
    BY <1>4
  <2> DEFINE g == Cardinality(DOMAIN grants) + 1
             row == [amount |-> a, priority |-> p, effective |-> t,
                     expires |-> IF l = None THEN None ELSE t + l,
                     voided |-> FALSE]
  <2>2. Onward
    BY <1>1, <1>2, <2>1 DEF CreateGrant, Orderly, Onward
  <2>3. row \in [amount : Amounts, priority : Priorities, effective : Time,
                expires : Nat \cup {None}, voided : BOOLEAN]
    <3>1. t \in Time /\ t \in Nat /\ (l = None \/ l \in Nat)
      BY InputTime, BalanceAssumption DEF Time
    <3>2. QED
      BY <3>1
  <2>4. g \in GrantIds /\ grants' = Insert(grants, g, row)
        /\ events' = events /\ ent' = ent
    BY <2>1 DEF CreateGrant
  <2>5. RowsTyped'
    BY <1>1, <2>3, <2>4 DEF Insert, RowsTyped
  <2>6. QED
    BY <1>2, <2>2, <2>5, QuietStep
<1>5. CASE \E g \in DOMAIN grants : VoidGrant(g)
  <2>1. PICK g \in DOMAIN grants : VoidGrant(g)
    BY <1>5
  <2>2. Onward
    BY <1>1, <1>2, <2>1 DEF VoidGrant, Orderly, Onward
  <2>3. RowsTyped'
    BY <1>1, <2>1 DEF VoidGrant, RowsTyped
  <2>4. QED
    BY <1>2, <2>2, <2>3, QuietStep
<1>6. CASE \E at \in Inputs : ResetEntitlement(at)
  <2>1. PICK at \in Inputs : ResetEntitlement(at)
    BY <1>6
  <2>2. Onward
    <3>1. orderly' = FALSE
      BY <2>1, Zenon DEF ResetEntitlement, Orderly
    <3>2. orderly' \in BOOLEAN /\ (orderly' => orderly /\ ent' = ent)
      BY <3>1, Zenon
    <3>3. now' \in Time /\ now <= now'
      BY <1>1, <1>2
    <3>4. QED
      BY <3>2, <3>3 DEF Onward
  <2>3. RowsTyped'
    BY <1>1, <2>1, InputTime DEF ResetEntitlement, RowsTyped, EntRows
  <2>4. QED
    BY <1>2, <2>2, <2>3, QuietStep
<1>7. QED
  BY <1>3, <1>4, <1>5, <1>6 DEF WriteStep

LEMMA BeginKeeps ==
  ASSUME CacheInv, NEW r \in Reads, NEW at \in AskInputs \cup {None},
         ReadBegin(r, at)
  PROVE  CacheInv'
<1> DEFINE q == [pc |-> "grants", ent |-> ent, at |-> at]
<1>1. /\ now' = now /\ now \in Time /\ now \in Int /\ orderly \in BOOLEAN
      /\ ent \in EntRows /\ ent' = ent /\ DOMAIN read = Reads
  BY DEF CacheInv, TypeOK, EntRows, Time, ReadBegin, tables
<1>2. Onward /\ (orderly' => at = None \/ ~Ahead(at))
  <2>1. orderly' = (orderly /\ (at = None \/ ~Ahead(at)))
    BY DEF ReadBegin, Orderly
  <2>2. /\ orderly' \in BOOLEAN /\ (orderly' => orderly)
        /\ orderly' => at = None \/ ~Ahead(at)
    BY <2>1, Zenon
  <2>3. QED
    BY <1>1, <2>2 DEF Onward
<1>3. at \in Time \cup {None}
  BY BalanceAssumption
<1>4. read' = [read EXCEPT ![r] = q] /\ UNCHANGED <<tables, saves>>
  BY DEF ReadBegin
<1>5. ReadInv(q)'
  <2>1. orderly' => at = None \/ ~Ahead(at)'
    BY <1>1, <1>2 DEF Ahead, PeriodStart
  <2>2. QED
    BY <1>1, <1>3, <2>1 DEF ReadInv
<1>6. calls' \in 0 .. MaxCalls
  BY CallCounted DEF ReadBegin
<1>7. ReadInv(read[r])'
  BY <1>1, <1>4, <1>5
<1>8. QED
  BY <1>2, <1>4, <1>6, <1>7, OwnStep

(* What a step of a read starts from.                                      *)
LEMMA ReadFacts ==
  ASSUME CacheInv, NEW r \in Reads
  PROVE  /\ ReadInv(read[r]) /\ DOMAIN read = Reads
         /\ now \in Time /\ now \in Int /\ orderly \in BOOLEAN
         /\ ent \in EntRows /\ calls \in 0 .. MaxCalls
         /\ \A t : t \in Time => t \in Int
BY DEF CacheInv, TypeOK, EntRows, Time

LEMMA GrantsKeeps ==
  ASSUME CacheInv, NEW r \in Reads, ReadGrants(r)
  PROVE  CacheInv'
<1> DEFINE q == [pc |-> "time", ent |-> read[r].ent, at |-> read[r].at,
                 G |-> ListActiveGrants(grants)]
<1>1. /\ read' = [read EXCEPT ![r] = q] /\ read[r].pc = "grants"
      /\ UNCHANGED <<now, tables, saves, calls, orderly>>
  BY DEF ReadGrants
<1>2. Onward /\ calls' \in 0 .. MaxCalls
  BY <1>1, ReadFacts DEF Onward, tables
<1>3. read'[r] = q
  BY <1>1, ReadFacts
<1>4. ReadInv(read[r])'
  BY <1>1, <1>3, ReadFacts DEF ReadInv, Ahead, PeriodStart, tables
<1>5. QED
  BY <1>1, <1>2, <1>4, OwnStep

LEMMA TimeKeeps ==
  ASSUME CacheInv, NEW r \in Reads, ReadTime(r)
  PROVE  CacheInv'
<1> DEFINE t == IF read[r].at = None THEN now ELSE read[r].at
           q == [pc |-> "seed", ent |-> read[r].ent, G |-> read[r].G, t |-> t]
<1>1. /\ read' = [read EXCEPT ![r] = q] /\ read[r].pc = "time"
      /\ UNCHANGED <<now, tables, saves, calls>>
  BY DEF ReadTime
<1>2. orderly' \in BOOLEAN /\ (orderly' => orderly)
  <2>1. orderly' = (orderly /\ Old(read[r].G) = Old(ListActiveGrants(grants)))
    BY DEF ReadTime, Orderly
  <2>2. QED
    BY <2>1, Zenon
<1>3. Onward /\ calls' \in 0 .. MaxCalls
  BY <1>1, <1>2, ReadFacts DEF Onward, tables
<1>4. t \in Time
  BY <1>1, ReadFacts DEF ReadInv
<1>5. ~Ahead(now)
  <2>1. SUFFICES ASSUME ent.dur > 0 PROVE ~(now < PeriodStart(now))
    BY DEF Ahead
  <2>2. PeriodStart(now) \in Int /\ PeriodStart(now) <= now
    BY <2>1, ReadFacts, StartTyped
  <2>3. QED
    BY <2>2, ReadFacts
<1>6. orderly' => ~Ahead(t)
  BY <1>1, <1>2, <1>5, ReadFacts DEF ReadInv
<1>7. ASSUME NEW u, ~Ahead(u) PROVE ~Ahead(u)'
  BY <1>1, <1>7 DEF Ahead, PeriodStart, tables
<1>8. ReadInv(read[r])'
  <2>1. read'[r] = q
    BY <1>1, ReadFacts
  <2>2. read'[r].t = t /\ read'[r].pc = "seed" /\ read'[r].ent = read[r].ent
    BY <2>1
  <2>3. orderly' => ~Ahead(read[r].t)'
    BY <1>1, <1>6, <2>2 DEF Ahead, PeriodStart, tables
  <2>4. read'[r].ent \in EntRows /\ (orderly' => read'[r].ent = ent')
    BY <1>1, <1>2, <2>2, ReadFacts DEF ReadInv, tables
  <2>5. QED
    BY <1>4, <2>2, <2>3, <2>4 DEF ReadInv
<1>9. QED
  BY <1>1, <1>3, <1>8, OwnStep

LEMMA ReadPeriodsTyped ==
  ASSUME NEW e \in EntRows, e.dur > 0, NEW t \in Time
  PROVE  LET P == Periods(Anchor(e), e.dur, t)
         IN  /\ Len(P) \in Nat \ {0} /\ DOMAIN P = 1 .. Len(P)
             /\ \A i \in 1 .. Len(P) : P[i].from \in Int /\ P[i].to \in Int
             /\ \A i \in 1 .. Len(P) :
                  i < Len(P) => P[i].to <= P[Len(P)].from
<1>1. Anchor(e) \in Int /\ e.dur \in Nat \ {0} /\ t \in Int
  BY EntTyped DEF Time
<1>2. QED
  BY <1>1, PeriodsTyped, Zenon

LEMMA WalkBegins ==
  ASSUME CacheInv, NEW r \in Reads, read[r].pc = "seed", NEW seed,
         read' = [read EXCEPT ![r] = BeginWalk(read[r], seed)],
         UNCHANGED <<now, tables, saves, calls, orderly>>
  PROVE  CacheInv'
<1> DEFINE q == read[r]
           P == Periods(Anchor(q.ent), q.ent.dur, q.t)
<1>1. Onward /\ calls' \in 0 .. MaxCalls
  BY ReadFacts DEF Onward, tables
<1>2. read'[r] = BeginWalk(q, seed)
  BY ReadFacts
<1>3. /\ q.ent \in EntRows /\ q.t \in Time
      /\ orderly => q.ent = ent /\ ~Ahead(q.t)
  BY ReadFacts DEF ReadInv
<1>4. ASSUME q.ent.dur = 0
      PROVE  ReadInv(read[r])'
  <2>1. read'[r].pc = "idle"
    BY <1>2, <1>4 DEF BeginWalk, Idle
  <2>2. QED
    BY <2>1 DEF ReadInv
<1>5. ASSUME q.ent.dur # 0
      PROVE  ReadInv(read[r])'
  <2>1. q.ent.dur > 0
    BY <1>3, <1>5, EntTyped
  <2>2. /\ Len(P) \in Nat \ {0} /\ DOMAIN P = 1 .. Len(P)
    BY <1>3, <2>1, ReadPeriodsTyped, Zenon
  <2>3. StartAt(P, seed) \in 1 .. Len(P)
    BY <2>2 DEF StartAt, SeedFits
  <2>4. /\ read'[r].pc = "walk" /\ read'[r].ent = q.ent /\ read'[r].t = q.t
        /\ read'[r].i = StartAt(P, seed) /\ read'[r].new = << >>
    BY <1>2, <1>5 DEF BeginWalk
  <2>5. IsSnaps(read'[r].new) /\ Timely(read[r].new)'
    <3>1. << >> \in Seq([asOf : Int, active : {}])
      OBVIOUS
    <3>2. DOMAIN read'[r].new = {}
      BY <2>4
    <3>3. QED
      BY <2>4, <3>1, <3>2 DEF IsSnaps, Timely
  <2>6. orderly' => ~Ahead(read[r].t)'
    BY <1>3, <2>4 DEF Ahead, PeriodStart, tables
  <2>7. read'[r].ent \in EntRows /\ (orderly' => read'[r].ent = ent')
    BY <1>3, <2>4 DEF tables
  <2>8. read'[r].i \in 1 .. Len(PeriodsOf(read[r])')
    BY <2>3, <2>4 DEF PeriodsOf
  <2>9. QED
    BY <1>3, <2>1, <2>4, <2>5, <2>6, <2>7, <2>8 DEF ReadInv
<1>6. ReadInv(read[r])'
  BY <1>4, <1>5
<1>7. QED
  BY <1>1, <1>6, OwnStep

(* One snapshot more.                                                      *)
LEMMA OneMore ==
  ASSUME NEW s, IsSnaps(s), NEW x, NEW a \in Int, NEW active,
         x = [asOf |-> a, active |-> active]
  PROVE  /\ IsSnaps(Append(s, x))
         /\ Len(s) \in Nat /\ DOMAIN s = 1 .. Len(s)
         /\ DOMAIN Append(s, x) = 1 .. Len(s) + 1
         /\ Append(s, x)[Len(s) + 1] = x
         /\ \A k \in 1 .. Len(s) : Append(s, x)[k] = s[k]
<1>1. PICK S : s \in Seq([asOf : Int, active : S])
  BY DEF IsSnaps
<1> DEFINE R == [asOf : Int, active : S \cup {active}]
           u == Append(s, x)
<1>2. x \in R
  OBVIOUS
<1>3. Len(s) \in Nat /\ DOMAIN s = 1 .. Len(s)
  BY <1>1, LenProperties
<1>4. s \in Seq(R)
  <2>1. \A k \in 1 .. Len(s) : s[k] \in [asOf : Int, active : S]
    BY <1>1, ElementOfSeq
  <2>2. \A k \in 1 .. Len(s) : s[k] \in R
    BY <2>1
  <2>3. s \in [1 .. Len(s) -> [asOf : Int, active : S]]
    BY <1>1, LenProperties
  <2>4. s \in [1 .. Len(s) -> R]
    BY <2>2, <2>3
  <2> HIDE DEF R
  <2>5. QED
    BY <1>3, <2>4
<1> HIDE DEF R
<1>5. /\ u \in Seq(R) /\ Len(u) = Len(s) + 1 /\ u[Len(s) + 1] = x
      /\ \A k \in 1 .. Len(s) : u[k] = s[k]
  BY <1>2, <1>4, AppendProperties
<1>6. DOMAIN u = 1 .. Len(s) + 1
  BY <1>5, LenProperties
<1>7. IsSnaps(u)
  BY <1>5 DEF IsSnaps, R
<1>8. QED
  BY <1>3, <1>5, <1>6, <1>7

(* A period evaluated: a boundary at which a snapshot is taken is over, if *)
(* the time asked about is not ahead.                                      *)
LEMMA EvaluateKeeps ==
  ASSUME CacheInv, NEW r \in Reads, read[r].pc = "walk", NEW usage,
         Evaluate(r, usage), UNCHANGED <<now, tables, calls>>,
         orderly' \in BOOLEAN, orderly' => orderly
  PROVE  CacheInv'
<1> DEFINE q == read[r]
           P == Periods(Anchor(q.ent), q.ent.dur, q.t)
           n == Len(P)
           st == EvalPeriod(q.G, q.ent.cap, q.st, P[q.i], q.first, q.i = n,
                            usage)
           snap == [asOf |-> P[q.i].to, active |-> st.active]
           walked == [q EXCEPT !.i = @ + 1, !.first = FALSE,
                               !.new = Append(q.new, snap),
                               !.st = [active |-> st.active,
                                       seen |-> st.seen]]
<1>1. Onward /\ calls' \in 0 .. MaxCalls
  BY ReadFacts DEF Onward, tables
<1>2. /\ q.ent \in EntRows /\ q.t \in Time /\ q.ent.dur > 0
      /\ q.i \in 1 .. n /\ IsSnaps(q.new)
      /\ orderly => q.ent = ent /\ ~Ahead(q.t) /\ Timely(q.new)
  BY ReadFacts DEF ReadInv, PeriodsOf
<1>3. /\ n \in Nat \ {0}
      /\ \A i \in 1 .. n : P[i].from \in Int /\ P[i].to \in Int
      /\ \A i \in 1 .. n : i < n => P[i].to <= P[n].from
  BY <1>2, ReadPeriodsTyped, Zenon
<1>4. CASE q.i = n
  <2>1. read' = [read EXCEPT ![r] = Idle] /\ saves' = Launch(q.new)
    BY <1>4, Zenon DEF Evaluate
  <2>2. ReadInv(read[r])'
    BY <2>1, ReadFacts DEF ReadInv, Idle
  <2>3. PICK new : new = q.new
    OBVIOUS
  <2>4. new # << >> => Saved(new)'
    BY <1>2, <2>3 DEF Saved, Timely, IsSnaps
  <2>5. \A s \in saves' : s \in saves \/ Saved(s)'
    BY <2>1, <2>3, <2>4 DEF Launch
  <2>6. QED
    BY <1>1, <2>1, <2>2, <2>5, OwnStep
<1>5. CASE q.i # n
  <2>1. read' = [read EXCEPT ![r] = walked] /\ saves' = saves
    BY <1>5, Zenon DEF Evaluate
  <2>2. /\ read'[r].pc = "walk" /\ read'[r].ent = q.ent /\ read'[r].t = q.t
        /\ read'[r].i = q.i + 1 /\ read'[r].new = Append(q.new, snap)
    BY <2>1, ReadFacts
  <2>3. q.i + 1 \in 1 .. n /\ q.i < n
    BY <1>2, <1>3, <1>5
  <2>4. PICK new, x, a, active :
          /\ new = q.new /\ x = snap /\ a = P[q.i].to /\ active = st.active
    OBVIOUS
  <2>5. /\ IsSnaps(Append(new, x))
        /\ Len(new) \in Nat /\ DOMAIN new = 1 .. Len(new)
        /\ DOMAIN Append(new, x) = 1 .. Len(new) + 1
        /\ Append(new, x)[Len(new) + 1] = x
        /\ \A k \in 1 .. Len(new) : Append(new, x)[k] = new[k]
    <3>1. a \in Int /\ IsSnaps(new)
      BY <1>2, <1>3, <2>4
    <3>2. x = [asOf |-> a, active |-> active]
      BY <2>4
    <3>3. QED
      BY <3>1, <3>2, OneMore
  <2>6. read'[r].new = Append(new, x) /\ x.asOf = P[q.i].to
    BY <2>2, <2>4
  <2>7. IsSnaps(read'[r].new)
    BY <2>5, <2>6
  <2>8. orderly => P[q.i].to <= now
    <3>1. SUFFICES ASSUME orderly PROVE P[q.i].to <= now
      OBVIOUS
    <3>2. P[n].from = PeriodStart(q.t) /\ ~(now < PeriodStart(q.t))
      BY <1>2, <3>1 DEF PeriodStart, Ahead
    <3>3. /\ P[n].from \in Int /\ P[q.i].to \in Int
          /\ P[q.i].to <= P[n].from
      BY <1>2, <1>3, <2>3
    <3>4. QED
      BY <3>2, <3>3, ReadFacts
  <2>9. orderly' => Timely(read[r].new)'
    <3>1. SUFFICES ASSUME orderly', NEW k \in DOMAIN read'[r].new
                   PROVE  read'[r].new[k].asOf <= now'
      BY DEF Timely
    <3>2. orderly /\ now' = now
      BY <3>1
    <3>3. CASE k = Len(new) + 1
      BY <2>5, <2>8, <2>6, <3>2, <3>3
    <3>4. CASE k \in 1 .. Len(new)
      <4>1. new[k].asOf <= now
        BY <1>2, <2>4, <2>5, <3>2, <3>4 DEF Timely
      <4>2. read'[r].new[k] = new[k]
        BY <2>5, <2>6, <3>4
      <4>3. QED
        BY <3>2, <4>1, <4>2
    <3>5. QED
      BY <2>5, <2>6, <3>1, <3>3, <3>4
  <2>10. orderly' => ~Ahead(read[r].t)'
    BY <1>2, <2>2 DEF Ahead, PeriodStart, tables
  <2>11. read'[r].ent \in EntRows /\ (orderly' => read'[r].ent = ent')
    BY <1>2, <2>2 DEF tables
  <2>12. read'[r].i \in 1 .. Len(PeriodsOf(read[r])')
    BY <2>2, <2>3 DEF PeriodsOf
  <2>13. ReadInv(read[r])'
    BY <1>2, <2>2, <2>7, <2>9, <2>10, <2>11, <2>12 DEF ReadInv
  <2>14. QED
    BY <1>1, <2>1, <2>13, OwnStep
<1>6. QED
  BY <1>4, <1>5

LEMMA ReadKeeps ==
  ASSUME CacheInv, NEW r \in Reads, ReadStep(r)
  PROVE  CacheInv'
<1>1. CASE \E at \in AskInputs \cup {None} : ReadBegin(r, at)
  BY <1>1, BeginKeeps
<1>2. CASE ReadGrants(r)
  BY <1>2, GrantsKeeps
<1>3. CASE ReadTime(r)
  BY <1>3, TimeKeeps
<1>4. CASE ReadSeed(r)
  BY <1>4, WalkBegins DEF ReadSeed
<1>5. CASE ReadSeedFails(r)
  BY <1>5, WalkBegins DEF ReadSeedFails
<1>6. CASE ReadPeriod(r)
  <2> DEFINE q == read[r]
             P == Periods(Anchor(q.ent), q.ent.dur, q.t)
             usage == FetchUsage(meter, events, P[q.i].from,
                                 IF q.i = Len(P) THEN q.t ELSE P[q.i].to)
  <2>1. /\ read[r].pc = "walk" /\ Evaluate(r, usage)
        /\ UNCHANGED <<now, tables, calls, orderly>>
    BY <1>6, Zenon DEF ReadPeriod
  <2> HIDE DEF usage
  <2>2. orderly' \in BOOLEAN /\ (orderly' => orderly)
    BY <2>1, ReadFacts
  <2>3. QED
    BY <2>1, <2>2, EvaluateKeeps
<1>7. CASE ReadPeriodFails(r)
  <2>1. /\ read[r].pc = "walk" /\ Evaluate(r, 0)
        /\ UNCHANGED <<now, tables, calls>>
        /\ orderly' = (orderly /\ read'[r].pc = "idle")
    BY <1>7, Zenon DEF ReadPeriodFails, Orderly
  <2>2. orderly' \in BOOLEAN /\ (orderly' => orderly)
    BY <2>1, Zenon
  <2>3. QED
    BY <2>1, <2>2, EvaluateKeeps
<1>8. CASE ReadFails(r)
  <2>1. /\ read' = [read EXCEPT ![r] = Idle]
        /\ UNCHANGED <<now, tables, saves, calls, orderly>>
    BY <1>8 DEF ReadFails
  <2>2. Onward /\ calls' \in 0 .. MaxCalls
    BY <2>1, ReadFacts DEF Onward, tables
  <2>3. ReadInv(read[r])'
    BY <2>1, ReadFacts DEF ReadInv, Idle
  <2>4. QED
    BY <2>1, <2>2, <2>3, OwnStep
<1>9. QED
  BY <1>1, <1>2, <1>3, <1>4, <1>5, <1>6, <1>7, <1>8 DEF ReadStep

LEMMA SaveKeeps ==
  ASSUME CacheInv, NEW s \in saves, SaveSnapshot(s) \/ SaveFails(s)
  PROVE  CacheInv'
<1>1. /\ UNCHANGED <<now, grants, events, ent, meter, read, calls, orderly>>
      /\ saves' \subseteq saves \cup {Tail(s)}
      /\ Len(s) = 1 => saves' \subseteq saves
      /\ snaps' = snaps \/ snaps' = Insert(snaps, Head(s).asOf, Head(s).active)
  BY DEF SaveSnapshot, SaveFails, tables
<1>2. Onward /\ calls' \in 0 .. MaxCalls /\ RowsTyped'
  BY <1>1 DEF Onward, CacheInv, TypeOK, RowsTyped, EntRows, Time
<1>3. /\ \A r \in Reads : ReadInv(read[r])'
      /\ DOMAIN read' = Reads
  BY <1>1, <1>2, ReadKept DEF CacheInv
<1>4. \A z \in saves : Saved(z)'
  BY <1>2, SavedKept DEF CacheInv, TypeOK, Saved, IsSnaps
<1>5. PICK S : s \in Seq([asOf : Int, active : S]) /\ s # << >>
  BY DEF CacheInv, TypeOK, IsSnaps
<1> DEFINE R == [asOf : Int, active : S]
<1>6. /\ Len(s) \in Nat \ {0} /\ DOMAIN s = 1 .. Len(s)
      /\ Head(s) = s[1] /\ Head(s) \in R
      /\ Tail(s) \in Seq(R) /\ Len(Tail(s)) = Len(s) - 1
      /\ DOMAIN Tail(s) = 1 .. Len(Tail(s))
      /\ \A i \in 1 .. Len(Tail(s)) : Tail(s)[i] = s[i + 1]
  <2>1. Len(s) \in Nat \ {0} /\ DOMAIN s = 1 .. Len(s)
    BY <1>5, LenProperties, EmptySeq
  <2>2. /\ Head(s) \in R /\ Tail(s) \in Seq(R)
        /\ Len(Tail(s)) = Len(s) - 1
        /\ \A i \in 1 .. Len(Tail(s)) : Tail(s)[i] = s[i + 1]
    BY <1>5, HeadTailProperties
  <2>3. DOMAIN Tail(s) = 1 .. Len(Tail(s))
    BY <2>2, LenProperties
  <2>4. Head(s) = s[1]
    BY <1>5
  <2>5. QED
    BY <2>1, <2>2, <2>3, <2>4
<1>7. Len(s) # 1 => Saved(Tail(s))'
  <2>1. SUFFICES ASSUME Len(s) # 1 PROVE Saved(Tail(s))'
    OBVIOUS
  <2>2. IsSnaps(Tail(s)) /\ Tail(s) # << >>
    <3>1. IsSnaps(Tail(s))
      BY <1>6 DEF IsSnaps
    <3>2. Len(Tail(s)) # 0
      BY <1>6, <2>1
    <3>3. Len(<< >>) = 0
      BY EmptySeq
    <3>4. QED
      BY <3>1, <3>2, <3>3
  <2>3. ASSUME orderly', NEW i \in DOMAIN Tail(s)
        PROVE  Tail(s)[i].asOf <= now'
    <3>1. i + 1 \in DOMAIN s /\ Tail(s)[i] = s[i + 1]
      BY <1>6
    <3>2. QED
      BY <1>4, <2>3, <3>1 DEF Saved, Timely
  <2>4. QED
    BY <2>2, <2>3 DEF Saved, Timely, IsSnaps
<1>8. /\ Head(s).asOf \in Int
      /\ orderly' => Head(s).asOf <= now'
  BY <1>4, <1>6 DEF Saved, Timely
<1>9. /\ DOMAIN snaps' \subseteq Int
      /\ orderly' => \A a \in DOMAIN snaps' : a <= now'
  BY <1>1, <1>2, <1>8, SavedKept DEF CacheInv, TypeOK, Insert
<1>10. \A z \in saves' : Saved(z)'
  BY <1>1, <1>4, <1>7
<1>11. QED
  BY <1>2, <1>3, <1>9, <1>10, Assemble

----------------------------------------------------------------------------
LEMMA CacheInit == Init => CacheInv
<1> SUFFICES ASSUME Init PROVE CacheInv
  OBVIOUS
<1>1. /\ ent \in EntRows /\ now = 0 /\ now \in Time /\ 0 \in 0 .. MaxCalls
      /\ calls = 0 /\ orderly = TRUE
  <2>1. 0 \in Time /\ 0 \in 0 .. MaxCalls
    BY BalanceAssumption DEF Time
  <2>2. ent \in [created : {0}, anchor : {None}, dur : Durations, cap : Caps]
    BY DEF Init
  <2>3. ent \in EntRows
    BY <2>1, <2>2 DEF EntRows
  <2>4. QED
    BY <2>1, <2>3 DEF Init
<1>2. /\ DOMAIN grants = {} /\ DOMAIN events = {} /\ DOMAIN snaps = {}
      /\ saves = {} /\ DOMAIN read = Reads
      /\ \A r \in Reads : read[r].pc = "idle"
  <2>1. /\ grants = << >> /\ events = << >> /\ snaps = << >> /\ saves = {}
        /\ read = [r \in Reads |-> Idle]
    BY DEF Init
  <2>2. Idle.pc = "idle"
    BY DEF Idle
  <2>3. QED
    BY <2>1, <2>2
<1>3. TypeOK
  BY <1>1, <1>2 DEF TypeOK, EntRows
<1>4. ClosedPeriodsOnly
  BY <1>2 DEF ClosedPeriodsOnly
<1>5. \A r \in Reads : ReadInv(read[r])
  BY <1>2 DEF ReadInv
<1>6. QED
  BY <1>2, <1>3, <1>4, <1>5 DEF CacheInv

LEMMA CacheStep == CacheInv /\ [Next]_vars => CacheInv'
<1>1. SUFFICES ASSUME CacheInv, [Next]_vars PROVE CacheInv'
  OBVIOUS
<1>2. CASE Tick
  BY <1>1, <1>2, TickStep
<1>3. CASE WriteStep
  BY <1>1, <1>3, WriteKeeps
<1>4. CASE \E r \in Reads : ReadStep(r)
  BY <1>1, <1>4, ReadKeeps
<1>5. CASE \E s \in saves : SaveSnapshot(s) \/ SaveFails(s)
  BY <1>1, <1>5, SaveKeeps
<1>6. CASE UNCHANGED vars
  <2>1. UNCHANGED <<now, tables, read, saves, calls, orderly>>
    BY <1>6 DEF vars
  <2>2. Onward /\ RowsTyped' /\ calls' \in 0 .. MaxCalls
    BY <1>1, <2>1
    DEF Onward, RowsTyped, EntRows, CacheInv, TypeOK, Time, tables
  <2>3. QED
    BY <1>1, <2>1, <2>2, QuietStep DEF tables
<1>7. QED
  BY <1>1, <1>2, <1>3, <1>4, <1>5, <1>6 DEF Next

LEMMA CacheAlways == Spec => []CacheInv
BY CacheInit, CacheStep, PTL DEF Spec

(* Every row, call under way and snapshot waiting to be saved is of its    *)
(* type, however reads, writes, failures and saves interleave.             *)
THEOREM BalancesTyped == Spec => []TypeOK
<1>1. CacheInv => TypeOK
  BY DEF CacheInv
<1>2. QED
  BY <1>1, CacheAlways, PTL

(* As long as no write is dated into a closed period and no read asks      *)
(* ahead of the clock, GetEntitlementValue takes snapshots of boundaries   *)
(* that have passed only, though it copies its row, lists the grants and   *)
(* takes its time in separate steps and saves whenever it likes.           *)
THEOREM ClosedOnly == Spec => []ClosedPeriodsOnly
<1>1. CacheInv => ClosedPeriodsOnly
  BY DEF CacheInv
<1>2. QED
  BY <1>1, CacheAlways, PTL

----------------------------------------------------------------------------
(* Snapshots are sane.  The tables only grow, rows keep what they say but  *)
(* for being voided, and the cap is the entitlement's for good: what a     *)
(* read holds, however old, is a part of what the tables say.              *)
Holding(q) ==
  /\ q.pc # "idle" => q.ent.cap = ent.cap
  /\ q.pc \in {"time", "seed", "walk"} => IsLedger(q.G) /\ Within(q.G, grants)
  /\ q.pc = "walk" =>
       /\ SoundState(q.G, ent.cap, PeriodsOf(q)[q.i].from, q.st)
       /\ \A k \in DOMAIN q.new :
            Sound(grants, ent.cap, q.new[k].asOf, q.new[k].active)

SoundSaves ==
  /\ \A a \in DOMAIN snaps : Sound(grants, ent.cap, a, snaps[a])
  /\ \A s \in saves : \A k \in DOMAIN s :
       Sound(grants, ent.cap, s[k].asOf, s[k].active)

Numbered ==
  /\ IsFiniteSet(DOMAIN grants) /\ IsFiniteSet(DOMAIN events)
  /\ DOMAIN grants = 1 .. Cardinality(DOMAIN grants)

SaneInv ==
  /\ meter \in Aggregations /\ Numbered /\ SoundSaves
  /\ \A r \in Reads : Holding(read[r])

LEMMA WithinItself ==
  ASSUME NEW G, NEW H, NEW K, Within(G, H), Within(H, K)
  PROVE  Within(G, K) /\ Within(G, G)
BY DEF Within

LEMMA GreatestBelow ==
  ASSUME NEW S \in SUBSET Int, S # {}, NEW t \in Int, \A x \in S : x <= t
  PROVE  Max(S) \in S /\ \A x \in S : x <= Max(S)
<1> DEFINE D == {t - x : x \in S}
<1>1. D \in SUBSET Nat /\ D # {}
  <2>1. ASSUME NEW x \in S PROVE t - x \in Nat
    <3>1. x \in Int /\ x <= t
      OBVIOUS
    <3>2. QED
      BY <3>1
  <2>2. QED
    BY <2>1
<1>2. PICK d \in D : \A n \in D : d <= n
  BY <1>1, LeastNat
<1>3. PICK x \in S : d = t - x
  OBVIOUS
<1>4. \A y \in S : x >= y
  <2> TAKE y \in S
  <2>1. d <= t - y
    BY <1>2
  <2>2. x \in Int /\ y \in Int
    OBVIOUS
  <2> HIDE DEF D
  <2>3. QED
    BY <1>3, <2>1, <2>2
<1>5. Max(S) \in S /\ \A y \in S : Max(S) >= y
  BY <1>3, <1>4 DEF Max
<1>6. QED
  BY <1>5

LEMMA GreatestOf ==
  ASSUME NEW S \in SUBSET Nat, IsFiniteSet(S), S # {}
  PROVE  Max(S) \in S
<1> DEFINE C == {T \in SUBSET S : T = {} \/ \E x \in T : \A y \in T : x >= y}
<1>1. {} \in C
  OBVIOUS
<1>2. ASSUME NEW T \in SUBSET S, NEW x \in T, T \ {x} \in C
      PROVE  T \in C
  <2>1. CASE T \ {x} = {}
    <3>1. \A y \in T : x >= y
      BY <2>1
    <3>2. QED
      BY <3>1
  <2>2. CASE T \ {x} # {}
    <3>1. PICK z \in T \ {x} : \A y \in T \ {x} : z >= y
      BY <1>2, <2>2
    <3>2. CASE z >= x
      <4>1. \A y \in T : z >= y
        BY <3>1, <3>2
      <4>2. QED
        BY <4>1
    <3>3. CASE ~(z >= x)
      <4>1. \A y \in T : x >= y
        <5> TAKE y \in T
        <5>1. x \in Int /\ y \in Int /\ z \in Int
          OBVIOUS
        <5>2. CASE y = x
          BY <5>1, <5>2
        <5>3. CASE y # x
          BY <3>1, <3>3, <5>1, <5>3
        <5>4. QED
          BY <5>2, <5>3
      <4>2. QED
        BY <4>1
    <3>4. QED
      BY <3>2, <3>3
  <2>3. QED
    BY <2>1, <2>2
<1>3. S \in C
  <2> HIDE DEF C
  <2>1. QED
    BY <1>1, <1>2, PartInduction
<1>4. QED
  BY <1>3 DEF Max

(* Whatever the meter aggregates, usage is a natural number.               *)
EventsTyped ==
  /\ meter \in Aggregations /\ IsFiniteSet(DOMAIN events)
  /\ \A i \in DOMAIN events :
       events[i].time \in Time /\ events[i].value \in Nat

LEMMA UsageTyped ==
  ASSUME EventsTyped, NEW from, NEW to
  PROVE  FetchUsage(meter, events, from, to) \in Nat
<1> DEFINE in == {i \in DOMAIN events :
                    from <= events[i].time /\ events[i].time < to}
           f == [i \in DOMAIN events |-> events[i].value]
           values == {events[i].value : i \in in}
           sum == SumFunctionOnSet(f, in)
           u == FetchUsage(meter, events, from, to)
<1>1. SUFFICES ASSUME in # {} PROVE u \in Nat
  BY DEF FetchUsage
<1>2. in \in SUBSET DOMAIN events /\ \A i \in in : f[i] \in Nat
  BY DEF EventsTyped
<1>3. IsFiniteSet(in)
  BY <1>2, FS_Subset DEF EventsTyped
<1>4. values \in SUBSET Nat /\ values # {}
  BY <1>1, <1>2
<1>5. IsFiniteSet(values)
  <2> DEFINE h == [i \in in |-> events[i].value]
  <2>1. h \in Surjection(in, values)
    BY DEF Surjection
  <2> HIDE DEF in, values, h
  <2>2. QED
    BY <1>3, <2>1, FS_Surjection
<1>6. /\ meter = "sum" => u = sum
      /\ meter = "count" => u = Cardinality(in)
      /\ meter = "unique_count" => u = Cardinality(values)
      /\ meter = "max" => u = Max(values)
      /\ meter = "min" => u = Min(values)
      /\ meter = "avg" => u = sum \div Cardinality(in)
  BY <1>1 DEF FetchUsage
<1>7. meter \in {"sum", "count", "unique_count", "max", "min", "avg"}
  BY BalanceAssumption DEF EventsTyped
<1> HIDE DEF in, f, values, u
<1>8. sum \in Nat
  BY <1>2, <1>3, SumNat
<1>9. Cardinality(in) \in Nat \ {0} /\ Cardinality(values) \in Nat
  BY <1>1, <1>3, <1>5, FS_CardinalityType, FS_EmptySet
<1>10. Max(values) \in Nat
  BY <1>4, <1>5, GreatestOf
<1>11. Min(values) \in Nat
  <2>1. \E n \in values : \A m \in values : n <= m
    BY <1>4, LeastNat
  <2>2. QED
    BY <1>4, <2>1 DEF Min
<1>12. sum \div Cardinality(in) \in Nat
  <2> DEFINE d == Cardinality(in)
             q == sum \div d
  <2>1. d \in Nat \ {0} /\ sum \in Int
    BY <1>8, <1>9
  <2>2. q \in Int /\ sum < d * q + d
    BY <2>1, Quotient
  <2> HIDE DEF d, q, sum
  <2>3. q >= 0
    <3>1. SUFFICES ASSUME q <= -1 PROVE FALSE
      BY <2>2
    <3>2. d * q <= -d
      BY <2>1, <2>2, <3>1
    <3>3. sum \in Nat
      BY <1>8
    <3>4. d * q \in Int
      BY <2>1, <2>2
    <3>5. QED
      BY <2>1, <2>2, <3>2, <3>3, <3>4
  <2>4. QED
    BY <2>2, <2>3 DEF q, d
<1>13. QED
  BY <1>6, <1>7, <1>8, <1>9, <1>10, <1>11, <1>12

LEMMA SaneFacts ==
  ASSUME CacheInv, SaneInv
  PROVE  /\ IsLedger(grants) /\ EventsTyped
         /\ ent.cap \in Nat \cup {None} /\ ent \in EntRows
         /\ DOMAIN grants \subseteq Nat /\ IsFiniteSet(DOMAIN grants)
         /\ DOMAIN read = Reads
<1>1. DOMAIN grants \subseteq Nat /\ IsFiniteSet(DOMAIN grants)
  BY FS_CardinalityType DEF SaneInv, Numbered
<1>2. \A g \in DOMAIN grants :
        /\ grants[g].amount \in Nat /\ grants[g].priority \in Int
        /\ grants[g].effective \in Int
  <2> TAKE g \in DOMAIN grants
  <2>1. grants[g] \in [amount : Amounts, priority : Priorities,
                      effective : Time, expires : Nat \cup {None},
                      voided : BOOLEAN]
    BY DEF CacheInv, TypeOK
  <2>2. /\ grants[g].amount \in Amounts /\ grants[g].priority \in Priorities
        /\ grants[g].effective \in Time
    BY <2>1
  <2>3. \A x \in Time : x \in Int
    BY DEF Time
  <2>4. /\ \A x \in Amounts : x \in Nat
        /\ \A x \in Priorities : x \in Int
    BY BalanceAssumption
  <2>5. QED
    BY <2>2, <2>3, <2>4
<1>3. EventsTyped
  <2>1. ASSUME NEW i \in DOMAIN events
        PROVE  events[i].time \in Time /\ events[i].value \in Nat
    <3>1. events[i] \in [time : Time, value : Values]
      BY DEF CacheInv, TypeOK
    <3>2. QED
      BY <3>1, BalanceAssumption
  <2>2. QED
    BY <2>1 DEF EventsTyped, SaneInv, Numbered
<1>4. ent \in EntRows /\ ent.cap \in Nat \cup {None}
  <2>1. ent \in EntRows
    BY DEF CacheInv, TypeOK, EntRows
  <2>2. ent.cap \in Caps
    BY <2>1 DEF EntRows
  <2>3. QED
    BY <2>1, <2>2, BalanceAssumption
<1>5. QED
  BY <1>1, <1>2, <1>3, <1>4 DEF IsLedger, CacheInv

(* A step that only adds to the tables leaves what is held a part of them. *)
LEMMA QuietSane ==
  ASSUME CacheInv, SaneInv, meter' = meter, Numbered',
         Within(grants, grants'), ent'.cap = ent.cap,
         UNCHANGED <<read, saves, snaps>>
  PROVE  SaneInv'
<1>1. \A cap, at, a : Sound(grants, cap, at, a) => Sound(grants', cap, at, a)
  BY SoundStays
<1>2. SoundSaves'
  BY <1>1 DEF SaneInv, SoundSaves
<1>3. ASSUME NEW r \in Reads
      PROVE  Holding(read[r])'
  <2>1. Holding(read[r])
    BY DEF SaneInv
  <2>2. read[r].pc \in {"time", "seed", "walk"} => Within(read[r].G, grants')
    BY <2>1, WithinItself DEF Holding
  <2>3. QED
    BY <1>1, <2>1, <2>2 DEF Holding, PeriodsOf
<1>4. QED
  BY <1>2, <1>3 DEF SaneInv

LEMMA InsertFinite ==
  ASSUME NEW T, NEW key, NEW row, IsFiniteSet(DOMAIN T)
  PROVE  /\ IsFiniteSet(DOMAIN Insert(T, key, row))
         /\ DOMAIN Insert(T, key, row) = DOMAIN T \cup {key}
         /\ \A k \in DOMAIN T : k # key => Insert(T, key, row)[k] = T[k]
         /\ Insert(T, key, row)[key] = row
<1>1. DOMAIN Insert(T, key, row) = DOMAIN T \cup {key}
  BY DEF Insert
<1>2. IsFiniteSet(DOMAIN T \cup {key})
  BY FS_AddElement
<1>3. QED
  BY <1>1, <1>2 DEF Insert

LEMMA WriteSane ==
  ASSUME CacheInv, SaneInv, WriteStep
  PROVE  SaneInv'
<1>1. /\ UNCHANGED <<read, saves, snaps, meter>>
      /\ Numbered /\ Within(grants, grants)
  BY WithinItself
  DEF WriteStep, IngestEvent, CreateGrant, VoidGrant, ResetEntitlement,
      SaneInv, Within
<1>2. CASE \E i \in EventIds, t \in Inputs, v \in Values : IngestEvent(i, t, v)
  <2>1. PICK i \in EventIds, t \in Inputs, v \in Values : IngestEvent(i, t, v)
    BY <1>2
  <2>2. grants' = grants /\ ent' = ent
    BY <2>1 DEF IngestEvent
  <2>3. IsFiniteSet(DOMAIN events')
    BY <1>1, <2>1, InsertFinite DEF IngestEvent, Numbered
  <2>4. Numbered'
    BY <1>1, <2>2, <2>3 DEF Numbered
  <2>5. QED
    BY <1>1, <2>2, <2>4, QuietSane
<1>3. CASE \E a \in Amounts, p \in Priorities, t \in Inputs, l \in Lifetimes :
             CreateGrant(a, p, t, l)
  <2>1. PICK a \in Amounts, p \in Priorities, t \in Inputs, l \in Lifetimes :
          CreateGrant(a, p, t, l)
    BY <1>3
  <2> DEFINE n == Cardinality(DOMAIN grants)
             row == [amount |-> a, priority |-> p, effective |-> t,
                     expires |-> IF l = None THEN None ELSE t + l,
                     voided |-> FALSE]
  <2>2. grants' = Insert(grants, n + 1, row) /\ events' = events /\ ent' = ent
    BY <2>1 DEF CreateGrant
  <2>3. n \in Nat /\ DOMAIN grants = 1 .. n /\ IsFiniteSet(DOMAIN grants)
    BY <1>1, FS_CardinalityType DEF Numbered
  <2> HIDE DEF n, row
  <2>4. /\ IsFiniteSet(DOMAIN grants')
        /\ DOMAIN grants' = DOMAIN grants \cup {n + 1}
        /\ \A g \in DOMAIN grants : g # n + 1 => grants'[g] = grants[g]
    <3> DEFINE k == n + 1
               H == Insert(grants, k, row)
    <3> HIDE DEF k
    <3>1. /\ IsFiniteSet(DOMAIN H)
          /\ DOMAIN H = DOMAIN grants \cup {k}
          /\ \A g \in DOMAIN grants : g # k => H[g] = grants[g]
      <4>1. DOMAIN H = DOMAIN grants \cup {k}
        BY DEF Insert
      <4>2. IsFiniteSet(DOMAIN grants \cup {k})
        BY <2>3, FS_AddElement
      <4>3. \A g \in DOMAIN grants : g # k => H[g] = grants[g]
        BY DEF Insert
      <4>4. QED
        BY <4>1, <4>2, <4>3
    <3> HIDE DEF H
    <3>2. grants' = H
      BY <2>2 DEF H, k
    <3>3. QED
      BY <3>1, <3>2 DEF k
  <2>5. n + 1 \notin DOMAIN grants
    BY <2>3
  <2>6. Within(grants, grants')
    BY <2>4, <2>5 DEF Within
  <2>7. DOMAIN grants' = 1 .. n + 1 /\ Cardinality(DOMAIN grants') = n + 1
    <3>1. DOMAIN grants' = 1 .. n + 1
      BY <2>3, <2>4
    <3>2. n + 1 \in Nat
      BY <2>3
    <3>3. QED
      BY <3>1, <3>2, FS_Interval
  <2>8. Numbered'
    BY <1>1, <2>2, <2>4, <2>7 DEF Numbered
  <2>9. QED
    BY <1>1, <2>2, <2>6, <2>8, QuietSane
<1>4. CASE \E g \in DOMAIN grants : VoidGrant(g)
  <2>1. PICK g \in DOMAIN grants : VoidGrant(g)
    BY <1>4
  <2>2. /\ grants' = [grants EXCEPT ![g].voided = TRUE]
        /\ events' = events /\ ent' = ent
    BY <2>1 DEF VoidGrant
  <2>3. Within(grants, grants') /\ DOMAIN grants' = DOMAIN grants
    <3>1. grants[g] \in [amount : Amounts, priority : Priorities,
                        effective : Time, expires : Nat \cup {None},
                        voided : BOOLEAN]
      BY DEF CacheInv, TypeOK
    <3>2. /\ grants'[g].amount = grants[g].amount
          /\ grants'[g].effective = grants[g].effective
          /\ grants'[g].expires = grants[g].expires
      BY <2>2, <3>1
    <3>3. /\ DOMAIN grants' = DOMAIN grants
          /\ \A h \in DOMAIN grants : h # g => grants'[h] = grants[h]
      BY <2>2
    <3>4. QED
      BY <3>2, <3>3 DEF Within
  <2>4. Numbered'
    BY <1>1, <2>2, <2>3 DEF Numbered
  <2>5. QED
    BY <1>1, <2>2, <2>3, <2>4, QuietSane
<1>5. CASE \E at \in Inputs : ResetEntitlement(at)
  <2>1. PICK at \in Inputs : ResetEntitlement(at)
    BY <1>5
  <2>2. /\ ent' = [ent EXCEPT !.anchor = at]
        /\ grants' = grants /\ events' = events
    BY <2>1, Zenon DEF ResetEntitlement
  <2>3. ent'.cap = ent.cap
    BY <2>2, SaneFacts DEF EntRows
  <2>4. Numbered'
    BY <1>1, <2>2 DEF Numbered
  <2>5. QED
    BY <1>1, <2>2, <2>3, <2>4, QuietSane
<1>6. QED
  BY <1>2, <1>3, <1>4, <1>5 DEF WriteStep

(* A step of one read.                                                     *)
LEMMA OwnSane ==
  ASSUME CacheInv, SaneInv, UNCHANGED tables,
         NEW r \in Reads, NEW q, read' = [read EXCEPT ![r] = q],
         Holding(q),
         \A s \in saves' : s \in saves \/
           \A k \in DOMAIN s : Sound(grants, ent.cap, s[k].asOf, s[k].active)
  PROVE  SaneInv'
<1>1. UNCHANGED <<grants, events, ent, meter, snaps>>
  BY DEF tables
<1>2. Numbered' /\ SoundSaves'
  BY <1>1 DEF SaneInv, Numbered, SoundSaves
<1>3. ASSUME NEW o \in Reads PROVE Holding(read[o])'
  <2>1. read'[o] = q \/ read'[o] = read[o]
    BY SaneFacts
  <2>2. Holding(read'[o])
    BY <2>1 DEF SaneInv
  <2>3. QED
    BY <1>1, <2>2 DEF Holding, PeriodsOf
<1>4. QED
  BY <1>1, <1>2, <1>3 DEF SaneInv

LEMMA BeginSane ==
  ASSUME CacheInv, SaneInv, NEW r \in Reads, NEW at, ReadBegin(r, at)
  PROVE  SaneInv'
<1> DEFINE q == [pc |-> "grants", ent |-> ent, at |-> at]
<1>1. read' = [read EXCEPT ![r] = q] /\ UNCHANGED <<tables, saves>>
  BY DEF ReadBegin
<1>2. Holding(q)
  BY DEF Holding
<1>3. QED
  BY <1>1, <1>2, OwnSane

LEMMA GrantsSane ==
  ASSUME CacheInv, SaneInv, NEW r \in Reads, ReadGrants(r)
  PROVE  SaneInv'
<1> DEFINE G == ListActiveGrants(grants)
           q == [pc |-> "time", ent |-> read[r].ent, at |-> read[r].at, G |-> G]
<1>1. /\ read' = [read EXCEPT ![r] = q] /\ UNCHANGED <<tables, saves>>
      /\ read[r].pc = "grants"
  BY DEF ReadGrants
<1>2. /\ DOMAIN G \in SUBSET DOMAIN grants
      /\ \A g \in DOMAIN G : G[g] = grants[g]
  BY DEF ListActiveGrants, Restrict
<1> HIDE DEF G
<1>3. IsLedger(G) /\ Within(G, grants)
  BY <1>2, SaneFacts, FS_Subset DEF IsLedger, Within
<1>4. Holding(q)
  BY <1>1, <1>3 DEF Holding, SaneInv
<1>5. QED
  BY <1>1, <1>4, OwnSane

LEMMA TimeSane ==
  ASSUME CacheInv, SaneInv, NEW r \in Reads, ReadTime(r)
  PROVE  SaneInv'
<1> DEFINE q == [pc |-> "seed", ent |-> read[r].ent, G |-> read[r].G,
                 t |-> IF read[r].at = None THEN now ELSE read[r].at]
<1>1. /\ read' = [read EXCEPT ![r] = q] /\ UNCHANGED <<tables, saves>>
      /\ read[r].pc = "time"
  BY DEF ReadTime
<1>2. Holding(q)
  BY <1>1 DEF Holding, SaneInv
<1>3. QED
  BY <1>1, <1>2, OwnSane

(* The newest snapshot, or the anchor.                                     *)
LEMMA SeedSound ==
  ASSUME CacheInv, SaneInv, NEW t \in Int
  PROVE  LET seed == GetLatestSnapshot(snaps, t)
         IN  Sound(grants, ent.cap, seed.asOf, seed.active)
<1> DEFINE past == {a \in DOMAIN snaps : a <= t}
           seed == GetLatestSnapshot(snaps, t)
<1>1. CASE past = {}
  <2>1. seed.active = << >>
    BY <1>1 DEF GetLatestSnapshot, NoSeed
  <2>2. QED
    BY <2>1, EmptySound
<1>2. CASE past # {}
  <2>1. past \in SUBSET Int
    BY DEF CacheInv, TypeOK
  <2>2. \A a \in past : a <= t
    OBVIOUS
  <2>3. seed.asOf = Max(past) /\ seed.active = snaps[Max(past)]
    BY <1>2 DEF GetLatestSnapshot
  <2>4. past \subseteq DOMAIN snaps
    OBVIOUS
  <2> HIDE DEF past, seed
  <2>5. Max(past) \in past
    BY <1>2, <2>1, <2>2, GreatestBelow
  <2>6. QED
    BY <2>3, <2>4, <2>5 DEF SaneInv, SoundSaves, seed
<1>3. QED
  BY <1>1, <1>2

LEMMA WalkSane ==
  ASSUME CacheInv, SaneInv, NEW r \in Reads, read[r].pc = "seed", NEW seed,
         Sound(grants, ent.cap, seed.asOf, seed.active),
         read' = [read EXCEPT ![r] = BeginWalk(read[r], seed)],
         UNCHANGED <<tables, saves>>
  PROVE  SaneInv'
<1> DEFINE q == read[r]
           P == Periods(Anchor(q.ent), q.ent.dur, q.t)
           w == BeginWalk(q, seed)
<1>1. Holding(q) /\ IsLedger(q.G) /\ Within(q.G, grants) /\ q.ent.cap = ent.cap
  BY DEF SaneInv, Holding
<1>2. Holding(w)
  <2>1. CASE q.ent.dur = 0
    <3>1. w.pc = "idle"
      BY <2>1 DEF BeginWalk, Idle
    <3>2. QED
      BY <3>1 DEF Holding
  <2>2. CASE q.ent.dur # 0
    <3>1. w = [pc |-> "walk", ent |-> q.ent, G |-> q.G, t |-> q.t,
               i |-> StartAt(P, seed), first |-> TRUE,
               st |-> StartState(q.G, P, seed), new |-> << >>]
      BY <2>2 DEF BeginWalk
    <3>2. /\ w.ent = q.ent /\ w.G = q.G /\ w.i = StartAt(P, seed)
          /\ w.st = StartState(q.G, P, seed) /\ w.new = << >>
          /\ PeriodsOf(w) = P
      BY <3>1 DEF PeriodsOf
    <3>3. SoundState(q.G, ent.cap, P[StartAt(P, seed)].from,
                     StartState(q.G, P, seed))
      BY <1>1, StartSound
    <3> HIDE DEF w, P
    <3>4. DOMAIN w.new = {}
      BY <3>2
    <3>5. QED
      BY <1>1, <3>2, <3>3, <3>4 DEF Holding
  <2>3. QED
    BY <2>1, <2>2
<1> HIDE DEF w
<1>3. read' = [read EXCEPT ![r] = w]
  BY DEF w
<1>4. \A s \in saves' : s \in saves
  OBVIOUS
<1>5. QED
  BY <1>2, <1>3, <1>4, OwnSane

LEMMA EvaluateSane ==
  ASSUME CacheInv, SaneInv, NEW r \in Reads, read[r].pc = "walk",
         NEW usage \in Nat, Evaluate(r, usage), UNCHANGED tables
  PROVE  SaneInv'
<1> DEFINE q == read[r]
           P == Periods(Anchor(q.ent), q.ent.dur, q.t)
           n == Len(P)
           p == P[q.i]
           st == EvalPeriod(q.G, q.ent.cap, q.st, p, q.first, FALSE, usage)
           snap == [asOf |-> p.to, active |-> st.active]
           walked == [q EXCEPT !.i = @ + 1, !.first = FALSE,
                               !.new = Append(q.new, snap),
                               !.st = [active |-> st.active,
                                       seen |-> st.seen]]
<1>1. /\ q.ent \in EntRows /\ q.t \in Time /\ q.ent.dur > 0
      /\ q.i \in 1 .. n /\ IsSnaps(q.new)
  BY ReadFacts DEF ReadInv, PeriodsOf
<1>2. /\ IsLedger(q.G) /\ Within(q.G, grants) /\ q.ent.cap = ent.cap
      /\ SoundState(q.G, ent.cap, p.from, q.st)
      /\ \A k \in DOMAIN q.new :
           Sound(grants, ent.cap, q.new[k].asOf, q.new[k].active)
  BY DEF SaneInv, Holding, PeriodsOf
<1>3. /\ n \in Nat \ {0}
      /\ \A i \in 1 .. n : /\ P[i].from \in Int /\ P[i].to \in Int
                           /\ P[i].from <= P[i].to
      /\ \A i \in 1 .. n : i > 1 => P[i].from = P[i - 1].to
  <2>1. Anchor(q.ent) \in Int /\ q.ent.dur \in Nat \ {0} /\ q.t \in Int
    BY <1>1, EntTyped DEF Time
  <2>2. QED
    BY <2>1, PeriodsTyped, Zenon
<1>4. CASE q.i = n
  <2>1. read' = [read EXCEPT ![r] = Idle] /\ saves' = Launch(q.new)
    BY <1>4, Zenon DEF Evaluate
  <2>2. Holding(Idle)
    BY DEF Holding, Idle
  <2>3. \A s \in saves' : s \in saves \/ s = q.new
    BY <2>1 DEF Launch
  <2>4. QED
    BY <1>2, <2>1, <2>2, <2>3, OwnSane
<1>5. CASE q.i # n
  <2>1. read' = [read EXCEPT ![r] = walked] /\ saves' = saves
    <3>1. (q.i = n) = FALSE
      BY <1>5
    <3>2. QED
      BY <1>5, <3>1, Zenon DEF Evaluate
  <2>2. /\ walked.pc = "walk" /\ walked.ent = q.ent /\ walked.t = q.t
        /\ walked.i = q.i + 1 /\ walked.new = Append(q.new, snap)
        /\ walked.G = q.G
        /\ walked.st = [active |-> st.active, seen |-> st.seen]
    <3>1. PICK o, x, z : /\ o = q /\ x = snap
                         /\ z = [active |-> st.active, seen |-> st.seen]
      OBVIOUS
    <3>2. o.pc = "walk"
      BY <3>1
    <3>3. PICK w : w = [o EXCEPT !.i = @ + 1, !.first = FALSE,
                                 !.new = Append(o.new, x), !.st = z]
      OBVIOUS
    <3>4. /\ w.pc = "walk" /\ w.ent = o.ent /\ w.t = o.t /\ w.i = o.i + 1
          /\ w.new = Append(o.new, x) /\ w.G = o.G /\ w.st = z
      BY <3>2, <3>3
    <3>5. w = walked
      BY <3>1, <3>3
    <3> HIDE DEF walked, snap, st, q
    <3>6. QED
      BY <3>1, <3>4, <3>5
  <2>3. q.i + 1 \in 1 .. n /\ P[q.i + 1].from = p.to
    <3>1. PICK k : k = q.i + 1
      OBVIOUS
    <3>2. k \in 1 .. n /\ k > 1 /\ k - 1 = q.i
      BY <1>1, <1>3, <1>5, <3>1
    <3>3. P[k].from = P[k - 1].to
      BY <1>3, <3>2
    <3>4. QED
      BY <3>1, <3>2, <3>3
  <2>4. SoundState(q.G, ent.cap, p.to, st)
    <3>1. p.from \in Int /\ p.to \in Int /\ p.from <= p.to
      BY <1>1, <1>3
    <3>2. PICK z, G, c, b, f : /\ z = q.st /\ G = q.G /\ c = ent.cap /\ b = p
                               /\ f = q.first
      OBVIOUS
    <3>3. c \in Nat \cup {None}
      BY <3>2, SaneFacts
    <3>4. SoundState(G, c, b.to, EvalPeriod(G, c, z, b, f, FALSE, usage))
      BY <1>2, <3>1, <3>2, <3>3, EvalSound
    <3>5. QED
      BY <1>2, <3>2, <3>4
  <2>5. Sound(grants, ent.cap, p.to, st.active)
    BY <1>2, <2>4, SoundStays DEF SoundState
  <2>6. PICK new, x, a, active :
          /\ new = q.new /\ x = snap /\ a = p.to /\ active = st.active
    OBVIOUS
  <2>7. /\ Len(new) \in Nat /\ DOMAIN new = 1 .. Len(new)
        /\ DOMAIN Append(new, x) = 1 .. Len(new) + 1
        /\ Append(new, x)[Len(new) + 1] = x
        /\ \A k \in 1 .. Len(new) : Append(new, x)[k] = new[k]
    <3>1. a \in Int /\ IsSnaps(new)
      BY <1>1, <1>3, <2>6
    <3>2. x = [asOf |-> a, active |-> active]
      BY <2>6
    <3>3. QED
      BY <3>1, <3>2, OneMore
  <2>8. walked.new = Append(new, x) /\ x.asOf = p.to /\ x.active = st.active
    BY <2>2, <2>6
  <2>9. ASSUME NEW k \in DOMAIN walked.new
        PROVE  Sound(grants, ent.cap, walked.new[k].asOf, walked.new[k].active)
    <3> HIDE DEF walked, snap, st, p
    <3>1. CASE k = Len(new) + 1
      BY <2>5, <2>7, <2>8, <3>1
    <3>2. CASE k \in 1 .. Len(new)
      BY <1>2, <2>6, <2>7, <2>8, <3>2
    <3>3. QED
      BY <2>7, <2>8, <2>9, <3>1, <3>2
  <2>10. SoundState(walked.G, ent.cap, PeriodsOf(walked)[walked.i].from,
                    walked.st)
    <3>1. PeriodsOf(walked)[walked.i].from = p.to
      BY <2>2, <2>3 DEF PeriodsOf
    <3>2. walked.st.active = st.active /\ walked.st.seen = st.seen
      <4>1. PICK z : z = [active |-> st.active, seen |-> st.seen]
        OBVIOUS
      <4>2. walked.st = z
        BY <2>2, <4>1
      <4>3. z.active = st.active /\ z.seen = st.seen
        BY <4>1
      <4> HIDE DEF walked, st
      <4>4. QED
        BY <4>2, <4>3
    <3> HIDE DEF walked, st, p
    <3>3. QED
      BY <2>2, <2>4, <3>1, <3>2 DEF SoundState
  <2>11. Holding(walked)
    <3> HIDE DEF walked
    <3>1. QED
      BY <1>2, <2>2, <2>9, <2>10 DEF Holding
  <2> HIDE DEF walked
  <2>12. QED
    BY <2>1, <2>11, OwnSane
<1>6. QED
  BY <1>4, <1>5

LEMMA ReadSane ==
  ASSUME CacheInv, SaneInv, NEW r \in Reads, ReadStep(r)
  PROVE  SaneInv'
<1>1. CASE \E at \in AskInputs \cup {None} : ReadBegin(r, at)
  BY <1>1, BeginSane
<1>2. CASE ReadGrants(r)
  BY <1>2, GrantsSane
<1>3. CASE ReadTime(r)
  BY <1>3, TimeSane
<1>4. CASE ReadSeed(r)
  <2>1. PICK seed : seed = GetLatestSnapshot(snaps, read[r].t)
    OBVIOUS
  <2>2. read[r].pc = "seed" /\ read' = [read EXCEPT ![r] = BeginWalk(read[r], seed)]
        /\ UNCHANGED <<tables, saves>>
    BY <1>4, <2>1 DEF ReadSeed
  <2>3. read[r].t \in Int
    BY <2>2, ReadFacts DEF ReadInv
  <2>4. Sound(grants, ent.cap, seed.asOf, seed.active)
    BY <2>1, <2>3, SeedSound
  <2>5. QED
    BY <2>2, <2>4, WalkSane
<1>5. CASE ReadSeedFails(r)
  <2>1. PICK seed : seed = NoSeed
    OBVIOUS
  <2>2. read[r].pc = "seed" /\ read' = [read EXCEPT ![r] = BeginWalk(read[r], seed)]
        /\ UNCHANGED <<tables, saves>>
    BY <1>5, <2>1 DEF ReadSeedFails
  <2>3. seed.active = << >>
    BY <2>1 DEF NoSeed
  <2>4. Sound(grants, ent.cap, seed.asOf, seed.active)
    BY <2>3, EmptySound
  <2>5. QED
    BY <2>2, <2>4, WalkSane
<1>6. CASE ReadPeriod(r)
  <2> DEFINE q == read[r]
             P == Periods(Anchor(q.ent), q.ent.dur, q.t)
             usage == FetchUsage(meter, events, P[q.i].from,
                                 IF q.i = Len(P) THEN q.t ELSE P[q.i].to)
  <2>1. /\ read[r].pc = "walk" /\ Evaluate(r, usage)
        /\ UNCHANGED <<tables>>
    BY <1>6, Zenon DEF ReadPeriod
  <2>2. usage \in Nat
    BY SaneFacts, UsageTyped
  <2> HIDE DEF usage
  <2>3. QED
    BY <2>1, <2>2, EvaluateSane
<1>7. CASE ReadPeriodFails(r)
  <2>1. read[r].pc = "walk" /\ Evaluate(r, 0) /\ UNCHANGED tables
    BY <1>7, Zenon DEF ReadPeriodFails
  <2>2. QED
    BY <2>1, EvaluateSane
<1>8. CASE ReadFails(r)
  <2>1. read' = [read EXCEPT ![r] = Idle] /\ UNCHANGED <<tables, saves>>
    BY <1>8 DEF ReadFails
  <2>2. Holding(Idle)
    BY DEF Holding, Idle
  <2>3. QED
    BY <2>1, <2>2, OwnSane
<1>9. QED
  BY <1>1, <1>2, <1>3, <1>4, <1>5, <1>6, <1>7, <1>8 DEF ReadStep

LEMMA SaveSane ==
  ASSUME CacheInv, SaneInv, NEW s \in saves, SaveSnapshot(s) \/ SaveFails(s)
  PROVE  SaneInv'
<1>1. /\ UNCHANGED <<grants, events, ent, meter, read>>
      /\ saves' \subseteq saves \cup {Tail(s)}
      /\ snaps' = snaps \/ snaps' = Insert(snaps, Head(s).asOf, Head(s).active)
  BY DEF SaveSnapshot, SaveFails, tables
<1>2. Numbered'
  BY <1>1 DEF SaneInv, Numbered
<1>3. \A r \in Reads : Holding(read[r])'
  BY <1>1 DEF SaneInv, Holding, PeriodsOf
<1>4. PICK S : s \in Seq([asOf : Int, active : S]) /\ s # << >>
  BY DEF CacheInv, TypeOK, IsSnaps
<1> DEFINE R == [asOf : Int, active : S]
<1>5. /\ Len(s) \in Nat \ {0} /\ DOMAIN s = 1 .. Len(s) /\ Head(s) = s[1]
      /\ Len(Tail(s)) = Len(s) - 1
      /\ DOMAIN Tail(s) = 1 .. Len(Tail(s))
      /\ \A i \in 1 .. Len(Tail(s)) : Tail(s)[i] = s[i + 1]
  <2>1. Len(s) \in Nat \ {0} /\ DOMAIN s = 1 .. Len(s)
    BY <1>4, LenProperties, EmptySeq
  <2>2. /\ Tail(s) \in Seq(R) /\ Len(Tail(s)) = Len(s) - 1
        /\ \A i \in 1 .. Len(Tail(s)) : Tail(s)[i] = s[i + 1]
    BY <1>4, HeadTailProperties
  <2>3. DOMAIN Tail(s) = 1 .. Len(Tail(s))
    BY <2>2, LenProperties
  <2>4. QED
    BY <1>4, <2>1, <2>2, <2>3
<1>6. \A k \in DOMAIN s : Sound(grants, ent.cap, s[k].asOf, s[k].active)
  BY DEF SaneInv, SoundSaves
<1>7. \A k \in DOMAIN Tail(s) :
        Sound(grants, ent.cap, Tail(s)[k].asOf, Tail(s)[k].active)
  <2> TAKE k \in DOMAIN Tail(s)
  <2>1. k + 1 \in DOMAIN s /\ Tail(s)[k] = s[k + 1]
    BY <1>5
  <2>2. QED
    BY <1>6, <2>1
<1>8. \A z \in saves' : \A k \in DOMAIN z :
        Sound(grants, ent.cap, z[k].asOf, z[k].active)
  BY <1>1, <1>7 DEF SaneInv, SoundSaves
<1>9. \A a \in DOMAIN snaps' : Sound(grants, ent.cap, a, snaps'[a])
  <2>1. Sound(grants, ent.cap, Head(s).asOf, Head(s).active)
    BY <1>5, <1>6
  <2>2. \A a \in DOMAIN snaps : Sound(grants, ent.cap, a, snaps[a])
    BY DEF SaneInv, SoundSaves
  <2>3. PICK key, row : key = Head(s).asOf /\ row = Head(s).active
    OBVIOUS
  <2>4. \A a \in DOMAIN snaps' : \/ a \in DOMAIN snaps /\ snaps'[a] = snaps[a]
                                 \/ a = key /\ snaps'[a] = row
    BY <1>1, <2>3 DEF Insert
  <2>5. QED
    BY <2>1, <2>2, <2>3, <2>4
<1>10. SoundSaves'
  BY <1>1, <1>8, <1>9 DEF SoundSaves
<1>11. QED
  BY <1>1, <1>2, <1>3, <1>10 DEF SaneInv

LEMMA SaneInit == Init => SaneInv
<1> SUFFICES ASSUME Init PROVE SaneInv
  OBVIOUS
<1>1. /\ DOMAIN grants = {} /\ DOMAIN events = {} /\ DOMAIN snaps = {}
      /\ saves = {} /\ meter \in Aggregations
      /\ \A r \in Reads : read[r] = Idle
  BY DEF Init
<1>2. Numbered
  BY <1>1, FS_EmptySet DEF Numbered
<1>3. SoundSaves
  BY <1>1 DEF SoundSaves
<1>4. \A r \in Reads : Holding(read[r])
  BY <1>1 DEF Holding, Idle
<1>5. QED
  BY <1>1, <1>2, <1>3, <1>4 DEF SaneInv

LEMMA SaneStep == CacheInv /\ SaneInv /\ [Next]_vars => SaneInv'
<1>1. SUFFICES ASSUME CacheInv, SaneInv, [Next]_vars PROVE SaneInv'
  OBVIOUS
<1>2. CASE Tick \/ UNCHANGED vars
  <2>1. UNCHANGED <<tables, read, saves>>
    BY <1>2 DEF Tick, vars
  <2>2. /\ meter' = meter /\ Numbered' /\ Within(grants, grants')
        /\ ent'.cap = ent.cap /\ UNCHANGED <<read, saves, snaps>>
    BY <1>1, <2>1, WithinItself DEF tables, SaneInv, Numbered, Within
  <2>3. QED
    BY <1>1, <2>2, QuietSane
<1>3. CASE WriteStep
  BY <1>1, <1>3, WriteSane
<1>4. CASE \E r \in Reads : ReadStep(r)
  BY <1>1, <1>4, ReadSane
<1>5. CASE \E s \in saves : SaveSnapshot(s) \/ SaveFails(s)
  BY <1>1, <1>5, SaveSane
<1>6. QED
  BY <1>1, <1>2, <1>3, <1>4, <1>5 DEF Next

LEMMA SaneAlways == Spec => [](CacheInv /\ SaneInv)
BY CacheInit, CacheStep, SaneInit, SaneStep, PTL DEF Spec

LEMMA SoundIsSane ==
  ASSUME NEW a, NEW active, Sound(grants, ent.cap, a, active)
  PROVE  SaneAt(a, active)
<1>1. active \in Actives /\ \A e \in Range(active) : MayHold(grants, ent.cap, a, e)
  BY DEF Sound
<1>2. Cardinality(Ids(active)) = Len(active)
  BY <1>1, IdsCounted
<1>3. ASSUME NEW i \in DOMAIN active
      PROVE  MayHold(grants, ent.cap, a, active[i])
  BY <1>1 DEF Range
<1>4. QED
  BY <1>2, <1>3 DEF SaneAt, MayHold

(* Whatever was late, voided, backdated, reset or lost while snapshots     *)
(* were taken and saved, and from whatever other snapshot a walk began:    *)
(* what is saved at a boundary holds each grant once, one that had begun   *)
(* and not expired by it, no more of it than the grant and the cap allow.  *)
THEOREM SnapshotsSane == Spec => []SnapshotSane
<1>1. SaneInv => SnapshotSane
  BY SoundIsSane DEF SaneInv, SoundSaves, SnapshotSane
<1>2. QED
  BY <1>1, SaneAlways, PTL

----------------------------------------------------------------------------
(* Usage is counted once.                                                  *)
Window(from, to) ==
  {i \in DOMAIN events : from <= events[i].time /\ events[i].time < to}

EventValues == [i \in DOMAIN events |-> events[i].value]

LEMMA FetchIs ==
  ASSUME NEW from, NEW to
  PROVE  /\ meter = "sum" => FetchUsage(meter, events, from, to)
                               = SumFunctionOnSet(EventValues, Window(from, to))
         /\ meter = "count" => FetchUsage(meter, events, from, to)
                                 = Cardinality(Window(from, to))
<1> DEFINE in == Window(from, to)
           u == FetchUsage(meter, events, from, to)
<1>1. in = {} => u = 0
  BY DEF FetchUsage, Window
<1>2. in # {} =>
        /\ meter = "sum" => u = SumFunctionOnSet(EventValues, in)
        /\ meter = "count" => u = Cardinality(in)
  BY DEF FetchUsage, Window, EventValues
<1>3. SumFunctionOnSet(EventValues, {}) = 0 /\ Cardinality({}) = 0
  BY SumEmpty, FS_EmptySet
<1> HIDE DEF in, u
<1>4. in = {} \/ in # {}
  OBVIOUS
<1>5. /\ meter = "sum" => u = SumFunctionOnSet(EventValues, in)
      /\ meter = "count" => u = Cardinality(in)
  BY <1>1, <1>2, <1>3, <1>4
<1>6. QED
  BY <1>5 DEF in, u

(* Adjoining windows share no event and lose none.                         *)
LEMMA FetchJoins ==
  ASSUME EventsTyped, meter \in {"sum", "count"},
         NEW a \in Int, NEW b \in Int, NEW c \in Int, a <= b, b <= c
  PROVE  FetchUsage(meter, events, a, c)
           = FetchUsage(meter, events, a, b) + FetchUsage(meter, events, b, c)
<1> DEFINE S == Window(a, b)
           T == Window(b, c)
<1>1. \A i \in DOMAIN events : events[i].time \in Int /\ EventValues[i] \in Int
  BY DEF EventsTyped, EventValues, Time
<1>2. S \in SUBSET DOMAIN events /\ T \in SUBSET DOMAIN events
  BY DEF Window
<1>3. Window(a, c) = S \cup T
  BY <1>1 DEF Window
<1>4. S \cap T = {}
  BY <1>1 DEF Window
<1>5. IsFiniteSet(S) /\ IsFiniteSet(T)
  BY <1>2, FS_Subset DEF EventsTyped
<1> HIDE DEF S, T
<1>6. CASE meter = "sum"
  <2>1. SumFunctionOnSet(EventValues, S \cup T)
          = SumFunctionOnSet(EventValues, S) + SumFunctionOnSet(EventValues, T)
    BY <1>1, <1>2, <1>4, <1>5, SumUnion
  <2>2. /\ FetchUsage(meter, events, a, c)
             = SumFunctionOnSet(EventValues, S \cup T)
        /\ FetchUsage(meter, events, a, b) = SumFunctionOnSet(EventValues, S)
        /\ FetchUsage(meter, events, b, c) = SumFunctionOnSet(EventValues, T)
    BY <1>3, <1>6, FetchIs DEF S, T
  <2>3. QED
    BY <2>1, <2>2
<1>7. CASE meter = "count"
  <2>1. Cardinality(S \cup T) = Cardinality(S) + Cardinality(T)
    <3>1. Cardinality(S \cup T)
            = Cardinality(S) + Cardinality(T) - Cardinality(S \cap T)
      BY <1>5, FS_Union
    <3>2. Cardinality(S \cap T) = 0
      BY <1>4, FS_EmptySet
    <3>3. Cardinality(S) \in Nat /\ Cardinality(T) \in Nat
      BY <1>5, FS_CardinalityType
    <3>4. QED
      BY <3>1, <3>2, <3>3
  <2>2. /\ FetchUsage(meter, events, a, c) = Cardinality(S \cup T)
        /\ FetchUsage(meter, events, a, b) = Cardinality(S)
        /\ FetchUsage(meter, events, b, c) = Cardinality(T)
    BY <1>3, <1>7, FetchIs DEF S, T
  <2>3. QED
    BY <2>1, <2>2
<1>8. QED
  BY <1>6, <1>7

(* So do those of a chain of periods.                                      *)
LEMMA ChainCounted ==
  ASSUME EventsTyped, meter \in {"sum", "count"}, NEW n \in Nat \ {0},
         NEW from, NEW to, NEW fetched,
         \A i \in 1 .. n : /\ from[i] \in Int /\ to[i] \in Int
                           /\ from[i] <= to[i]
                           /\ i > 1 => from[i] = to[i - 1]
                           /\ fetched[i]
                                = FetchUsage(meter, events, from[i], to[i])
  PROVE  SumFunctionOnSet(fetched, 1 .. n)
           = FetchUsage(meter, events, from[1], to[n])
<1> DEFINE C == {k \in 0 .. n : k > 0 =>
                   /\ from[1] <= to[k]
                   /\ SumFunctionOnSet(fetched, 1 .. k)
                        = FetchUsage(meter, events, from[1], to[k])}
<1>1. 0 \in C
  OBVIOUS
<1>2. \A i \in 1 .. n : fetched[i] \in Int
  BY UsageTyped
<1>3. ASSUME NEW k \in 0 .. n, k # 0, k - 1 \in C
      PROVE  k \in C
  <2>1. k \in 1 .. n /\ k \in Nat /\ k - 1 \in 0 .. n
    BY <1>3
  <2>2. /\ from[k] \in Int /\ to[k] \in Int /\ from[k] <= to[k]
        /\ from[1] \in Int
        /\ fetched[k] = FetchUsage(meter, events, from[k], to[k])
        /\ fetched[k] \in Int
    BY <1>2, <2>1
  <2>3. SumFunctionOnSet(fetched, (1 .. (k - 1)) \cup {k})
          = fetched[k] + SumFunctionOnSet(fetched, 1 .. (k - 1))
    <3> DEFINE S == 1 .. (k - 1)
    <3>1. /\ IsFiniteSet(S) /\ k \notin S
          /\ \A y \in S : y \in 1 .. n
      BY <2>1, FS_Interval
    <3> HIDE DEF S
    <3>2. \A y \in S : fetched[y] \in Int
      BY <1>2, <3>1
    <3>3. SumFunctionOnSet(fetched, S \cup {k})
            = fetched[k] + SumFunctionOnSet(fetched, S)
      BY <2>2, <3>1, <3>2, SumAdd
    <3>4. QED
      BY <3>3 DEF S
  <2>4. (1 .. (k - 1)) \cup {k} = 1 .. k
    BY <2>1
  <2>5. SumFunctionOnSet(fetched, 1 .. k)
          = fetched[k] + SumFunctionOnSet(fetched, 1 .. (k - 1))
    BY <2>3, <2>4, Zenon
  <2>6. CASE k = 1
    <3>1. 1 .. (k - 1) = {}
      BY <2>6
    <3>2. SumFunctionOnSet(fetched, 1 .. (k - 1)) = 0
      BY <3>1, SumEmpty, Zenon
    <3>3. SumFunctionOnSet(fetched, 1 .. k) = fetched[k]
      BY <2>2, <2>5, <3>2
    <3>4. QED
      BY <2>1, <2>2, <2>6, <3>3
  <2>7. CASE k # 1
    <3>1. k - 1 > 0 /\ k - 1 \in 1 .. n /\ k > 1
      BY <2>1, <2>7
    <3>2. /\ from[1] <= to[k - 1] /\ to[k - 1] \in Int
          /\ SumFunctionOnSet(fetched, 1 .. (k - 1))
               = FetchUsage(meter, events, from[1], to[k - 1])
      BY <1>3, <3>1
    <3>3. from[k] = to[k - 1]
      BY <2>1, <3>1
    <3>4. PICK m : m = to[k - 1]
      OBVIOUS
    <3>5. FetchUsage(meter, events, from[1], to[k])
            = FetchUsage(meter, events, from[1], m)
                + FetchUsage(meter, events, m, to[k])
      BY <2>2, <3>2, <3>3, <3>4, FetchJoins
    <3>6. /\ FetchUsage(meter, events, from[1], m) \in Nat
          /\ FetchUsage(meter, events, m, to[k]) \in Nat
      BY UsageTyped
    <3>7. SumFunctionOnSet(fetched, 1 .. k)
            = FetchUsage(meter, events, from[1], to[k])
      BY <2>2, <2>5, <3>2, <3>3, <3>4, <3>5, <3>6
    <3>8. from[1] <= to[k]
      BY <2>2, <3>2, <3>3
    <3>9. QED
      BY <2>1, <3>7, <3>8
  <2>8. QED
    BY <2>6, <2>7
<1>4. n \in C
  <2> HIDE DEF C
  <2>1. \A k \in 0 .. n : k \in C
    BY <1>1, <1>3, CountInduction
  <2>2. QED
    BY <2>1
<1>5. QED
  BY <1>4

(* The windows GetEntitlementValue fetches for the periods cover the time  *)
(* from the first period to t once, whatever the anchor, the length of the *)
(* periods and the events: usage counts in one period, at boundaries too.  *)
THEOREM CountedOnce == Spec => []UsageCountedOnce
<1>1. CacheInv /\ SaneInv => UsageCountedOnce
  <2> SUFFICES ASSUME CacheInv, SaneInv, NEW t \in Time, ent.dur > 0,
                      meter \in {"sum", "count"}
               PROVE  LET P == PeriodsTo(t)
                          fetched == [i \in DOMAIN P |->
                            FetchUsage(meter, events, P[i].from,
                                       IF i = Len(P) THEN t ELSE P[i].to)]
                      IN  SumFunction(fetched)
                            = FetchUsage(meter, events, P[1].from, t)
    BY DEF UsageCountedOnce
  <2> DEFINE P == PeriodsTo(t)
             n == Len(P)
             from == [i \in 1 .. n |-> P[i].from]
             to == [i \in 1 .. n |-> IF i = n THEN t ELSE P[i].to]
             fetched == [i \in DOMAIN P |->
                           FetchUsage(meter, events, P[i].from,
                                      IF i = n THEN t ELSE P[i].to)]
  <2>1. /\ n \in Nat \ {0} /\ DOMAIN P = 1 .. n
        /\ \A i \in 1 .. n : /\ P[i].from \in Int /\ P[i].to \in Int
                             /\ P[i].from <= P[i].to
        /\ \A i \in 1 .. n : i > 1 => P[i].from = P[i - 1].to
        /\ P[n].from <= t
    <3>1. Anchor(ent) \in Int /\ ent.dur \in Nat \ {0} /\ t \in Int
      BY SaneFacts, EntTyped DEF Time
    <3>2. QED
      BY <3>1, PeriodsTyped, Zenon DEF PeriodsTo
  <2>2. t \in Int /\ EventsTyped
    BY SaneFacts DEF Time
  <2> HIDE DEF P, n
  <2>3. ASSUME NEW i \in 1 .. n
        PROVE  /\ from[i] \in Int /\ to[i] \in Int /\ from[i] <= to[i]
               /\ i > 1 => from[i] = to[i - 1]
               /\ fetched[i] = FetchUsage(meter, events, from[i], to[i])
    <3>1. from[i] = P[i].from /\ to[i] = IF i = n THEN t ELSE P[i].to
      OBVIOUS
    <3>2. from[i] \in Int /\ to[i] \in Int /\ from[i] <= to[i]
      BY <2>1, <2>2, <3>1
    <3>3. i > 1 => from[i] = to[i - 1]
      <4>1. SUFFICES ASSUME i > 1 PROVE from[i] = to[i - 1]
        OBVIOUS
      <4>2. i - 1 \in 1 .. n /\ i - 1 # n
        BY <2>1, <4>1
      <4>3. to[i - 1] = P[i - 1].to
        BY <4>2
      <4>4. QED
        BY <2>1, <3>1, <4>1, <4>3
    <3>4. fetched[i] = FetchUsage(meter, events, from[i], to[i])
      BY <2>1, <3>1
    <3>5. QED
      BY <3>2, <3>3, <3>4
  <2>4. from[1] = P[1].from /\ to[n] = t /\ DOMAIN fetched = 1 .. n
    BY <2>1
  <2> HIDE DEF from, to, fetched
  <2>5. SumFunctionOnSet(fetched, 1 .. n)
          = FetchUsage(meter, events, from[1], to[n])
    <3>1. \A i \in 1 .. n : /\ from[i] \in Int /\ to[i] \in Int
                            /\ from[i] <= to[i]
                            /\ i > 1 => from[i] = to[i - 1]
                            /\ fetched[i]
                                 = FetchUsage(meter, events, from[i], to[i])
      BY <2>3
    <3>2. n \in Nat \ {0} /\ EventsTyped
      BY <2>1, <2>2
    <3>3. QED
      BY <3>1, <3>2, ChainCounted, Zenon
  <2>6. SumFunction(fetched) = SumFunctionOnSet(fetched, 1 .. n)
    BY <2>4, Zenon DEF SumFunction
  <2>7. SumFunction(fetched) = FetchUsage(meter, events, P[1].from, t)
    BY <2>4, <2>5, <2>6, Zenon
  <2>8. QED
    BY <2>7 DEF P, n, fetched
<1>2. QED
  BY <1>1, SaneAlways, PTL

----------------------------------------------------------------------------
(* The walk from the anchor.                                               *)
LEMMA TotalZero ==
  ASSUME NEW a \in Actives, \A e \in Range(a) : e.rem = 0
  PROVE  Total(a) = 0
<1> DEFINE f == Rems(a)
           S == DOMAIN a
           C == {T \in SUBSET S : SumFunctionOnSet(f, T) = 0}
<1>1. IsFiniteSet(S) /\ DOMAIN f = S
  BY ActiveTyped DEF Rems
<1>2. \A i \in S : f[i] = 0
  BY DEF Rems, Range
<1> HIDE DEF f, S
<1>3. {} \in C
  BY SumEmpty
<1>4. ASSUME NEW T \in SUBSET S, NEW x \in T, T \ {x} \in C
      PROVE  T \in C
  <2>1. IsFiniteSet(T) /\ \A y \in T : f[y] \in Int
    BY <1>1, <1>2, FS_Subset
  <2>2. SumFunctionOnSet(f, T) = f[x] + SumFunctionOnSet(f, T \ {x})
    BY <2>1, SumRemove
  <2>3. f[x] = 0 /\ SumFunctionOnSet(f, T \ {x}) = 0
    BY <1>2, <1>4
  <2>4. QED
    BY <2>2, <2>3
<1>5. S \in C
  <2> HIDE DEF C
  <2>1. QED
    BY <1>1, <1>3, <1>4, PartInduction
<1>6. SumFunction(f) = SumFunctionOnSet(f, S)
  BY <1>1, Zenon DEF SumFunction
<1>7. QED
  BY <1>5, <1>6, Zenon DEF Total, f

LEMMA LeftIs ==
  ASSUME NEW a \in Actives, NEW e \in Range(a)
  PROVE  Left(a, e.id) = e.rem
<1>1. PICK i \in DOMAIN a : a[i] = e
  BY DEF Range
<1>2. \A j \in DOMAIN a : a[j].id = e.id => j = i
  BY <1>1, ActiveTyped
<1>3. QED
  BY <1>1, <1>2 DEF Left

LEMMA ListedLedger ==
  ASSUME CacheInv, SaneInv
  PROVE  IsLedger(ListActiveGrants(grants))
<1> DEFINE G == ListActiveGrants(grants)
<1>1. /\ DOMAIN G \in SUBSET DOMAIN grants
      /\ \A g \in DOMAIN G : G[g] = grants[g]
  BY DEF ListActiveGrants, Restrict
<1> HIDE DEF G
<1>2. IsLedger(G)
  BY <1>1, SaneFacts, FS_Subset DEF IsLedger
<1>3. QED
  BY <1>2 DEF G

(* What the walks of the current tables are given.                         *)
LEMMA TablesWalkable ==
  ASSUME CacheInv, SaneInv, ent.dur > 0, NEW t \in Int
  PROVE  Walkable(t, ent, ListActiveGrants(grants), UsageIn(events),
                  PeriodsTo(t))
<1>1. ent.dur \in Nat \ {0} /\ ent.cap \in Nat \cup {None}
  BY SaneFacts, EntTyped
<1>2. Anchor(ent) \in Nat
  <2>1. ent.created \in Nat /\ (ent.anchor = None \/ ent.anchor \in Nat)
    BY SaneFacts DEF EntRows, Time
  <2>2. QED
    BY <2>1 DEF Anchor
<1>3. UsageIn(events) \in [Int \X Int -> Nat]
  <2>1. \A w \in Int \X Int : FetchUsage(meter, events, w[1], w[2]) \in Nat
    BY SaneFacts, UsageTyped
  <2>2. QED
    BY <2>1 DEF UsageIn
<1>4. QED
  BY <1>1, <1>2, <1>3, ListedLedger DEF Walkable, PeriodsTo

LEMMA AnchoredWalk ==
  ASSUME CacheInv, SaneInv, ent.dur > 0, NEW t \in Time,
         NEW P, P = PeriodsTo(t), NEW G, G = ListActiveGrants(grants),
         NEW w, w = Walk(t, ent, G, UsageIn(events), NoSeed)
  PROVE  /\ Len(P) \in Nat \ {0} /\ DOMAIN P = 1 .. Len(P)
         /\ ent.cap \in Nat \cup {None} /\ IsLedger(G)
         /\ \A i \in 1 .. Len(P) :
              /\ P[i].from \in Int /\ P[i].to \in Int /\ P[i].from <= P[i].to
              /\ SoundState(G, ent.cap, P[i].from, w[i - 1])
              /\ Used(t, UsageIn(events), P, i) \in Nat
              /\ w[i] = EvalPeriod(G, ent.cap, w[i - 1], P[i], i = 1,
                                   i = Len(P), Used(t, UsageIn(events), P, i))
<1>1. PICK usage : usage = UsageIn(events)
  OBVIOUS
<1>2. t \in Int
  BY DEF Time
<1>3. Walkable(t, ent, G, usage, P)
  BY <1>1, <1>2, TablesWalkable
<1>4. Walked(w, t, ent, G, usage, P)
  BY <1>1, <1>3, EachWalked
<1>5. ent.cap \in Nat \cup {None} /\ IsLedger(G)
  BY <1>3 DEF Walkable
<1>6. QED
  BY <1>1, <1>4, <1>5, Zenon DEF Walked

LEMMA PeriodInOrder ==
  ASSUME CacheInv, SaneInv, ent.dur > 0, NEW t \in Time,
         NEW P, P = PeriodsTo(t), NEW G, G = ListActiveGrants(grants),
         NEW walk, walk = WalkTo(t), NEW i \in DOMAIN P,
         NEW in, in = Enter(G, walk[i - 1], P[i], i = 1).active,
         NEW out, out = Spend(G, in, walk[i].usage).active
  PROVE  /\ Total(in) - Total(out) = walk[i].usage - walk[i].overage
         /\ walk[i].overage > 0 => Total(out) = 0
         /\ \A g, h \in Ids(in) :
              Precedes(G, g, h) /\ Left(out, h) < Left(in, h)
                => Left(out, g) = 0
<1>1. walk = Walk(t, ent, G, UsageIn(events), NoSeed)
  BY DEF WalkTo
<1>2. /\ i \in 1 .. Len(P) /\ ent.cap \in Nat \cup {None} /\ IsLedger(G)
      /\ P[i].from \in Int /\ P[i].to \in Int /\ P[i].from <= P[i].to
      /\ SoundState(G, ent.cap, P[i].from, walk[i - 1])
      /\ Used(t, UsageIn(events), P, i) \in Nat
      /\ walk[i] = EvalPeriod(G, ent.cap, walk[i - 1], P[i], i = 1,
                              i = Len(P), Used(t, UsageIn(events), P, i))
  BY <1>1, AnchoredWalk
<1> DEFINE u == Used(t, UsageIn(events), P, i)
           over == Spend(G, in, u).left
           z == walk[i - 1]
           first == i = 1
           p == P[i]
<1>3. walk[i].usage = u /\ walk[i].overage = over
  BY <1>2 DEF EvalPeriod
<1>4. in \in Actives /\ Ids(in) \subseteq DOMAIN G
  <2>1. /\ p.from \in Int /\ p.to \in Int /\ p.from <= p.to
        /\ SoundState(G, ent.cap, p.from, z) /\ in = Enter(G, z, p, first).active
    BY <1>2
  <2>2. PICK c : c = ent.cap
    OBVIOUS
  <2>3. c \in Nat \cup {None} /\ IsLedger(G) /\ SoundState(G, c, p.from, z)
    BY <1>2, <2>1, <2>2
  <2> HIDE DEF z, first, p
  <2>4. LET new == Enter(G, z, p, first)
        IN  new.active \in Actives /\ Ids(new.active) \subseteq DOMAIN G
    BY <2>1, <2>3, EnterInForce
  <2>5. QED
    BY <2>1, <2>4
<1>5. u \in Nat /\ out = Spend(G, in, u).active
  BY <1>2, <1>3
<1> HIDE DEF u
<1>6. /\ over \in 0 .. u /\ out \in Actives
      /\ over > 0 => \A e \in Range(out) : e.rem = 0
      /\ \A d \in Range(in) : \E e \in Range(out) : d.id = e.id
      /\ \A c, d \in Range(in), e, f \in Range(out) :
           /\ c.id = e.id /\ d.id = f.id
           /\ Precedes(G, c.id, d.id) /\ f.rem < d.rem
           => e.rem = 0
      /\ SumFunction(Rems(in)) - SumFunction(Rems(out)) = u - over
  <2> DEFINE b == Spend(G, in, u).active
  <2>1. IsLedger(G) /\ in \in Actives /\ u \in Nat /\ Ids(in) \subseteq DOMAIN G
    BY <1>2, <1>4, <1>5
  <2>2. BurntTo(G, in, b, u, over)
    BY <2>1, SpendActive
  <2>3. b = out
    BY <1>5
  <2> HIDE DEF over, b
  <2>4. QED
    BY <2>2, <2>3 DEF BurntTo
<1> HIDE DEF over
<1>7. Total(in) - Total(out) = u - over
  BY <1>6 DEF Total
<1>8. over > 0 => Total(out) = 0
  BY <1>6, TotalZero
<1>9. ASSUME NEW g \in Ids(in), NEW h \in Ids(in), Precedes(G, g, h),
             Left(out, h) < Left(in, h)
      PROVE  Left(out, g) = 0
  <2>1. PICK c \in Range(in), d \in Range(in) : c.id = g /\ d.id = h
    BY <1>9, IdsOfRange
  <2>2. PICK e \in Range(out), f \in Range(out) : c.id = e.id /\ d.id = f.id
    BY <1>6
  <2>3. /\ Left(in, h) = d.rem /\ Left(out, h) = f.rem /\ Left(out, g) = e.rem
    BY <1>4, <1>6, <2>1, <2>2, LeftIs
  <2>4. QED
    BY <1>6, <1>9, <2>1, <2>2, <2>3
<1>10. QED
  BY <1>3, <1>7, <1>8, <1>9

(* In each usage period, what a balance read takes from the grants is the  *)
(* usage they can bear, the rest is overage, and a grant is touched only   *)
(* when those of smaller priority, or of the same and earlier effective,   *)
(* are empty: for any number of grants, and any usage and periods.         *)
THEOREM BurntInOrder == Spec => []BurnsInOrder
<1>1. CacheInv /\ SaneInv => BurnsInOrder
  BY PeriodInOrder DEF BurnsInOrder
<1>2. QED
  BY <1>1, SaneAlways, PTL

LEMMA BalanceCarried ==
  ASSUME CacheInv, SaneInv, ent.dur > 0, NEW t \in Time,
         NEW P, P = PeriodsTo(t), NEW G, G = ListActiveGrants(grants),
         NEW worth,
         worth = [g \in DOMAIN G |->
                    IF G[g].effective >= P[Len(P)].from \/ Len(P) = 1
                    THEN G[g].amount ELSE Capped(ent.cap, G[g].amount)]
  PROVE  Answer(t, NoSeed).balance
           <= SumFunctionOnSet(worth, {g \in DOMAIN G : ~Expired(G[g], t)})
<1> DEFINE walk == Walk(t, ent, G, UsageIn(events), NoSeed)
           n == Len(P)
           u == Used(t, UsageIn(events), P, n)
           z == walk[n - 1]
           first == n = 1
           p == P[n]
           a == walk[n].active
<1>1. /\ n \in 1 .. Len(P) /\ ent.cap \in Nat \cup {None} /\ IsLedger(G)
      /\ p.from \in Int /\ p.to \in Int /\ p.from <= p.to
      /\ SoundState(G, ent.cap, p.from, z)
      /\ u \in Nat
      /\ walk[n] = EvalPeriod(G, ent.cap, z, p, first, n = Len(P), u)
  <2>1. Len(P) \in Nat \ {0}
    BY AnchoredWalk
  <2>2. n \in 1 .. Len(P)
    BY <2>1
  <2>3. PICK m : m = n
    OBVIOUS
  <2>4. /\ ent.cap \in Nat \cup {None} /\ IsLedger(G)
        /\ P[m].from \in Int /\ P[m].to \in Int /\ P[m].from <= P[m].to
        /\ SoundState(G, ent.cap, P[m].from, walk[m - 1])
        /\ Used(t, UsageIn(events), P, m) \in Nat
        /\ walk[m] = EvalPeriod(G, ent.cap, walk[m - 1], P[m], m = 1,
                                m = Len(P), Used(t, UsageIn(events), P, m))
    BY <2>2, <2>3, AnchoredWalk
  <2>5. QED
    BY <2>2, <2>3, <2>4
<1>2. Answer(t, NoSeed).balance = Available(G, a, t)
  <2>1. ent.dur # 0
    OBVIOUS
  <2>2. Answer(t, NoSeed)
          = [balance |-> Available(G, a, t), usage |-> walk[n].usage,
             overage |-> walk[n].overage]
    BY <2>1 DEF Answer, AnswerFrom, CalculateBalance, PeriodsTo
  <2> HIDE DEF a, walk, n
  <2>3. QED
    BY <2>2
<1> HIDE DEF walk, u, z
<1>3. a \in Actives /\ \A e \in Range(a) : InForce(G, ent.cap, p, first, e)
  <2>1. walk[n] = EvalPeriod(G, ent.cap, z, p, first, TRUE, u)
    BY <1>1
  <2>2. ent.cap \in Nat \cup {None} /\ IsLedger(G)
        /\ p.from \in Int /\ p.to \in Int /\ p.from <= p.to
        /\ SoundState(G, ent.cap, p.from, z) /\ u \in Nat
    BY <1>1
  <2> HIDE DEF p, first
  <2>3. LET last == EvalPeriod(G, ent.cap, z, p, first, TRUE, u)
        IN  /\ last.active \in Actives
            /\ \A e \in Range(last.active) : InForce(G, ent.cap, p, first, e)
    BY <2>2, EvalSound
  <2>4. QED
    BY <2>1, <2>3
<1> HIDE DEF a
<1> DEFINE S == {i \in DOMAIN a : ~Expired(G[a[i].id], t)}
           T == {g \in DOMAIN G : ~Expired(G[g], t)}
           f == Rems(a)
           h == [i \in DOMAIN a |-> a[i].id]
<1>4. /\ IsFiniteSet(DOMAIN a)
      /\ \A i \in DOMAIN a : a[i].rem \in Nat
      /\ \A i, j \in DOMAIN a : a[i].id = a[j].id => i = j
  BY <1>3, ActiveTyped
<1>5. IsFiniteSet(S) /\ IsFiniteSet(T)
  BY <1>1, <1>4, FS_Subset DEF IsLedger
<1>6. ASSUME NEW g \in DOMAIN G
      PROVE  worth[g] = Worth(G, ent.cap, p, first, g) /\ worth[g] \in Nat
  <2>1. worth[g] = Worth(G, ent.cap, p, first, g)
    BY DEF Worth
  <2>2. Worth(G, ent.cap, p, first, g) \in Nat
    BY <1>1, WorthTyped
  <2>3. QED
    BY <2>1, <2>2
<1>7. ASSUME NEW i \in S
      PROVE  f[i] \in Int /\ h[i] \in T /\ f[i] <= worth[h[i]]
  <2>1. i \in DOMAIN a /\ a[i] \in Range(a) /\ ~Expired(G[a[i].id], t)
    BY DEF Range
  <2>2. a[i].id \in DOMAIN G
        /\ a[i].rem \in 0 .. Worth(G, ent.cap, p, first, a[i].id)
    BY <1>3, <2>1 DEF InForce
  <2>3. f[i] = a[i].rem /\ h[i] = a[i].id
    BY <2>1 DEF Rems
  <2> HIDE DEF f, h, p, first
  <2>4. QED
    BY <1>4, <1>6, <2>1, <2>2, <2>3
<1>8. \A i, j \in S : h[i] = h[j] => i = j
  BY <1>4
<1>9. \A g \in T : worth[g] \in Nat
  BY <1>6
<1>10. SumFunctionOnSet(f, S) <= SumFunctionOnSet(worth, T)
  <2> HIDE DEF S, T, f, h
  <2>1. QED
    BY <1>5, <1>7, <1>8, <1>9, SumLeq
<1>11. Available(G, a, t) = SumFunctionOnSet(f, S)
  BY Zenon DEF Available
<1>12. QED
  BY <1>2, <1>10, <1>11

(* The balance is never more than the grants in force at t are worth:      *)
(* past the first period, a grant of an earlier one counts for no more     *)
(* than the cap, and none that expired or was voided counts at all, over   *)
(* any number of boundaries.                                               *)
THEOREM CarriedWithinCap == Spec => []CarryBounded
<1>1. CacheInv /\ SaneInv => CarryBounded
  <2> SUFFICES ASSUME CacheInv, SaneInv, NEW t \in Time, ent.dur > 0
               PROVE  LET P == PeriodsTo(t)
                          G == ListActiveGrants(grants)
                          worth == [g \in DOMAIN G |->
                            IF G[g].effective >= P[Len(P)].from \/ Len(P) = 1
                            THEN G[g].amount ELSE Capped(ent.cap, G[g].amount)]
                      IN  Answer(t, NoSeed).balance
                            <= SumFunctionOnSet(worth,
                                 {g \in DOMAIN G : ~Expired(G[g], t)})
    BY DEF CarryBounded
  <2>1. QED
    BY BalanceCarried, Zenon
<1>2. QED
  BY <1>1, SaneAlways, PTL

----------------------------------------------------------------------------
(* The snapshot cache.                                                     *)
LEMMA SeedAnswers ==
  ASSUME CacheInv, SaneInv, NEW a \in DOMAIN snaps,
         Complete(SnapshotAt(a)), Accurate(SnapshotAt(a)), NEW t \in Time
  PROVE  Answer(t, SnapshotAt(a)) = Answer(t, NoSeed)
<1> DEFINE seed == SnapshotAt(a)
           G == ListActiveGrants(grants)
           usage == UsageIn(events)
           P == PeriodsTo(t)
           Q == PeriodsTo(a)
<1>1. CASE ent.dur = 0
  BY <1>1 DEF Answer, AnswerFrom, CalculateBalance
<1>2. CASE ent.dur # 0
  <2>1. ent.dur > 0
    BY <1>2, SaneFacts, EntTyped
  <2>2. a \in Int /\ t \in Int
    BY DEF CacheInv, TypeOK, Time
  <2>3. Walkable(t, ent, G, usage, P) /\ Walkable(a, ent, G, usage, Q)
    BY <2>1, <2>2, TablesWalkable
  <2>4. seed.asOf = a
    BY DEF SnapshotAt
  <2>5. /\ Q[Len(Q)].from = a
        /\ Walk(a, ent, G, usage, NoSeed)[Len(Q) - 1].active = seed.active
    BY <2>4, Zenon DEF Accurate, WalkTo
  <2>6. Full(G, a, seed.active)
    <3>1. \A g \in DOMAIN G : G[g] = grants[g]
      BY DEF ListActiveGrants, Restrict
    <3>2. \A g \in DOMAIN G :
            grants[g].effective < a /\ ~Expired(grants[g], a)
              => g \in Ids(seed.active)
      BY <2>4 DEF Complete
    <3>3. QED
      BY <3>1, <3>2 DEF Full
  <2> HIDE DEF seed, G, usage, P, Q
  <2>7. Walk(t, ent, G, usage, seed)[Len(P)]
          = Walk(t, ent, G, usage, NoSeed)[Len(P)]
    BY <2>3, <2>4, <2>5, <2>6, SeedSame
  <2>8. P = Periods(Anchor(ent), ent.dur, t)
    BY DEF P, PeriodsTo
  <2>9. CalculateBalance(t, ent, G, usage, seed)
          = CalculateBalance(t, ent, G, usage, NoSeed)
    BY <1>2, <2>7, <2>8, Zenon DEF CalculateBalance
  <2>10. QED
    BY <2>9 DEF Answer, AnswerFrom, seed, G, usage
<1>3. QED
  BY <1>1, <1>2

(* A read that starts from a snapshot of the ledger's own balance, and one *)
(* that holds every grant that can still be spent, answers what a read     *)
(* over the whole ledger does, at whatever time and however many periods   *)
(* it skips.                                                               *)
THEOREM SeedsExact == Spec => []SeedExact
<1>1. CacheInv /\ SaneInv => SeedExact
  BY SeedAnswers DEF SeedExact
<1>2. QED
  BY <1>1, SaneAlways, PTL

----------------------------------------------------------------------------
(* What the ledger is at some moment, to compare it with a later one.      *)
View == [now |-> now, ent |-> ent, grants |-> grants, usage |-> UsageIn(events)]

GrantRows == [amount : Amounts, priority : Priorities, effective : Time,
              expires : Nat \cup {None}, voided : BOOLEAN]

RowsIn(w) == ListActiveGrants(w.grants)
PeriodsIn(w, t) == Periods(Anchor(w.ent), w.ent.dur, t)
StartIn(w, t) == LastFrom(Anchor(w.ent), w.ent.dur, t)

ViewTyped(w) ==
  /\ w.now \in Int /\ w.ent.dur \in Nat /\ w.ent.cap \in Nat \cup {None}
  /\ Anchor(w.ent) \in Nat
  /\ \A g \in DOMAIN w.grants : w.grants[g] \in GrantRows
  /\ IsLedger(RowsIn(w)) /\ w.usage \in [Int \X Int -> Nat]

(* A boundary of a period that has begun, and what is carried over it.     *)
Boundary(w, b) ==
  /\ w.ent.dur > 0 /\ b \in Int
  /\ StartIn(w, b) = b /\ b <= StartIn(w, w.now)

Carried(w, b) == CarriedTo(b, w.ent, RowsIn(w), w.usage)

LEMMA RowsAre ==
  ASSUME NEW w
  PROVE  /\ DOMAIN RowsIn(w) = {g \in DOMAIN w.grants : ~w.grants[g].voided}
         /\ \A g \in DOMAIN RowsIn(w) : RowsIn(w)[g] = w.grants[g]
BY DEF RowsIn, ListActiveGrants, Restrict

LEMMA WalkableIn ==
  ASSUME NEW w, ViewTyped(w), w.ent.dur > 0, NEW t \in Int
  PROVE  Walkable(t, w.ent, RowsIn(w), w.usage, PeriodsIn(w, t))
BY DEF ViewTyped, Walkable, PeriodsIn

LEMMA StartsIn ==
  ASSUME NEW w, ViewTyped(w), w.ent.dur > 0, NEW s \in Int, NEW t \in Int
  PROVE  /\ StartIn(w, t) \in Int /\ StartIn(w, t) <= t
         /\ s <= t => StartIn(w, s) <= StartIn(w, t)
         /\ StartIn(w, StartIn(w, t)) = StartIn(w, t)
<1>1. PICK anchor, dur : anchor = Anchor(w.ent) /\ dur = w.ent.dur
  OBVIOUS
<1>2. anchor \in Int /\ dur \in Nat \ {0}
  BY <1>1 DEF ViewTyped
<1>3. \A u : StartIn(w, u) = LastFrom(anchor, dur, u)
  BY <1>1 DEF StartIn
<1>4. PICK x : x = StartIn(w, t)
  OBVIOUS
<1>5. Begins(anchor, dur, t, x)
  BY <1>2, <1>3, <1>4, LastFromIs
<1>6. x \in Int /\ x <= t
  BY <1>5 DEF Begins
<1>7. s <= t => StartIn(w, s) <= StartIn(w, t)
  BY <1>2, <1>3, LastFromMonotone
<1>8. StartIn(w, x) = x
  <2>1. Begins(anchor, dur, x, x)
    BY <1>2, <1>5, <1>6 DEF Begins
  <2>2. LastFrom(anchor, dur, x) = x
    BY <1>2, <2>1, LastFromSteady
  <2>3. QED
    BY <1>3, <2>2
<1>9. QED
  BY <1>4, <1>6, <1>7, <1>8

(* The periods of a time not ahead begin on boundaries.                    *)
LEMMA PeriodsBounded ==
  ASSUME NEW w, ViewTyped(w), w.ent.dur > 0, NEW t \in Int,
         StartIn(w, t) <= w.now, NEW P, P = PeriodsIn(w, t)
  PROVE  /\ Len(P) \in Nat \ {0} /\ DOMAIN P = 1 .. Len(P)
         /\ P[Len(P)].from = StartIn(w, t)
         /\ StartIn(w, t) <= StartIn(w, w.now)
         /\ \A i \in 1 .. Len(P) : /\ Boundary(w, P[i].from)
                                   /\ P[i].from <= StartIn(w, t)
<1>1. PICK anchor, dur : anchor = Anchor(w.ent) /\ dur = w.ent.dur
  OBVIOUS
<1>2. anchor \in Int /\ dur \in Nat \ {0} /\ P = Periods(anchor, dur, t)
  BY <1>1 DEF ViewTyped, PeriodsIn
<1>3. \A u : StartIn(w, u) = LastFrom(anchor, dur, u)
  BY <1>1 DEF StartIn
<1>4. Len(P) \in Nat \ {0} /\ DOMAIN P = 1 .. Len(P)
  BY <1>2, PeriodsAre DEF Shaped
<1>5. P[Len(P)].from = StartIn(w, t)
  BY <1>2, <1>3 DEF LastFrom
<1>6. w.now \in Int
  BY DEF ViewTyped
<1>7. StartIn(w, t) <= StartIn(w, w.now) /\ StartIn(w, t) \in Int
  <2>1. PICK x, n : x = StartIn(w, t) /\ n = w.now
    OBVIOUS
  <2>2. x \in Int /\ n \in Int /\ x <= n /\ StartIn(w, x) = x
    BY <1>6, <2>1, StartsIn
  <2>3. StartIn(w, x) <= StartIn(w, n)
    BY <2>2, StartsIn
  <2>4. QED
    BY <2>1, <2>2, <2>3
<1>8. ASSUME NEW i \in 1 .. Len(P)
      PROVE  /\ Boundary(w, P[i].from) /\ P[i].from <= StartIn(w, t)
  <2>1. P[i].from \in Int
    BY <1>2, LastBegins DEF Begins
  <2>2. P[i].from <= StartIn(w, t)
    BY <1>2, <1>5, LastBegins
  <2>3. StartIn(w, P[i].from) = P[i].from
    <3>1. PICK b : b = P[i].from
      OBVIOUS
    <3>2. Begins(anchor, dur, b, b)
      BY <1>2, <3>1, LastBegins
    <3>3. LastFrom(anchor, dur, b) = b
      BY <1>2, <3>2, LastFromSteady
    <3>4. QED
      BY <1>3, <3>1, <3>3
  <2>4. StartIn(w, w.now) \in Int
    BY <1>6, StartsIn
  <2>5. P[i].from <= StartIn(w, w.now)
    BY <1>7, <2>1, <2>2, <2>4
  <2>6. QED
    BY <2>1, <2>2, <2>3, <2>5 DEF Boundary
<1>9. QED
  BY <1>4, <1>5, <1>7, <1>8

(* What an orderly step leaves of the closed periods: their usage, and the *)
(* grants that had begun before the current one.                           *)
Undisturbed(w, v) ==
  /\ v.ent = w.ent /\ w.now <= v.now
  /\ w.ent.dur > 0 =>
       /\ Alike(RowsIn(w), RowsIn(v), StartIn(w, w.now))
       /\ \A x, y \in Int : y <= StartIn(w, w.now)
            => w.usage[<<x, y>>] = v.usage[<<x, y>>]

LEMMA AlikeEarlier ==
  ASSUME NEW G, IsLedger(G), NEW H, IsLedger(H), NEW c \in Int, Alike(G, H, c),
         NEW b \in Int, b <= c
  PROVE  Alike(G, H, b)
<1>1. /\ \A g \in DOMAIN G : G[g].effective \in Int
      /\ \A g \in DOMAIN H : H[g].effective \in Int
  BY DEF IsLedger
<1>2. ASSUME NEW g
      PROVE  /\ g \in DOMAIN G /\ G[g].effective < b => G[g].effective < c
             /\ g \in DOMAIN H /\ H[g].effective < b => H[g].effective < c
  BY <1>1
<1>3. QED
  BY <1>2 DEF Alike

LEMMA BoundaryKept ==
  ASSUME NEW w, ViewTyped(w), NEW v, ViewTyped(v), Undisturbed(w, v),
         NEW b, Boundary(w, b)
  PROVE  /\ Boundary(v, b) /\ Carried(v, b) = Carried(w, b)
         /\ Alike(RowsIn(w), RowsIn(v), b)
<1>1. w.ent.dur > 0 /\ v.ent.dur > 0 /\ v.ent = w.ent /\ b \in Int
  BY DEF Boundary, Undisturbed
<1>2. \A t : StartIn(v, t) = StartIn(w, t) /\ PeriodsIn(v, t) = PeriodsIn(w, t)
  BY <1>1 DEF StartIn, PeriodsIn
<1>3. PICK n, m, c, d : /\ n = w.now /\ m = v.now /\ c = StartIn(w, n)
                        /\ d = StartIn(w, m)
  OBVIOUS
<1>4. n \in Int /\ m \in Int /\ n <= m
  BY <1>3 DEF ViewTyped, Undisturbed
<1>5. c \in Int /\ d \in Int /\ c <= d
  BY <1>1, <1>3, <1>4, StartsIn
<1>6. b <= c /\ b <= d /\ StartIn(w, b) = b
  BY <1>1, <1>3, <1>5 DEF Boundary
<1>7. Boundary(v, b)
  BY <1>1, <1>2, <1>3, <1>6 DEF Boundary
<1>8. IsLedger(RowsIn(w)) /\ IsLedger(RowsIn(v))
  BY DEF ViewTyped
<1>9. Alike(RowsIn(w), RowsIn(v), b)
  <2>1. Alike(RowsIn(w), RowsIn(v), c)
    BY <1>1, <1>3 DEF Undisturbed
  <2>2. QED
    BY <1>1, <1>5, <1>6, <1>8, <2>1, AlikeEarlier
<1>10. ASSUME NEW x \in Int, NEW y \in Int, y <= b
       PROVE  w.usage[<<x, y>>] = v.usage[<<x, y>>]
  <2>1. y <= c
    BY <1>1, <1>5, <1>6, <1>10
  <2>2. QED
    BY <1>1, <1>3, <2>1 DEF Undisturbed
<1>11. Carried(v, b) = Carried(w, b)
  <2>1. PICK e, G, H, u, o, P :
          /\ e = w.ent /\ G = RowsIn(w) /\ H = RowsIn(v)
          /\ u = w.usage /\ o = v.usage /\ P = PeriodsIn(w, b)
    OBVIOUS
  <2>2. Walkable(b, e, G, u, P) /\ Walkable(b, e, H, o, P)
    BY <1>1, <1>2, <2>1, WalkableIn
  <2>3. P[Len(P)].from = b
    BY <1>6, <2>1 DEF StartIn, LastFrom, PeriodsIn
  <2>4. CarriedTo(b, e, G, u) = CarriedTo(b, e, H, o)
    <3>1. SameTo(b, e, G, H, u, o, P)
      BY <1>9, <1>10, <2>1, <2>2, <2>3 DEF SameTo
    <3>2. QED
      BY <3>1, CarriedSame
  <2>5. QED
    BY <1>1, <2>1, <2>4 DEF Carried
<1>12. QED
  BY <1>7, <1>9, <1>11

(* What a read holds, and what waits to be saved, against the ledger.      *)
Kin(w, G) ==
  \A g \in DOMAIN G : g \in DOMAIN w.grants
                      /\ G[g] = [w.grants[g] EXCEPT !.voided = FALSE]

Bounded(w, s) == \A i \in DOMAIN s : Boundary(w, s[i].asOf)
Truthful(w, s) == \A i \in DOMAIN s : s[i].active = Carried(w, s[i].asOf)

ReadKin(w, q) == q.pc \in {"time", "seed", "walk"} => Kin(w, q.G)

ReadCalm(w, q) ==
  /\ q.pc \in {"seed", "walk"} /\ w.ent.dur > 0 =>
       Alike(RowsIn(w), q.G, StartIn(w, q.t))
  /\ q.pc = "walk" => Bounded(w, q.new)

OnCourse(w, q) ==
  LET b == PeriodsOf(q)[q.i].from
  IN  InStep(q.G, b, Carried(w, b), q.st, q.first, q.i)

ReadTrue(w, q) == q.pc = "walk" => Truthful(w, q.new) /\ OnCourse(w, q)

Calm(w, rs, ss, S) ==
  /\ \A r \in Reads : ReadCalm(w, rs[r])
  /\ \A s \in ss : Bounded(w, s)
  /\ \A a \in DOMAIN S : Boundary(w, a)

Faithful(w, rs, ss, S) ==
  /\ \A r \in Reads : ReadTrue(w, rs[r])
  /\ \A s \in ss : Truthful(w, s)
  /\ \A a \in DOMAIN S : S[a] = Carried(w, a)

Whole(w, S) == \A a \in DOMAIN S : Full(RowsIn(w), a, S[a])

(* Rows are the table's, but for voids.  In order, snapshots are of        *)
(* boundaries, and a read's grants are the ledger's up to the last of its  *)
(* periods.  With no snapshot partial, they hold what the ledger carries   *)
(* over, and a walk under way is in step with the ledger.                  *)
SettledInv ==
  /\ \A r \in Reads : ReadKin(View, read[r])
  /\ orderly => Calm(View, read, saves, snaps)
  /\ orderly /\ Whole(View, snaps) => Faithful(View, read, saves, snaps)

(* What CacheInv and SaneInv say of a read in order.                       *)
ReadOf(w, q) ==
  /\ q.pc \in {"seed", "walk"} =>
       /\ q.ent = w.ent /\ q.t \in Int /\ IsLedger(q.G)
       /\ w.ent.dur > 0 => StartIn(w, q.t) <= w.now
  /\ q.pc = "walk" => w.ent.dur > 0 /\ q.i \in 1 .. Len(PeriodsOf(q))

LEMMA BoundedKept ==
  ASSUME NEW w, ViewTyped(w), NEW v, ViewTyped(v), Undisturbed(w, v),
         NEW s, Bounded(w, s)
  PROVE  Bounded(v, s) /\ (Truthful(w, s) => Truthful(v, s))
<1>1. ASSUME NEW i \in DOMAIN s
      PROVE  /\ Boundary(v, s[i].asOf)
             /\ Carried(v, s[i].asOf) = Carried(w, s[i].asOf)
  <2>1. PICK b : b = s[i].asOf
    OBVIOUS
  <2>2. Boundary(w, b)
    BY <2>1 DEF Bounded
  <2>3. Boundary(v, b) /\ Carried(v, b) = Carried(w, b)
    BY <2>2, BoundaryKept
  <2>4. QED
    BY <2>1, <2>3
<1>2. QED
  BY <1>1 DEF Bounded, Truthful

LEMMA AlikeBoth ==
  ASSUME NEW G, NEW H, NEW K, NEW b, Alike(G, H, b), Alike(G, K, b)
  PROVE  Alike(H, K, b)
<1>1. ASSUME NEW g
      PROVE  /\ g \in DOMAIN H /\ H[g].effective < b
                  => g \in DOMAIN K /\ K[g] = H[g]
             /\ g \in DOMAIN K /\ K[g].effective < b
                  => g \in DOMAIN H /\ H[g] = K[g]
  <2>1. g \in DOMAIN H /\ H[g].effective < b
          => g \in DOMAIN K /\ K[g] = H[g]
    BY DEF Alike
  <2>2. g \in DOMAIN K /\ K[g].effective < b
          => g \in DOMAIN H /\ H[g] = K[g]
    BY DEF Alike
  <2>3. QED
    BY <2>1, <2>2
<1>2. QED
  BY <1>1 DEF Alike

LEMMA ReadCalmKept ==
  ASSUME NEW w, ViewTyped(w), NEW v, ViewTyped(v), Undisturbed(w, v),
         NEW q, ReadOf(w, q), ReadCalm(w, q)
  PROVE  ReadCalm(v, q)
<1>1. v.ent = w.ent
  BY DEF Undisturbed
<1>2. q.pc = "walk" => Bounded(v, q.new)
  <2>1. SUFFICES ASSUME q.pc = "walk" PROVE Bounded(v, q.new)
    OBVIOUS
  <2>2. PICK s : s = q.new
    OBVIOUS
  <2>3. Bounded(w, s)
    BY <2>1, <2>2 DEF ReadCalm
  <2>4. QED
    BY <2>2, <2>3, BoundedKept
<1>3. ASSUME q.pc \in {"seed", "walk"}, w.ent.dur > 0
      PROVE  Alike(RowsIn(v), q.G, StartIn(v, q.t))
  <2>1. PICK t, c, d, H : /\ t = q.t /\ c = StartIn(w, t) /\ H = q.G
                          /\ d = StartIn(w, w.now)
    OBVIOUS
  <2>2. t \in Int /\ c <= w.now /\ Alike(RowsIn(w), H, c)
    BY <1>3, <2>1 DEF ReadOf, ReadCalm
  <2>3. c <= d
    BY <1>3, <2>1, <2>2, PeriodsBounded
  <2>4. c \in Int /\ d \in Int
    BY <1>3, <2>1, <2>2, StartsIn DEF ViewTyped
  <2>5. Alike(RowsIn(w), RowsIn(v), c)
    <3>1. Alike(RowsIn(w), RowsIn(v), d)
      BY <1>3, <2>1 DEF Undisturbed
    <3>2. IsLedger(RowsIn(w)) /\ IsLedger(RowsIn(v))
      BY DEF ViewTyped
    <3>3. QED
      BY <2>3, <2>4, <3>1, <3>2, AlikeEarlier
  <2>6. Alike(RowsIn(v), H, c)
    BY <2>2, <2>5, AlikeBoth
  <2>7. StartIn(v, t) = c
    BY <1>1, <2>1 DEF StartIn
  <2>8. QED
    BY <2>1, <2>6, <2>7
<1>4. QED
  BY <1>1, <1>2, <1>3 DEF ReadCalm

LEMMA ReadTrueKept ==
  ASSUME NEW w, ViewTyped(w), NEW v, ViewTyped(v), Undisturbed(w, v),
         NEW q, ReadOf(w, q), ReadCalm(w, q), ReadTrue(w, q)
  PROVE  ReadTrue(v, q)
<1>1. SUFFICES ASSUME q.pc = "walk" PROVE Truthful(v, q.new) /\ OnCourse(v, q)
  BY DEF ReadTrue
<1>2. PICK s, P, t, b : /\ s = q.new /\ P = PeriodsOf(q) /\ t = q.t
                        /\ b = P[q.i].from
  OBVIOUS
<1>3. Truthful(v, s)
  <2>1. Bounded(w, s) /\ Truthful(w, s)
    BY <1>1, <1>2 DEF ReadCalm, ReadTrue
  <2>2. QED
    BY <2>1, BoundedKept
<1>4. /\ q.ent = w.ent /\ t \in Int /\ w.ent.dur > 0 /\ StartIn(w, t) <= w.now
      /\ q.i \in 1 .. Len(P)
  BY <1>1, <1>2 DEF ReadOf
<1>5. P = PeriodsIn(w, t)
  BY <1>2, <1>4 DEF PeriodsOf, PeriodsIn
<1>6. Boundary(w, b)
  BY <1>2, <1>4, <1>5, PeriodsBounded
<1>7. Carried(v, b) = Carried(w, b)
  BY <1>6, BoundaryKept
<1>8. InStep(q.G, b, Carried(w, b), q.st, q.first, q.i)
  BY <1>1, <1>2 DEF ReadTrue, OnCourse
<1>9. OnCourse(v, q)
  BY <1>2, <1>7, <1>8 DEF OnCourse
<1>10. QED
  BY <1>2, <1>3, <1>9

LEMMA CalmKept ==
  ASSUME NEW w, ViewTyped(w), NEW v, ViewTyped(v), Undisturbed(w, v),
         NEW rs, NEW ss, NEW S, Calm(w, rs, ss, S),
         \A r \in Reads : ReadOf(w, rs[r])
  PROVE  Calm(v, rs, ss, S)
<1>1. ASSUME NEW r \in Reads PROVE ReadCalm(v, rs[r])
  <2>1. ReadOf(w, rs[r]) /\ ReadCalm(w, rs[r])
    BY DEF Calm
  <2>2. QED
    BY <2>1, ReadCalmKept
<1>2. \A s \in ss : Bounded(v, s)
  BY BoundedKept DEF Calm
<1>3. \A a \in DOMAIN S : Boundary(v, a)
  BY BoundaryKept DEF Calm
<1>4. QED
  BY <1>1, <1>2, <1>3 DEF Calm

LEMMA FaithfulKept ==
  ASSUME NEW w, ViewTyped(w), NEW v, ViewTyped(v), Undisturbed(w, v),
         NEW rs, NEW ss, NEW S, Calm(w, rs, ss, S), Faithful(w, rs, ss, S),
         \A r \in Reads : ReadOf(w, rs[r])
  PROVE  Faithful(v, rs, ss, S)
<1>1. ASSUME NEW r \in Reads PROVE ReadTrue(v, rs[r])
  <2>1. ReadOf(w, rs[r]) /\ ReadCalm(w, rs[r]) /\ ReadTrue(w, rs[r])
    BY DEF Calm, Faithful
  <2>2. QED
    BY <2>1, ReadTrueKept
<1>2. \A s \in ss : Truthful(v, s)
  BY BoundedKept DEF Calm, Faithful
<1>3. ASSUME NEW a \in DOMAIN S PROVE S[a] = Carried(v, a)
  <2>1. Boundary(w, a) /\ S[a] = Carried(w, a)
    BY DEF Calm, Faithful
  <2>2. Carried(v, a) = Carried(w, a)
    BY <2>1, BoundaryKept
  <2>3. QED
    BY <2>1, <2>2
<1>4. QED
  BY <1>1, <1>2, <1>3 DEF Faithful

(* No step makes a partial snapshot a whole one.                           *)
LEMMA WholeBefore ==
  ASSUME NEW w, ViewTyped(w), NEW v, ViewTyped(v), Undisturbed(w, v),
         NEW S, \A a \in DOMAIN S : Boundary(w, a), Whole(v, S)
  PROVE  Whole(w, S)
<1>1. ASSUME NEW a \in DOMAIN S PROVE Full(RowsIn(w), a, S[a])
  <2>1. Alike(RowsIn(w), RowsIn(v), a)
    BY BoundaryKept
  <2>2. Full(RowsIn(v), a, S[a])
    BY DEF Whole
  <2>3. QED
    BY <2>1, <2>2 DEF Full, Alike
<1>2. QED
  BY <1>1 DEF Whole

LEMMA ViewIsTyped == CacheInv /\ SaneInv => ViewTyped(View)
<1> SUFFICES ASSUME CacheInv, SaneInv PROVE ViewTyped(View)
  OBVIOUS
<1>1. PICK w : w = View
  OBVIOUS
<1>2. /\ w.now = now /\ w.ent = ent /\ w.grants = grants
      /\ w.usage = UsageIn(events)
  BY <1>1 DEF View
<1>3. now \in Int /\ ent.dur \in Nat /\ ent.cap \in Nat \cup {None}
  BY SaneFacts, EntTyped DEF CacheInv, TypeOK, Time
<1>4. Anchor(ent) \in Nat
  <2>1. ent.created \in Nat /\ (ent.anchor = None \/ ent.anchor \in Nat)
    BY SaneFacts DEF EntRows, Time
  <2>2. QED
    BY <2>1 DEF Anchor
<1>5. \A g \in DOMAIN grants : grants[g] \in GrantRows
  BY DEF CacheInv, TypeOK, GrantRows
<1>6. UsageIn(events) \in [Int \X Int -> Nat]
  <2>1. \A x \in Int \X Int : FetchUsage(meter, events, x[1], x[2]) \in Nat
    BY SaneFacts, UsageTyped
  <2>2. QED
    BY <2>1 DEF UsageIn
<1>7. IsLedger(RowsIn(w))
  BY <1>2, ListedLedger DEF RowsIn
<1>8. ViewTyped(w)
  BY <1>2, <1>3, <1>4, <1>5, <1>6, <1>7 DEF ViewTyped
<1>9. QED
  BY <1>1, <1>8

LEMMA ViewNext == (CacheInv /\ SaneInv => ViewTyped(View))'
BY ViewIsTyped, PTL

LEMMA ReadsOf ==
  ASSUME CacheInv, SaneInv, orderly
  PROVE  \A r \in Reads : ReadOf(View, read[r])
<1>1. PICK w : w = View
  OBVIOUS
<1>2. w.now = now /\ w.ent = ent
  BY <1>1 DEF View
<1>3. ViewTyped(w)
  BY <1>1, ViewIsTyped
<1>4. ASSUME NEW r \in Reads PROVE ReadOf(w, read[r])
  <2>1. PICK q : q = read[r]
    OBVIOUS
  <2>2. ReadInv(q) /\ Holding(q)
    BY <2>1 DEF CacheInv, SaneInv
  <2>3. ASSUME q.pc \in {"seed", "walk"}
        PROVE  /\ q.ent = ent /\ q.t \in Int /\ IsLedger(q.G)
               /\ ent.dur > 0 => StartIn(w, q.t) <= now
    <3>1. q.ent = ent /\ q.t \in Time /\ ~Ahead(q.t) /\ IsLedger(q.G)
      BY <2>2, <2>3 DEF ReadInv, Holding
    <3>2. PICK t, x : t = q.t /\ x = StartIn(w, t)
      OBVIOUS
    <3>3. t \in Int /\ now \in Int
      BY <1>2, <1>3, <3>1, <3>2 DEF Time, ViewTyped
    <3>4. PeriodStart(t) = x
      BY <1>2, <3>2 DEF PeriodStart, StartIn, LastFrom
    <3>5. ASSUME ent.dur > 0 PROVE x <= now
      <4>1. x \in Int
        BY <1>2, <1>3, <3>2, <3>3, <3>5, StartsIn
      <4>2. ~(now < x)
        BY <3>1, <3>2, <3>4, <3>5 DEF Ahead
      <4>3. QED
        BY <3>3, <4>1, <4>2
    <3>6. QED
      BY <3>1, <3>2, <3>3, <3>5
  <2>4. q.pc = "walk" => ent.dur > 0 /\ q.i \in 1 .. Len(PeriodsOf(q))
    BY <2>2, <2>3 DEF ReadInv
  <2>5. QED
    BY <1>2, <2>1, <2>3, <2>4 DEF ReadOf
<1>5. QED
  BY <1>1, <1>4

(* A write, or a tick.                                                     *)
KinKept(w, v) == \A G : Kin(w, G) => Kin(v, G)

LEMMA QuietSettled ==
  ASSUME CacheInv, SaneInv, SettledInv,
         NEW v, View' = v, ViewTyped(v), KinKept(View, v),
         orderly' => orderly /\ Undisturbed(View, v),
         UNCHANGED <<read, saves, snaps>>
  PROVE  SettledInv'
<1>1. PICK w : w = View
  OBVIOUS
<1>2. ViewTyped(w)
  BY <1>1, ViewIsTyped
<1>3. \A r \in Reads : ReadKin(v, read[r])
  BY <1>1 DEF SettledInv, ReadKin, KinKept
<1>4. ASSUME orderly'
      PROVE  Calm(v, read, saves, snaps)
  <2>1. PICK rs, ss, S : rs = read /\ ss = saves /\ S = snaps
    OBVIOUS
  <2>2. Undisturbed(w, v) /\ Calm(w, rs, ss, S)
    BY <1>1, <1>4, <2>1 DEF SettledInv
  <2>3. \A r \in Reads : ReadOf(w, rs[r])
    BY <1>1, <1>4, <2>1, ReadsOf
  <2>4. Calm(v, rs, ss, S)
    BY <1>2, <2>2, <2>3, CalmKept
  <2>5. QED
    BY <2>1, <2>4
<1>5. ASSUME orderly', Whole(v, snaps)
      PROVE  Faithful(v, read, saves, snaps)
  <2>1. PICK rs, ss, S : rs = read /\ ss = saves /\ S = snaps
    OBVIOUS
  <2>2. Undisturbed(w, v) /\ Calm(w, rs, ss, S) /\ orderly
    BY <1>1, <1>5, <2>1 DEF SettledInv
  <2>3. \A r \in Reads : ReadOf(w, rs[r])
    BY <1>1, <1>5, <2>1, ReadsOf
  <2>4. Whole(w, S)
    <3>1. Whole(v, S)
      BY <1>5, <2>1
    <3>2. \A a \in DOMAIN S : Boundary(w, a)
      BY <2>2 DEF Calm
    <3>3. QED
      BY <1>2, <2>2, <3>1, <3>2, WholeBefore
  <2>5. Faithful(w, rs, ss, S)
    BY <1>1, <2>1, <2>2, <2>4 DEF SettledInv
  <2>6. Faithful(v, rs, ss, S)
    BY <1>2, <2>2, <2>3, <2>5, FaithfulKept
  <2>7. QED
    BY <2>1, <2>6
<1>6. QED
  BY <1>3, <1>4, <1>5 DEF SettledInv

(* A step of one read.                                                     *)
LEMMA OwnSettled ==
  ASSUME CacheInv, SaneInv, SettledInv, UNCHANGED <<now, tables>>,
         orderly' => orderly,
         NEW r \in Reads, NEW q, read' = [read EXCEPT ![r] = q],
         ReadKin(View, q), orderly' => ReadCalm(View, q),
         orderly' /\ Whole(View, snaps) => ReadTrue(View, q),
         \A s \in saves' : s \in saves \/
           /\ orderly' => Bounded(View, s)
           /\ orderly' /\ Whole(View, snaps) => Truthful(View, s)
  PROVE  SettledInv'
<1>1. PICK w : w = View
  OBVIOUS
<1>2. View' = w /\ snaps' = snaps
  <2>1. UNCHANGED <<now, grants, events, ent, meter, snaps>>
    BY DEF tables
  <2>2. QED
    BY <1>1, <2>1 DEF View, UsageIn
<1>3. \A o \in Reads : read'[o] = q \/ read'[o] = read[o]
  BY SaneFacts
<1>4. \A o \in Reads : ReadKin(w, read'[o])
  BY <1>1, <1>3 DEF SettledInv
<1>5. orderly' => Calm(w, read', saves', snaps)
  BY <1>1, <1>3 DEF SettledInv, Calm
<1>6. orderly' /\ Whole(w, snaps) => Faithful(w, read', saves', snaps)
  BY <1>1, <1>3 DEF SettledInv, Faithful
<1>7. QED
  BY <1>2, <1>4, <1>5, <1>6 DEF SettledInv

LEMMA NextTyped ==
  ASSUME CacheInv', SaneInv', NEW v, v = View'
  PROVE  ViewTyped(v)
BY ViewNext

LEMMA NextView ==
  ASSUME NEW v, v = View'
  PROVE  /\ v.now = now' /\ v.ent = ent' /\ v.grants = grants'
         /\ v.usage = UsageIn(events)'
BY DEF View

LEMMA ThisView ==
  /\ View.now = now /\ View.ent = ent /\ View.grants = grants
  /\ View.usage = UsageIn(events)
BY DEF View

(* The same events in a window are the same usage.                         *)
LEMMA FetchSame ==
  ASSUME NEW agg, NEW E, NEW F, IsFiniteSet(DOMAIN E),
         \A i \in DOMAIN E : E[i].value \in Int, NEW from, NEW to,
         \A i \in DOMAIN E : from <= E[i].time /\ E[i].time < to
           => i \in DOMAIN F /\ F[i] = E[i],
         \A i \in DOMAIN F : from <= F[i].time /\ F[i].time < to
           => i \in DOMAIN E /\ E[i] = F[i]
  PROVE  FetchUsage(agg, E, from, to) = FetchUsage(agg, F, from, to)
<1> DEFINE in == {i \in DOMAIN E : from <= E[i].time /\ E[i].time < to}
           on == {i \in DOMAIN F : from <= F[i].time /\ F[i].time < to}
           e == [i \in DOMAIN E |-> E[i].value]
           f == [i \in DOMAIN F |-> F[i].value]
<1>1. in = on /\ \A i \in in : E[i] = F[i] /\ e[i] = f[i] /\ e[i] \in Int
  OBVIOUS
<1>2. {E[i].value : i \in in} = {F[i].value : i \in on}
  BY <1>1
<1>3. IsFiniteSet(in)
  BY FS_Subset
<1>4. SumFunctionOnSet(e, in) = SumFunctionOnSet(f, on)
  <2> HIDE DEF in, on, e, f
  <2>1. QED
    BY <1>1, <1>3, SumSame
<1> DEFINE Fetched(S, values, sum) ==
             IF S = {} THEN 0
             ELSE CASE agg = "sum" -> sum
                    [] agg = "count" -> Cardinality(S)
                    [] agg = "unique_count" -> Cardinality(values)
                    [] agg = "max" -> Max(values)
                    [] agg = "min" -> Min(values)
                    [] agg = "avg" -> sum \div Cardinality(S)
<1>5. FetchUsage(agg, E, from, to)
        = Fetched(in, {E[i].value : i \in in}, SumFunctionOnSet(e, in))
  BY Zenon DEF FetchUsage
<1>6. FetchUsage(agg, F, from, to)
        = Fetched(on, {F[i].value : i \in on}, SumFunctionOnSet(f, on))
  BY Zenon DEF FetchUsage
<1>7. in = on
  BY <1>1
<1> HIDE DEF in, on, e, f, Fetched
<1>8. QED
  BY <1>2, <1>4, <1>5, <1>6, <1>7, Zenon

LEMMA AlikeItself ==
  ASSUME NEW G, NEW b
  PROVE  Alike(G, G, b)
BY DEF Alike

LEMMA TickSettled ==
  ASSUME CacheInv, SaneInv, CacheInv', SaneInv', SettledInv,
         UNCHANGED <<tables, read, saves, orderly>>, now <= now'
  PROVE  SettledInv'
<1>1. PICK v : v = View'
  OBVIOUS
<1>2. PICK w : w = View
  OBVIOUS
<1>3. ViewTyped(v) /\ ViewTyped(w)
  BY <1>1, <1>2, NextTyped, ViewIsTyped
<1>4. UNCHANGED <<grants, events, ent, meter, snaps>>
  BY DEF tables
<1>5. v.ent = w.ent /\ v.grants = w.grants /\ v.usage = w.usage
  <2>1. UsageIn(events)' = UsageIn(events)
    BY <1>4 DEF UsageIn
  <2>2. QED
    BY <1>1, <1>2, <1>4, <2>1, NextView, ThisView
<1>6. w.now <= v.now
  BY <1>1, <1>2, NextView, ThisView
<1>7. Undisturbed(w, v)
  BY <1>5, <1>6, AlikeItself DEF Undisturbed, RowsIn
<1>8. KinKept(w, v)
  BY <1>5 DEF KinKept, Kin
<1>9. orderly' => orderly /\ Undisturbed(w, v)
  BY <1>7
<1>10. QED
  BY <1>1, <1>2, <1>3, <1>4, <1>8, <1>9, QuietSettled

LEMMA ClosedBefore ==
  ASSUME NEW w, w = View, w.ent.dur > 0
  PROVE  \A t : Closed(t) <=> t < StartIn(w, w.now)
<1>1. w.ent = ent /\ w.now = now
  BY ThisView
<1>2. PeriodStart(now) = StartIn(w, w.now)
  BY <1>1 DEF PeriodStart, StartIn, LastFrom
<1>3. QED
  BY <1>1, <1>2 DEF Closed

LEMMA NotClosed ==
  ASSUME NEW w, w = View, ViewTyped(w), w.ent.dur > 0,
         NEW t \in Int, ~Closed(t)
  PROVE  StartIn(w, w.now) \in Int /\ StartIn(w, w.now) <= t
<1>1. PICK x : x = StartIn(w, w.now)
  OBVIOUS
<1>2. x \in Int
  BY <1>1, StartsIn DEF ViewTyped
<1>3. ~(t < x)
  BY <1>1, ClosedBefore
<1>4. QED
  BY <1>1, <1>2, <1>3

LEMMA IngestSettled ==
  ASSUME CacheInv, SaneInv, CacheInv', SaneInv', SettledInv,
         NEW i, NEW t \in Time, NEW x, IngestEvent(i, t, x)
  PROVE  SettledInv'
<1>1. PICK v, w : v = View' /\ w = View
  OBVIOUS
<1>2. ViewTyped(v) /\ ViewTyped(w)
  BY <1>1, NextTyped, ViewIsTyped
<1>3. /\ UNCHANGED <<now, grants, ent, meter, snaps, read, saves>>
      /\ events' = IF i \in DOMAIN events THEN events
                   ELSE Insert(events, i, [time |-> t, value |-> x])
  BY DEF IngestEvent
<1>4. v.ent = w.ent /\ v.grants = w.grants /\ v.now = w.now
  BY <1>1, <1>3, NextView, ThisView
<1>5. KinKept(w, v)
  BY <1>4 DEF KinKept, Kin
<1>6. orderly' => orderly /\ (i \in DOMAIN events \/ ~Closed(t))
  <2>1. orderly' = (orderly /\ (i \in DOMAIN events \/ ~Closed(t)))
    BY DEF IngestEvent, Orderly
  <2>2. QED
    BY <2>1, Zenon
<1>7. ASSUME orderly', w.ent.dur > 0, NEW a \in Int, NEW b \in Int,
             b <= StartIn(w, w.now)
      PROVE  w.usage[<<a, b>>] = v.usage[<<a, b>>]
  <2>1. /\ w.usage[<<a, b>>] = FetchUsage(meter, events, a, b)
        /\ v.usage[<<a, b>>] = FetchUsage(meter, events', a, b)
    <3>1. UsageIn(events)'
            = [u \in Int \X Int |-> FetchUsage(meter, events', u[1], u[2])]
      BY <1>3 DEF UsageIn
    <3>2. UsageIn(events)
            = [u \in Int \X Int |-> FetchUsage(meter, events, u[1], u[2])]
      BY DEF UsageIn
    <3>3. v.usage = UsageIn(events)' /\ w.usage = UsageIn(events)
      BY <1>1, NextView, ThisView
    <3>4. QED
      BY <3>1, <3>2, <3>3
  <2>2. CASE i \in DOMAIN events
    BY <1>3, <2>1, <2>2
  <2>3. CASE i \notin DOMAIN events
    <3>1. events' = Insert(events, i, [time |-> t, value |-> x])
      BY <1>3, <2>3
    <3>2. PICK F : F = events'
      OBVIOUS
    <3>3. /\ DOMAIN F = DOMAIN events \cup {i} /\ F[i].time = t
          /\ \A k \in DOMAIN events : F[k] = events[k]
      BY <2>3, <3>1, <3>2 DEF Insert
    <3>4. ~(t < b)
      <4>1. t \in Int
        BY DEF Time
      <4>2. ~Closed(t)
        BY <1>6, <1>7, <2>3
      <4>3. PICK s : s = StartIn(w, w.now)
        OBVIOUS
      <4>4. s \in Int /\ s <= t
        BY <1>1, <1>2, <1>7, <4>1, <4>2, <4>3, NotClosed
      <4>5. QED
        BY <1>7, <4>1, <4>3, <4>4
    <3>5. IsFiniteSet(DOMAIN events) /\ \A k \in DOMAIN events : events[k].value \in Int
      BY SaneFacts DEF EventsTyped
    <3>6. /\ \A k \in DOMAIN events : a <= events[k].time /\ events[k].time < b
                => k \in DOMAIN F /\ F[k] = events[k]
          /\ \A k \in DOMAIN F : a <= F[k].time /\ F[k].time < b
                => k \in DOMAIN events /\ events[k] = F[k]
      BY <3>3, <3>4
    <3>7. FetchUsage(meter, events, a, b) = FetchUsage(meter, F, a, b)
      BY <3>5, <3>6, FetchSame
    <3>8. QED
      BY <2>1, <3>2, <3>7
  <2>4. QED
    BY <2>2, <2>3
<1>8. w.now <= v.now
  BY <1>2, <1>4 DEF ViewTyped
<1>9. orderly' => orderly /\ Undisturbed(w, v)
  BY <1>4, <1>6, <1>7, <1>8, AlikeItself DEF Undisturbed, RowsIn
<1>10. QED
  BY <1>1, <1>2, <1>3, <1>5, <1>9, QuietSettled

(* Tables that differ in one grant.                                        *)
LEMMA RowsAlike ==
  ASSUME NEW w, NEW v, NEW b, NEW k,
         \A g : g # k =>
           /\ g \in DOMAIN w.grants <=> g \in DOMAIN v.grants
           /\ g \in DOMAIN w.grants => v.grants[g] = w.grants[g],
         k \in DOMAIN w.grants => ~(w.grants[k].effective < b),
         k \in DOMAIN v.grants => ~(v.grants[k].effective < b)
  PROVE  Alike(RowsIn(w), RowsIn(v), b)
<1>1. PICK G, H : G = RowsIn(w) /\ H = RowsIn(v)
  OBVIOUS
<1>2. /\ DOMAIN G = {g \in DOMAIN w.grants : ~w.grants[g].voided}
      /\ \A g \in DOMAIN G : G[g] = w.grants[g]
      /\ DOMAIN H = {g \in DOMAIN v.grants : ~v.grants[g].voided}
      /\ \A g \in DOMAIN H : H[g] = v.grants[g]
  BY <1>1, RowsAre
<1>3. ASSUME NEW g
      PROVE  /\ g \in DOMAIN G /\ G[g].effective < b
                  => g \in DOMAIN H /\ H[g] = G[g]
             /\ g \in DOMAIN H /\ H[g].effective < b
                  => g \in DOMAIN G /\ G[g] = H[g]
  BY <1>2
<1>4. QED
  BY <1>1, <1>3 DEF Alike

LEMMA GrantsSettled ==
  ASSUME CacheInv, SaneInv, CacheInv', SaneInv', SettledInv,
         UNCHANGED <<now, events, ent, meter, snaps, read, saves>>,
         NEW k, NEW t \in Time, orderly' => orderly /\ ~Closed(t),
         \A g : g # k =>
           /\ g \in DOMAIN grants <=> g \in DOMAIN grants'
           /\ g \in DOMAIN grants => grants'[g] = grants[g],
         k \in DOMAIN grants' /\ grants'[k].effective = t,
         k \in DOMAIN grants => grants[k].effective = t,
         k \in DOMAIN grants => [grants'[k] EXCEPT !.voided = FALSE]
                                  = [grants[k] EXCEPT !.voided = FALSE]
  PROVE  SettledInv'
<1>1. PICK v, w : v = View' /\ w = View
  OBVIOUS
<1>2. ViewTyped(v) /\ ViewTyped(w)
  BY <1>1, NextTyped, ViewIsTyped
<1>3. /\ v.ent = w.ent /\ v.now = w.now /\ v.usage = w.usage
      /\ w.grants = grants /\ v.grants = grants'
  <2>1. UsageIn(events)' = UsageIn(events)
    BY DEF UsageIn
  <2>2. QED
    BY <1>1, <2>1, NextView, ThisView
<1>4. KinKept(w, v)
  <2>1. ASSUME NEW G, Kin(w, G), NEW g \in DOMAIN G
        PROVE  g \in DOMAIN v.grants
               /\ G[g] = [v.grants[g] EXCEPT !.voided = FALSE]
    <3>1. g \in DOMAIN w.grants
          /\ G[g] = [w.grants[g] EXCEPT !.voided = FALSE]
      BY <2>1 DEF Kin
    <3>2. CASE g = k
      BY <1>3, <3>1, <3>2
    <3>3. CASE g # k
      BY <1>3, <3>1, <3>3
    <3>4. QED
      BY <3>2, <3>3
  <2>2. QED
    BY <2>1 DEF KinKept, Kin
<1>5. ASSUME orderly', w.ent.dur > 0
      PROVE  Alike(RowsIn(w), RowsIn(v), StartIn(w, w.now))
  <2>1. PICK b : b = StartIn(w, w.now)
    OBVIOUS
  <2>2. ~(t < b)
    BY <1>1, <1>5, <2>1, ClosedBefore
  <2>3. Alike(RowsIn(w), RowsIn(v), b)
    BY <1>3, <2>2, RowsAlike
  <2>4. QED
    BY <2>1, <2>3
<1>6. w.now <= v.now
  BY <1>2, <1>3 DEF ViewTyped
<1>7. orderly' => orderly /\ Undisturbed(w, v)
  BY <1>3, <1>5, <1>6 DEF Undisturbed
<1>8. QED
  BY <1>1, <1>2, <1>4, <1>7, QuietSettled

LEMMA WriteSettled ==
  ASSUME CacheInv, SaneInv, CacheInv', SaneInv', SettledInv, WriteStep
  PROVE  SettledInv'
<1>1. CASE \E i \in EventIds, t \in Inputs, x \in Values : IngestEvent(i, t, x)
  BY <1>1, InputTime, IngestSettled
<1>2. CASE \E a \in Amounts, p \in Priorities, t \in Inputs, l \in Lifetimes :
             CreateGrant(a, p, t, l)
  <2>1. PICK a \in Amounts, p \in Priorities, t \in Inputs, l \in Lifetimes :
          CreateGrant(a, p, t, l)
    BY <1>2
  <2>2. PICK k, row : /\ k = Cardinality(DOMAIN grants) + 1
                      /\ row = [amount |-> a, priority |-> p, effective |-> t,
                                expires |-> IF l = None THEN None ELSE t + l,
                                voided |-> FALSE]
    OBVIOUS
  <2>3. /\ grants' = Insert(grants, k, row)
        /\ UNCHANGED <<now, events, ent, meter, snaps, read, saves>>
    BY <2>1, <2>2 DEF CreateGrant
  <2>4. orderly' => orderly /\ ~Closed(t)
    <3>1. orderly' = (orderly /\ ~Closed(t))
      BY <2>1 DEF CreateGrant, Orderly
    <3>2. QED
      BY <3>1, Zenon
  <2>5. k \notin DOMAIN grants
    <3>1. PICK n : n = Cardinality(DOMAIN grants)
      OBVIOUS
    <3>2. n \in Nat /\ DOMAIN grants = 1 .. n
      BY <3>1, FS_CardinalityType DEF SaneInv, Numbered
    <3>3. k = n + 1
      BY <2>2, <3>1
    <3>4. k \notin 1 .. n
      BY <3>2, <3>3
    <3>5. QED
      BY <3>2, <3>4
  <2>6. /\ DOMAIN grants' = DOMAIN grants \cup {k} /\ grants'[k] = row
        /\ \A g \in DOMAIN grants : g # k => grants'[g] = grants[g]
    BY <2>3 DEF Insert
  <2>7. grants'[k].effective = t
    BY <2>2, <2>6
  <2>8. t \in Time
    BY InputTime
  <2>9. QED
    BY <2>3, <2>4, <2>5, <2>6, <2>7, <2>8, GrantsSettled
<1>3. CASE \E g \in DOMAIN grants : VoidGrant(g)
  <2>1. PICK k \in DOMAIN grants : VoidGrant(k)
    BY <1>3
  <2>2. PICK old, t : old = grants[k] /\ t = old.effective
    OBVIOUS
  <2>3. /\ grants' = [grants EXCEPT ![k] = [old EXCEPT !.voided = TRUE]]
        /\ UNCHANGED <<now, events, ent, meter, snaps, read, saves>>
    BY <2>1, <2>2 DEF VoidGrant
  <2>4. orderly' => orderly /\ ~Closed(t)
    <3>1. orderly' = (orderly /\ ~Closed(t))
      BY <2>1, <2>2 DEF VoidGrant, Orderly
    <3>2. QED
      BY <3>1, Zenon
  <2>5. old \in GrantRows
    BY <2>2 DEF CacheInv, TypeOK, GrantRows
  <2>6. t \in Time
    BY <2>2, <2>5 DEF GrantRows
  <2>7. PICK new : new = [old EXCEPT !.voided = TRUE]
    OBVIOUS
  <2>8. /\ new.effective = t
        /\ [new EXCEPT !.voided = FALSE] = [old EXCEPT !.voided = FALSE]
    BY <2>2, <2>5, <2>7 DEF GrantRows
  <2>9. /\ DOMAIN grants' = DOMAIN grants /\ grants'[k] = new
        /\ \A g \in DOMAIN grants : g # k => grants'[g] = grants[g]
    BY <2>3, <2>7
  <2>10. QED
    BY <2>2, <2>3, <2>4, <2>6, <2>8, <2>9, GrantsSettled
<1>4. CASE \E at \in Inputs : ResetEntitlement(at)
  <2>1. PICK at \in Inputs : ResetEntitlement(at)
    BY <1>4
  <2>2. PICK v, w : v = View' /\ w = View
    OBVIOUS
  <2>3. ViewTyped(v)
    BY <2>2, NextTyped
  <2>4. /\ UNCHANGED <<now, grants, events, meter, snaps, read, saves>>
    BY <2>1 DEF ResetEntitlement
  <2>5. ~orderly'
    <3>1. orderly' = (orderly /\ FALSE)
      BY <2>1 DEF ResetEntitlement, Orderly
    <3>2. QED
      BY <3>1, Zenon
  <2>6. v.grants = w.grants
    BY <2>2, <2>4, NextView, ThisView
  <2>7. KinKept(w, v)
    BY <2>6 DEF KinKept, Kin
  <2>8. QED
    BY <2>2, <2>3, <2>4, <2>5, <2>7, QuietSettled
<1>5. QED
  BY <1>1, <1>2, <1>3, <1>4 DEF WriteStep

(* Reads.                                                                  *)
LEMMA ReadsAre ==
  CacheInv /\ SaneInv /\ orderly => \A r \in Reads : ReadOf(View, read[r])
BY ReadsOf

LEMMA ReadsNext ==
  (CacheInv /\ SaneInv /\ orderly => \A r \in Reads : ReadOf(View, read[r]))'
BY ReadsAre, PTL

LEMMA OwnRead ==
  ASSUME CacheInv', SaneInv', orderly', UNCHANGED <<now, tables>>,
         NEW r \in Reads, NEW q, read'[r] = q
  PROVE  ReadOf(View, q)
<1>1. View' = View
  BY DEF tables, View, UsageIn
<1>2. ReadOf(View', read'[r])
  BY ReadsNext
<1>3. QED
  BY <1>1, <1>2

LEMMA ReadQuiet ==
  ASSUME NEW w, NEW q, q.pc \notin {"seed", "walk"}
  PROVE  ReadCalm(w, q) /\ ReadTrue(w, q)
BY DEF ReadCalm, ReadTrue

LEMMA RowsKin ==
  ASSUME NEW w, ViewTyped(w)
  PROVE  Kin(w, RowsIn(w))
<1>1. ASSUME NEW g \in DOMAIN RowsIn(w)
      PROVE  /\ g \in DOMAIN w.grants
             /\ RowsIn(w)[g] = [w.grants[g] EXCEPT !.voided = FALSE]
  <2>1. PICK x : x = w.grants[g]
    OBVIOUS
  <2>2. g \in DOMAIN w.grants /\ RowsIn(w)[g] = x /\ ~x.voided
    BY <1>1, <2>1, RowsAre
  <2>3. x \in GrantRows
    BY <2>1, <2>2 DEF ViewTyped
  <2>4. x = [x EXCEPT !.voided = FALSE]
    BY <2>2, <2>3 DEF GrantRows
  <2>5. QED
    BY <2>1, <2>2, <2>4
<1>2. QED
  BY <1>1 DEF Kin

LEMMA OldAlike ==
  ASSUME NEW w, w = View, ViewTyped(w), w.ent.dur > 0,
         NEW G, Kin(w, G), IsLedger(G), Old(G) = Old(RowsIn(w)),
         NEW b \in Int, b <= StartIn(w, w.now)
  PROVE  Alike(RowsIn(w), G, b)
<1>1. PICK H, c : H = RowsIn(w) /\ c = StartIn(w, w.now)
  OBVIOUS
<1>2. c \in Int /\ b <= c
  BY <1>1, StartsIn DEF ViewTyped
<1>3. \A u : Closed(u) <=> u < c
  BY <1>1, ClosedBefore
<1>4. Kin(w, H) /\ IsLedger(H)
  BY <1>1, RowsKin DEF ViewTyped
<1>5. \A u \in Int : u < b => Closed(u)
  BY <1>2, <1>3
<1>6. ASSUME NEW g
      PROVE  /\ g \in DOMAIN H /\ H[g].effective < b
                  => g \in DOMAIN G /\ G[g] = H[g]
             /\ g \in DOMAIN G /\ G[g].effective < b
                  => g \in DOMAIN H /\ H[g] = G[g]
  <2>1. g \in DOMAIN H /\ H[g].effective < b => g \in Old(H)
    BY <1>4, <1>5 DEF Old, IsLedger
  <2>2. g \in DOMAIN G /\ G[g].effective < b => g \in Old(G)
    BY <1>5 DEF Old, IsLedger
  <2>3. Old(H) = Old(G) /\ Old(H) \subseteq DOMAIN H /\ Old(G) \subseteq DOMAIN G
    BY <1>1 DEF Old
  <2>4. g \in DOMAIN G /\ g \in DOMAIN H => G[g] = H[g]
    BY <1>4 DEF Kin
  <2>5. QED
    BY <2>1, <2>2, <2>3, <2>4
<1>7. QED
  BY <1>1, <1>6 DEF Alike

LEMMA TimeSettled ==
  ASSUME CacheInv, SaneInv, CacheInv', SaneInv', SettledInv,
         NEW r \in Reads, ReadTime(r)
  PROVE  SettledInv'
<1>1. PICK t, o, w : /\ t = (IF read[r].at = None THEN now ELSE read[r].at)
                     /\ o = read[r] /\ w = View
  OBVIOUS
<1>2. PICK q : q = [pc |-> "seed", ent |-> o.ent, G |-> o.G, t |-> t]
  OBVIOUS
<1>3. /\ read' = [read EXCEPT ![r] = q] /\ o.pc = "time"
      /\ UNCHANGED <<now, tables, saves>>
  BY <1>1, <1>2 DEF ReadTime
<1>4. orderly' => orderly /\ Old(o.G) = Old(RowsIn(w))
  <2>1. orderly' = (orderly /\ Old(o.G) = Old(RowsIn(w)))
    BY <1>1, ThisView DEF ReadTime, Orderly, RowsIn
  <2>2. QED
    BY <2>1, Zenon
<1>5. /\ q.pc = "seed" /\ q.G = o.G
  BY <1>2
<1>6. Kin(w, q.G) /\ ReadKin(w, q)
  BY <1>1, <1>3, <1>5 DEF SettledInv, ReadKin
<1>7. ASSUME orderly'
      PROVE  ReadCalm(w, q)
  <2>1. read'[r] = q
    BY <1>3, SaneFacts
  <2>2. ReadOf(w, q)
    BY <1>1, <1>3, <1>7, <2>1, OwnRead
  <2>3. ViewTyped(w)
    BY <1>1, ViewIsTyped
  <2>4. ASSUME w.ent.dur > 0
        PROVE  Alike(RowsIn(w), q.G, StartIn(w, q.t))
    <3>1. PICK G, u, b : G = q.G /\ u = q.t /\ b = StartIn(w, u)
      OBVIOUS
    <3>2. u \in Int /\ IsLedger(G) /\ b <= w.now
      BY <1>5, <2>2, <2>4, <3>1 DEF ReadOf
    <3>3. b \in Int
      BY <2>3, <2>4, <3>1, <3>2, StartsIn
    <3>4. b <= StartIn(w, w.now)
      BY <2>3, <2>4, <3>1, <3>2, PeriodsBounded
    <3>5. Old(G) = Old(RowsIn(w)) /\ Kin(w, G)
      BY <1>4, <1>5, <1>6, <1>7, <3>1
    <3>6. Alike(RowsIn(w), G, b)
      BY <1>1, <2>3, <2>4, <3>2, <3>3, <3>4, <3>5, OldAlike
    <3>7. QED
      BY <3>1, <3>6
  <2>5. QED
    BY <1>5, <2>4 DEF ReadCalm
<1>8. ReadTrue(w, q)
  BY <1>5 DEF ReadTrue
<1>9. QED
  BY <1>1, <1>3, <1>4, <1>6, <1>7, <1>8, OwnSettled

(* A walk from nothing or from a snapshot begins in step.                  *)
LEMMA BeginOnCourse ==
  ASSUME NEW w, ViewTyped(w), w.ent.dur > 0,
         NEW q, q.ent = w.ent, q.t \in Int, IsLedger(q.G),
         Alike(RowsIn(w), q.G, StartIn(w, q.t)),
         NEW S, Whole(w, S), \A a \in DOMAIN S : S[a] = Carried(w, a),
         NEW seed, seed = NoSeed \/ ( /\ seed.asOf \in DOMAIN S
                                      /\ seed.active = S[seed.asOf] )
  PROVE  OnCourse(w, BeginWalk(q, seed))
<1>1. PICK e, t, G, H, u, P, i, st, yes :
        /\ e = w.ent /\ t = q.t /\ G = RowsIn(w) /\ H = q.G /\ u = w.usage
        /\ P = PeriodsIn(w, t) /\ i = StartAt(P, seed)
        /\ st = StartState(H, P, seed) /\ yes = TRUE
  OBVIOUS
<1>2. Walkable(t, e, G, u, P) /\ IsLedger(H) /\ Alike(G, H, P[Len(P)].from)
  <2>1. Walkable(t, e, G, u, P)
    BY <1>1, WalkableIn
  <2>2. StartIn(w, t) = P[Len(P)].from
    BY <1>1 DEF StartIn, LastFrom, PeriodsIn
  <2>3. QED
    BY <1>1, <2>1, <2>2
<1>3. PICK z : z = BeginWalk(q, seed)
  OBVIOUS
<1>4. /\ z.G = H /\ z.i = i /\ z.st = st /\ z.first = yes /\ PeriodsOf(z) = P
  <2>1. Periods(Anchor(q.ent), q.ent.dur, q.t) = P
    BY <1>1 DEF PeriodsIn
  <2>2. q.ent.dur # 0
    BY DEF ViewTyped
  <2>3. z = [pc |-> "walk", ent |-> q.ent, G |-> H, t |-> t,
             i |-> i, first |-> yes, st |-> st, new |-> << >>]
    BY <1>1, <1>3, <2>1, <2>2 DEF BeginWalk
  <2>4. z.ent = q.ent /\ z.t = q.t /\ z.G = H /\ z.i = i /\ z.st = st
        /\ z.first = yes
    BY <1>1, <2>3
  <2>5. QED
    BY <2>1, <2>4 DEF PeriodsOf
<1>5. InStep(H, P[i].from, CarriedTo(P[i].from, e, G, u), st, yes, i)
  <2>1. CASE i = 1 /\ st = Blank
    BY <1>1, <1>2, <2>1, BlankInStep
  <2>2. CASE ~SeedFits(P, seed)
    BY <1>1, <2>1, <2>2 DEF StartAt, StartState
  <2>3. CASE seed = NoSeed
    <3>1. PICK anchor, dur : anchor = Anchor(e) /\ dur = e.dur
      OBVIOUS
    <3>2. /\ anchor \in Nat /\ dur \in Nat \ {0} /\ t \in Int
          /\ P = Periods(anchor, dur, t)
      BY <1>2, <3>1 DEF Walkable
    <3>3. StartAt(P, NoSeed) = 1 /\ StartState(H, P, NoSeed) = Blank
      BY <3>2, NoSeedFirst
    <3>4. QED
      BY <1>1, <2>1, <2>3, <3>3
  <2>4. CASE SeedFits(P, seed) /\ seed.asOf \in DOMAIN S
             /\ seed.active = S[seed.asOf]
    <3>1. seed.active = CarriedTo(seed.asOf, e, G, u)
      BY <1>1, <2>4 DEF Carried
    <3>2. Full(G, seed.asOf, seed.active)
      BY <1>1, <2>4 DEF Whole
    <3>3. QED
      BY <1>1, <1>2, <2>4, <3>1, <3>2, StartInStep
  <2>5. QED
    BY <2>2, <2>3, <2>4
<1>6. Carried(w, P[i].from) = CarriedTo(P[i].from, e, G, u)
  BY <1>1 DEF Carried
<1>7. OnCourse(w, z)
  BY <1>4, <1>5, <1>6 DEF OnCourse
<1>8. QED
  BY <1>3, <1>7

LEMMA LatestIs ==
  ASSUME CacheInv, NEW t \in Int, NEW seed, seed = GetLatestSnapshot(snaps, t)
  PROVE  seed = NoSeed \/ ( /\ seed.asOf \in DOMAIN snaps
                            /\ seed.active = snaps[seed.asOf] )
<1>1. PICK past : past = {a \in DOMAIN snaps : a <= t}
  OBVIOUS
<1>2. CASE past = {}
  BY <1>1, <1>2 DEF GetLatestSnapshot
<1>3. CASE past # {}
  <2>1. past \in SUBSET Int /\ \A a \in past : a <= t
    BY <1>1 DEF CacheInv, TypeOK
  <2>2. Max(past) \in past
    BY <1>3, <2>1, GreatestBelow
  <2>3. seed = [asOf |-> Max(past), active |-> snaps[Max(past)]]
    BY <1>1, <1>3 DEF GetLatestSnapshot
  <2>4. seed.asOf = Max(past) /\ seed.active = snaps[Max(past)]
    BY <2>3
  <2>5. QED
    BY <1>1, <2>2, <2>4
<1>4. QED
  BY <1>2, <1>3

LEMMA BeginSettled ==
  ASSUME CacheInv, SaneInv, CacheInv', SaneInv', SettledInv,
         NEW r \in Reads, read[r].pc = "seed", NEW seed,
         seed = NoSeed \/ ( /\ seed.asOf \in DOMAIN snaps
                            /\ seed.active = snaps[seed.asOf] ),
         read' = [read EXCEPT ![r] = BeginWalk(read[r], seed)],
         UNCHANGED <<now, tables, saves, orderly>>
  PROVE  SettledInv'
<1>1. PICK w, q, z : w = View /\ q = read[r] /\ z = BeginWalk(q, seed)
  OBVIOUS
<1>2. ViewTyped(w) /\ ReadKin(w, q)
  BY <1>1, ViewIsTyped DEF SettledInv
<1>3. \/ q.ent.dur = 0 /\ z = Idle
      \/ /\ q.ent.dur # 0
         /\ z.pc = "walk" /\ z.G = q.G /\ z.t = q.t /\ z.new = << >>
  <2>1. CASE q.ent.dur = 0
    BY <1>1, <2>1 DEF BeginWalk
  <2>2. CASE q.ent.dur # 0
    <3>1. PICK i, st : /\ i = StartAt(Periods(Anchor(q.ent), q.ent.dur, q.t), seed)
                       /\ st = StartState(q.G, Periods(Anchor(q.ent), q.ent.dur, q.t), seed)
      OBVIOUS
    <3>2. z = [pc |-> "walk", ent |-> q.ent, G |-> q.G, t |-> q.t,
               i |-> i, first |-> TRUE, st |-> st, new |-> << >>]
      BY <1>1, <2>2, <3>1 DEF BeginWalk
    <3>3. QED
      BY <2>2, <3>2
  <2>3. QED
    BY <2>1, <2>2
<1>4. Idle.pc = "idle"
  BY DEF Idle
<1>5. ReadKin(w, z)
  BY <1>1, <1>2, <1>3, <1>4 DEF ReadKin
<1>6. orderly => ReadOf(w, q) /\ ReadCalm(w, q) /\ Calm(w, read, saves, snaps)
  BY <1>1, ReadsOf DEF SettledInv, Calm
<1>7. orderly' => ReadCalm(w, z)
  <2>1. DOMAIN << >> = {}
    OBVIOUS
  <2>2. CASE z.pc = "idle"
    BY <2>2 DEF ReadCalm
  <2>3. CASE z.pc = "walk"
    BY <1>1, <1>3, <1>4, <1>6, <2>1, <2>3 DEF ReadCalm, Bounded
  <2>4. QED
    BY <1>3, <1>4, <2>2, <2>3
<1>8. orderly' /\ Whole(w, snaps) => ReadTrue(w, z)
  <2>1. CASE z.pc = "idle"
    BY <2>1 DEF ReadTrue
  <2>2. CASE z.pc = "walk"
    <3>1. SUFFICES ASSUME orderly, Whole(w, snaps)
                   PROVE  Truthful(w, z.new) /\ OnCourse(w, z)
      BY DEF ReadTrue
    <3>2. z.new = << >> /\ q.ent.dur # 0
      BY <1>3, <1>4, <2>2
    <3>3. DOMAIN << >> = {}
      OBVIOUS
    <3>4. Truthful(w, z.new)
      BY <3>2, <3>3 DEF Truthful
    <3>5. q.ent = w.ent /\ q.t \in Int /\ IsLedger(q.G)
      BY <1>1, <1>6, <3>1 DEF ReadOf
    <3>6. w.ent.dur > 0
      BY <1>2, <3>2, <3>5 DEF ViewTyped
    <3>7. Alike(RowsIn(w), q.G, StartIn(w, q.t))
      BY <1>1, <1>6, <3>1, <3>6 DEF ReadCalm
    <3>8. \A a \in DOMAIN snaps : snaps[a] = Carried(w, a)
      BY <1>1, <3>1 DEF SettledInv, Faithful
    <3>9. PICK S : S = snaps
      OBVIOUS
    <3>10. OnCourse(w, z)
      <4>1. Whole(w, S) /\ \A a \in DOMAIN S : S[a] = Carried(w, a)
        BY <3>1, <3>8, <3>9
      <4>2. seed = NoSeed \/ ( /\ seed.asOf \in DOMAIN S
                               /\ seed.active = S[seed.asOf] )
        BY <3>9
      <4>3. QED
        BY <1>1, <1>2, <3>5, <3>6, <3>7, <4>1, <4>2, BeginOnCourse
    <3>11. QED
      BY <3>4, <3>10
  <2>3. QED
    BY <1>3, <1>4, <2>1, <2>2
<1>9. read' = [read EXCEPT ![r] = z]
  BY <1>1
<1>10. \A s \in saves' : s \in saves
  OBVIOUS
<1>11. QED
  BY <1>1, <1>5, <1>7, <1>8, <1>9, <1>10, OwnSettled

(* A period evaluated with the ledger's usage leaves what it carries over. *)
Turning(w, q, P, no, e) ==
  /\ ReadOf(w, q) /\ q.pc = "walk"
  /\ Alike(RowsIn(w), q.G, StartIn(w, q.t)) /\ OnCourse(w, q)
  /\ P = PeriodsOf(q) /\ q.i # Len(P)
  /\ no = FALSE
  /\ e = EvalPeriod(q.G, q.ent.cap, q.st, P[q.i], q.first, no,
                    w.usage[<<P[q.i].from, P[q.i].to>>])

LEMMA EvalOnCourse ==
  ASSUME NEW w, ViewTyped(w), NEW q, NEW P, NEW no, NEW e,
         Turning(w, q, P, no, e)
  PROVE  /\ e.active = Carried(w, P[q.i + 1].from)
         /\ InStep(q.G, P[q.i + 1].from, Carried(w, P[q.i + 1].from),
                   [active |-> e.active, seen |-> e.seen], no, q.i + 1)
<1> USE DEF Turning
<1>1. PICK t, x, G, H, u, i, z, first :
        /\ t = q.t /\ x = w.ent /\ G = RowsIn(w) /\ H = q.G /\ u = w.usage
        /\ i = q.i /\ z = q.st /\ first = q.first
  OBVIOUS
<1>2. /\ q.ent = x /\ t \in Int /\ IsLedger(H) /\ w.ent.dur > 0
      /\ i \in 1 .. Len(P) /\ StartIn(w, t) <= w.now
  BY <1>1 DEF ReadOf
<1>3. P = PeriodsIn(w, t)
  BY <1>1, <1>2 DEF PeriodsOf, PeriodsIn
<1>4. Walkable(t, x, G, u, P)
  BY <1>1, <1>2, <1>3, WalkableIn
<1>5. Len(P) \in Nat \ {0} /\ DOMAIN P = 1 .. Len(P)
  BY <1>4, WalkableLen
<1>6. i < Len(P) /\ i + 1 \in 1 .. Len(P)
  BY <1>1, <1>2, <1>5
<1>7. Alike(G, H, P[i].to) /\ P[i].to = P[i + 1].from
  <2>1. PICK v : v = Walk(t, x, G, u, NoSeed)
    OBVIOUS
  <2>2. Walked(v, t, x, G, u, P)
    BY <1>4, <2>1, EachWalked
  <2>3. PICK k, b, c : k = i + 1 /\ b = P[k].from /\ c = StartIn(w, t)
    OBVIOUS
  <2>4. P[i + 1].from = P[i].to
    <3>1. k \in 1 .. Len(P) /\ k > 1 /\ k - 1 = i
      BY <1>2, <1>6, <2>3
    <3>2. P[k].from = P[k - 1].to
      BY <2>2, <3>1 DEF Walked
    <3>3. QED
      BY <2>3, <3>1, <3>2
  <2>6. k \in 1 .. Len(P)
    BY <1>6, <2>3
  <2>7. Boundary(w, b) /\ b <= c
    BY <1>2, <1>3, <2>3, <2>6, PeriodsBounded
  <2>8. b \in Int /\ c \in Int
    BY <1>2, <2>3, <2>7, StartsIn DEF Boundary
  <2>9. Alike(G, H, c) /\ IsLedger(G)
    BY <1>1, <1>4, <2>3 DEF Walkable
  <2>10. Alike(G, H, b)
    BY <1>2, <2>7, <2>8, <2>9, AlikeEarlier
  <2>11. QED
    BY <2>3, <2>4, <2>10
<1>8. InStep(H, P[i].from, CarriedTo(P[i].from, x, G, u), z, first, i)
  BY <1>1 DEF OnCourse, Carried
<1>9. e = EvalPeriod(H, x.cap, z, P[i], first, no, u[<<P[i].from, P[i].to>>])
  BY <1>1, <1>2
<1>10. PICK m, b, a, st : /\ m = i + 1 /\ b = P[m].from
                          /\ a = CarriedTo(b, x, G, u)
                          /\ st = [active |-> e.active, seen |-> e.seen]
  OBVIOUS
<1>11. InStep(H, b, a, st, no, m)
  BY <1>2, <1>4, <1>6, <1>7, <1>8, <1>9, <1>10, EvalInStep
<1>12. e.active = a
  BY <1>10, <1>11 DEF InStep
<1>13. a = Carried(w, b)
  BY <1>1, <1>10 DEF Carried
<1>14. QED
  BY <1>1, <1>10, <1>11, <1>12, <1>13

(* A sequence of snapshots, grown by one.                                  *)
LEMMA GrownBounded ==
  ASSUME NEW w, NEW s, IsSnaps(s), NEW x, NEW a \in Int, NEW active,
         x = [asOf |-> a, active |-> active]
  PROVE  /\ Bounded(w, s) /\ Boundary(w, a) => Bounded(w, Append(s, x))
         /\ Truthful(w, s) /\ active = Carried(w, a)
              => Truthful(w, Append(s, x))
<1>1. PICK u : u = Append(s, x)
  OBVIOUS
<1>2. /\ Len(s) \in Nat /\ DOMAIN s = 1 .. Len(s)
      /\ DOMAIN u = 1 .. Len(s) + 1 /\ u[Len(s) + 1] = x
      /\ \A k \in 1 .. Len(s) : u[k] = s[k]
  BY <1>1, OneMore
<1>3. x.asOf = a /\ x.active = active
  OBVIOUS
<1>4. \A k \in DOMAIN u : u[k] = x \/ (k \in DOMAIN s /\ u[k] = s[k])
  BY <1>2
<1>5. Bounded(w, s) /\ Boundary(w, a) => Bounded(w, u)
  BY <1>3, <1>4 DEF Bounded
<1>6. Truthful(w, s) /\ active = Carried(w, a) => Truthful(w, u)
  BY <1>3, <1>4 DEF Truthful
<1>7. QED
  BY <1>1, <1>5, <1>6

LEMMA EvaluateSettled ==
  ASSUME CacheInv, SaneInv, CacheInv', SaneInv', SettledInv,
         NEW r \in Reads, read[r].pc = "walk", NEW usage, Evaluate(r, usage),
         UNCHANGED <<now, tables>>, orderly' => orderly,
         NEW P, P = PeriodsOf(read[r]), NEW i, i = read[r].i,
         orderly' /\ i # Len(P) => usage = View.usage[<<P[i].from, P[i].to>>]
  PROVE  SettledInv'
<1>1. PICK w, q, no : w = View /\ q = read[r] /\ no = FALSE
  OBVIOUS
<1>2. ViewTyped(w) /\ ReadKin(w, q)
  BY <1>1, ViewIsTyped DEF SettledInv
<1>3. orderly => ReadOf(w, q) /\ ReadCalm(w, q)
  BY <1>1, ReadsOf DEF SettledInv, Calm
<1>4. orderly /\ Whole(w, snaps) => ReadTrue(w, q)
  BY <1>1 DEF SettledInv, Faithful
<1>5. P = Periods(Anchor(q.ent), q.ent.dur, q.t) /\ i = q.i
  BY <1>1 DEF PeriodsOf
<1>6. CASE i = Len(P)
  <2>1. read' = [read EXCEPT ![r] = Idle] /\ saves' = Launch(q.new)
    <3>1. read[r].i = Len(Periods(Anchor(read[r].ent), read[r].ent.dur, read[r].t))
      BY <1>1, <1>5, <1>6
    <3>2. QED
      BY <1>1, <3>1, Zenon DEF Evaluate
  <2>2. Idle.pc = "idle"
    BY DEF Idle
  <2>3. ReadKin(w, Idle) /\ ReadCalm(w, Idle) /\ ReadTrue(w, Idle)
    BY <2>2 DEF ReadKin, ReadCalm, ReadTrue
  <2>4. \A s \in saves' : s \in saves \/ s = q.new
    BY <2>1 DEF Launch
  <2>5. orderly => Bounded(w, q.new)
    BY <1>1, <1>3 DEF ReadCalm
  <2>6. orderly /\ Whole(w, snaps) => Truthful(w, q.new)
    BY <1>1, <1>4 DEF ReadTrue
  <2>7. \A s \in saves' : s \in saves \/
          /\ orderly' => Bounded(w, s)
          /\ orderly' /\ Whole(w, snaps) => Truthful(w, s)
    BY <2>4, <2>5, <2>6
  <2>8. QED
    BY <1>1, <2>1, <2>3, <2>7, OwnSettled
<1>7. CASE i # Len(P)
  <2>1. PICK e : e = EvalPeriod(q.G, q.ent.cap, q.st, P[i], q.first, no, usage)
    OBVIOUS
  <2>2. PICK x, y, new, b : /\ x = [asOf |-> P[i].to, active |-> e.active]
                            /\ y = [active |-> e.active, seen |-> e.seen]
                            /\ new = q.new /\ b = P[i].to
    OBVIOUS
  <2>3. PICK z : z = [q EXCEPT !.i = @ + 1, !.first = FALSE,
                               !.new = Append(new, x), !.st = y]
    OBVIOUS
  <2>4. read' = [read EXCEPT ![r] = z] /\ saves' = saves
    <3>1. PICK last : last = (q.i = Len(P))
      OBVIOUS
    <3>2. last = FALSE
      BY <1>5, <1>7, <3>1
    <3>3. (q.i = Len(P)) = FALSE /\ no = FALSE
      BY <1>1, <3>1, <3>2
    <3>4. e = EvalPeriod(q.G, q.ent.cap, q.st, P[q.i], q.first, q.i = Len(P),
                         usage)
      BY <1>5, <2>1, <3>3, Zenon
    <3>5. z = [q EXCEPT !.i = @ + 1, !.first = FALSE,
                 !.new = Append(q.new,
                           [asOf |-> P[q.i].to, active |-> e.active]),
                 !.st = [active |-> e.active, seen |-> e.seen]]
      BY <1>5, <2>2, <2>3, Zenon
    <3>6. ~(q.i = Len(P))
      BY <1>5, <1>7
    <3>7. QED
      BY <1>1, <1>5, <3>4, <3>5, <3>6, Zenon DEF Evaluate
  <2>5. /\ z.pc = "walk" /\ z.ent = q.ent /\ z.t = q.t /\ z.G = q.G
        /\ z.i = i + 1 /\ z.first = no /\ z.new = Append(new, x) /\ z.st = y
    <3>1. q.pc = "walk" /\ q.i = i
      BY <1>1, <1>5
    <3>2. /\ z.pc = "walk" /\ z.ent = q.ent /\ z.t = q.t /\ z.G = q.G
          /\ z.i = q.i + 1 /\ z.new = Append(new, x) /\ z.st = y
      BY <2>3, <3>1
    <3>3. z.first = FALSE
      BY <2>3, <3>1
    <3>4. z.first = no
      BY <1>1, <3>3, Zenon
    <3>5. QED
      BY <3>1, <3>2, <3>4
  <2>6. ReadKin(w, z)
    BY <1>1, <1>2, <2>5 DEF ReadKin
  <2>7. PeriodsOf(z) = P
    BY <1>5, <2>5 DEF PeriodsOf
  <2>8. IsSnaps(new) /\ x = [asOf |-> b, active |-> e.active]
    BY <1>1, <2>2, ReadFacts DEF ReadInv
  <2>9. ASSUME orderly
        PROVE  /\ Boundary(w, b) /\ b \in Int /\ P[i + 1].from = b
               /\ w.ent.dur > 0
               /\ Alike(RowsIn(w), q.G, StartIn(w, q.t))
    <3>1. PICK t, v : t = q.t /\ v = Walk(q.t, w.ent, RowsIn(w), w.usage, NoSeed)
      OBVIOUS
    <3>2. /\ q.ent = w.ent /\ t \in Int /\ w.ent.dur > 0
          /\ i \in 1 .. Len(P) /\ StartIn(w, t) <= w.now
      BY <1>1, <1>3, <1>5, <2>9, <3>1 DEF ReadOf
    <3>3. P = PeriodsIn(w, t)
      BY <1>5, <3>1, <3>2 DEF PeriodsIn
    <3>4. Walkable(t, w.ent, RowsIn(w), w.usage, P)
      BY <1>2, <3>2, <3>3, WalkableIn
    <3>5. Walked(v, t, w.ent, RowsIn(w), w.usage, P)
      BY <3>1, <3>4, EachWalked
    <3>6. PICK k : k = i + 1
      OBVIOUS
    <3>7. k \in 1 .. Len(P) /\ k > 1 /\ k - 1 = i
      <4>1. Len(P) \in Nat
        BY <3>5 DEF Walked
      <4>2. QED
        BY <1>7, <3>2, <3>6, <4>1
    <3>8. P[k].from = P[k - 1].to
      BY <3>5, <3>7 DEF Walked
    <3>9. Boundary(w, P[k].from)
      BY <1>2, <3>2, <3>3, <3>7, PeriodsBounded
    <3>10. Alike(RowsIn(w), q.G, StartIn(w, q.t))
      BY <1>1, <1>3, <2>9, <3>2 DEF ReadCalm
    <3>11. QED
      BY <2>2, <3>2, <3>6, <3>7, <3>8, <3>9, <3>10 DEF Boundary
  <2>10. orderly' => ReadCalm(w, z)
    <3>1. SUFFICES ASSUME orderly' PROVE ReadCalm(w, z)
      OBVIOUS
    <3>2. Bounded(w, new)
      BY <1>1, <1>3, <2>2, <3>1 DEF ReadCalm
    <3>3. Bounded(w, Append(new, x))
      BY <2>8, <2>9, <3>1, <3>2, GrownBounded
    <3>4. QED
      BY <2>5, <2>9, <3>1, <3>3 DEF ReadCalm
  <2>11. orderly' /\ Whole(w, snaps) => ReadTrue(w, z)
    <3>1. SUFFICES ASSUME orderly', Whole(w, snaps)
                   PROVE  Truthful(w, z.new) /\ OnCourse(w, z)
      BY DEF ReadTrue
    <3>2. Truthful(w, new) /\ OnCourse(w, q) /\ ReadOf(w, q)
      BY <1>1, <1>3, <1>4, <2>2, <3>1 DEF ReadTrue
    <3>3. usage = w.usage[<<P[i].from, P[i].to>>]
      BY <1>1, <1>7, <3>1
    <3>4. e = EvalPeriod(q.G, q.ent.cap, q.st, P[q.i], q.first, no,
                         w.usage[<<P[q.i].from, P[q.i].to>>])
      BY <1>5, <2>1, <3>3
    <3>5. /\ e.active = Carried(w, P[q.i + 1].from)
          /\ InStep(q.G, P[q.i + 1].from, Carried(w, P[q.i + 1].from),
                    [active |-> e.active, seen |-> e.seen], no, q.i + 1)
      <4>1. P = PeriodsOf(q) /\ q.i # Len(P) /\ q.pc = "walk"
        BY <1>1, <1>5, <1>7
      <4>2. Alike(RowsIn(w), q.G, StartIn(w, q.t)) /\ no = FALSE
        BY <1>1, <2>9, <3>1
      <4>3. Turning(w, q, P, no, e)
        BY <3>2, <3>4, <4>1, <4>2, Zenon DEF Turning
      <4>4. QED
        BY <1>2, <4>3, EvalOnCourse
    <3>6. Truthful(w, Append(new, x))
      <4>1. e.active = Carried(w, b) /\ b \in Int
        BY <1>5, <2>9, <3>1, <3>5
      <4>2. QED
        BY <2>8, <3>2, <4>1, GrownBounded
    <3>7. OnCourse(w, z)
      <4>1. PICK a, c : a = i + 1 /\ c = Carried(w, P[a].from)
        OBVIOUS
      <4>2. InStep(q.G, P[a].from, c, y, no, a)
        BY <1>5, <2>2, <3>5, <4>1
      <4>3. z.i = a /\ z.G = q.G /\ z.st = y /\ z.first = no
        BY <2>5, <4>1
      <4>4. QED
        BY <2>7, <4>1, <4>2, <4>3 DEF OnCourse
    <3>8. QED
      BY <2>5, <3>6, <3>7
  <2>12. \A s \in saves' : s \in saves
    BY <2>4
  <2>13. QED
    BY <1>1, <2>4, <2>6, <2>10, <2>11, <2>12, OwnSettled
<1>8. QED
  BY <1>6, <1>7

LEMMA ReadSettled ==
  ASSUME CacheInv, SaneInv, CacheInv', SaneInv', SettledInv,
         NEW r \in Reads, ReadStep(r)
  PROVE  SettledInv'
<1>0. Idle.pc = "idle"
  BY DEF Idle
<1>1. CASE \E at \in AskInputs \cup {None} : ReadBegin(r, at)
  <2>1. PICK at : ReadBegin(r, at)
    BY <1>1
  <2>2. PICK q : q = [pc |-> "grants", ent |-> ent, at |-> at]
    OBVIOUS
  <2>3. /\ read' = [read EXCEPT ![r] = q] /\ UNCHANGED <<now, tables, saves>>
    BY <2>1, <2>2 DEF ReadBegin
  <2>4. orderly' => orderly
    <3>1. orderly' = (orderly /\ (at = None \/ ~Ahead(at)))
      BY <2>1 DEF ReadBegin, Orderly
    <3>2. QED
      BY <3>1, Zenon
  <2>5. ReadKin(View, q) /\ ReadCalm(View, q) /\ ReadTrue(View, q)
    BY <2>2, ReadQuiet DEF ReadKin
  <2>6. QED
    BY <2>3, <2>4, <2>5, OwnSettled
<1>2. CASE ReadGrants(r)
  <2>1. PICK q : q = [pc |-> "time", ent |-> read[r].ent, at |-> read[r].at,
                      G |-> ListActiveGrants(grants)]
    OBVIOUS
  <2>2. /\ read' = [read EXCEPT ![r] = q]
        /\ UNCHANGED <<now, tables, saves, orderly>>
    BY <1>2, <2>1 DEF ReadGrants
  <2>3. q.G = RowsIn(View) /\ q.pc = "time"
    BY <2>1, ThisView DEF RowsIn
  <2>4. ReadKin(View, q) /\ ReadCalm(View, q) /\ ReadTrue(View, q)
    BY <2>3, ReadQuiet, RowsKin, ViewIsTyped DEF ReadKin
  <2>5. QED
    BY <2>2, <2>4, OwnSettled
<1>3. CASE ReadTime(r)
  BY <1>3, TimeSettled
<1>4. CASE ReadSeed(r)
  <2>1. PICK seed : seed = GetLatestSnapshot(snaps, read[r].t)
    OBVIOUS
  <2>2. /\ read[r].pc = "seed"
        /\ read' = [read EXCEPT ![r] = BeginWalk(read[r], seed)]
        /\ UNCHANGED <<now, tables, saves, orderly>>
    BY <1>4, <2>1 DEF ReadSeed
  <2>3. read[r].t \in Int
    BY <2>2, ReadFacts DEF ReadInv
  <2>4. seed = NoSeed \/ ( /\ seed.asOf \in DOMAIN snaps
                           /\ seed.active = snaps[seed.asOf] )
    BY <2>1, <2>3, LatestIs
  <2>5. QED
    BY <2>2, <2>4, BeginSettled
<1>5. CASE ReadSeedFails(r)
  BY <1>5, BeginSettled DEF ReadSeedFails
<1>6. CASE ReadPeriod(r)
  <2>1. PICK q, P, i, usage :
          /\ q = read[r] /\ P = PeriodsOf(q) /\ i = q.i
          /\ usage = FetchUsage(meter, events, P[i].from,
                                IF i = Len(P) THEN q.t ELSE P[i].to)
    OBVIOUS
  <2>2. /\ q.pc = "walk" /\ Evaluate(r, usage)
        /\ UNCHANGED <<now, tables, orderly>>
    BY <1>6, <2>1, Zenon DEF ReadPeriod, PeriodsOf
  <2>3. i # Len(P) => usage = View.usage[<<P[i].from, P[i].to>>]
    <3>1. /\ q.ent \in EntRows /\ q.ent.dur > 0 /\ q.t \in Time
          /\ i \in 1 .. Len(P)
      BY <2>1, <2>2, ReadFacts DEF ReadInv
    <3>2. P[i].from \in Int /\ P[i].to \in Int
      <4>1. P = Periods(Anchor(q.ent), q.ent.dur, q.t)
        BY <2>1 DEF PeriodsOf
      <4>2. PICK e, t : e = q.ent /\ t = q.t
        OBVIOUS
      <4>3. QED
        BY <3>1, <4>1, <4>2, ReadPeriodsTyped
    <3>3. View.usage[<<P[i].from, P[i].to>>]
            = FetchUsage(meter, events, P[i].from, P[i].to)
      BY <3>2, ThisView DEF UsageIn
    <3>4. QED
      BY <2>1, <3>3
  <2>4. QED
    BY <2>1, <2>2, <2>3, EvaluateSettled
<1>7. CASE ReadPeriodFails(r)
  <2>1. PICK q, P, i, u : /\ q = read[r] /\ P = PeriodsOf(q) /\ i = q.i
                          /\ u = 0
    OBVIOUS
  <2>2. /\ q.pc = "walk" /\ Evaluate(r, u) /\ UNCHANGED <<now, tables>>
        /\ orderly' = (orderly /\ read'[r].pc = "idle")
    BY <1>7, <2>1, Zenon DEF ReadPeriodFails, Orderly
  <2>3. orderly' => orderly /\ read'[r].pc = "idle"
    BY <2>2, Zenon
  <2>4. i # Len(P) => read'[r].pc = "walk"
    <3>1. SUFFICES ASSUME i # Len(P) PROVE read'[r].pc = "walk"
      OBVIOUS
    <3>2. PICK e : e = EvalPeriod(q.G, q.ent.cap, q.st, P[q.i], q.first,
                                  q.i = Len(P), u)
      OBVIOUS
    <3>3. PICK z : z = [q EXCEPT !.i = @ + 1, !.first = FALSE,
                          !.new = Append(q.new,
                                    [asOf |-> P[q.i].to, active |-> e.active]),
                          !.st = [active |-> e.active, seen |-> e.seen]]
      OBVIOUS
    <3>4. read' = [read EXCEPT ![r] = z]
      <4>1. P = Periods(Anchor(q.ent), q.ent.dur, q.t) /\ ~(q.i = Len(P))
        BY <2>1, <3>1 DEF PeriodsOf
      <4>2. QED
        BY <2>1, <2>2, <3>2, <3>3, <4>1, Zenon DEF Evaluate
    <3>5. z.pc = q.pc
      BY <3>3
    <3>6. read'[r] = z
      BY <3>4, SaneFacts
    <3>7. QED
      BY <2>2, <3>5, <3>6
  <2>5. orderly' => i = Len(P)
    BY <2>3, <2>4
  <2>6. QED
    BY <2>1, <2>2, <2>3, <2>5, EvaluateSettled
<1>8. CASE ReadFails(r)
  <2>1. /\ read' = [read EXCEPT ![r] = Idle]
        /\ UNCHANGED <<now, tables, saves, orderly>>
    BY <1>8 DEF ReadFails
  <2>2. ReadKin(View, Idle) /\ ReadCalm(View, Idle) /\ ReadTrue(View, Idle)
    BY <1>0, ReadQuiet DEF ReadKin
  <2>3. QED
    BY <2>1, <2>2, OwnSettled
<1>9. QED
  BY <1>1, <1>2, <1>3, <1>4, <1>5, <1>6, <1>7, <1>8 DEF ReadStep

LEMMA TailBounded ==
  ASSUME NEW s, IsSnaps(s), s # << >>, NEW w
  PROVE  /\ Bounded(w, s) => Bounded(w, Tail(s)) /\ Boundary(w, Head(s).asOf)
         /\ Truthful(w, s) => /\ Truthful(w, Tail(s))
                              /\ Head(s).active = Carried(w, Head(s).asOf)
<1>1. PICK S : s \in Seq([asOf : Int, active : S])
  BY DEF IsSnaps
<1> DEFINE R == [asOf : Int, active : S]
<1>2. PICK u, x : u = Tail(s) /\ x = Head(s)
  OBVIOUS
<1>3. Len(s) \in Nat \ {0} /\ DOMAIN s = 1 .. Len(s)
  BY <1>1, LenProperties, EmptySeq
<1>4. /\ u \in Seq(R) /\ Len(u) = Len(s) - 1
      /\ \A i \in 1 .. Len(u) : u[i] = s[i + 1]
  BY <1>1, <1>2, HeadTailProperties
<1>5. DOMAIN u = 1 .. Len(u)
  BY <1>4, LenProperties
<1>6. x = s[1] /\ 1 \in DOMAIN s
  BY <1>1, <1>2, <1>3
<1>7. \A i \in DOMAIN u : i + 1 \in DOMAIN s /\ u[i] = s[i + 1]
  BY <1>3, <1>4, <1>5
<1>8. Bounded(w, s) => Bounded(w, u) /\ Boundary(w, x.asOf)
  BY <1>6, <1>7 DEF Bounded
<1>9. Truthful(w, s) => Truthful(w, u) /\ x.active = Carried(w, x.asOf)
  BY <1>6, <1>7 DEF Truthful
<1>10. QED
  BY <1>2, <1>8, <1>9

LEMMA SaveSettled ==
  ASSUME CacheInv, SaneInv, SettledInv,
         NEW s \in saves, SaveSnapshot(s) \/ SaveFails(s)
  PROVE  SettledInv'
<1>1. PICK w, key, row : /\ w = View /\ key = Head(s).asOf
                         /\ row = Head(s).active
  OBVIOUS
<1>2. /\ UNCHANGED <<now, grants, events, ent, meter, read, orderly>>
      /\ saves' \subseteq saves \cup {Tail(s)}
      /\ \/ snaps' = snaps
         \/ key \notin DOMAIN snaps /\ snaps' = Insert(snaps, key, row)
  BY <1>1 DEF SaveSnapshot, SaveFails, tables
<1>3. View' = w
  BY <1>1, <1>2 DEF View, UsageIn
<1>4. IsSnaps(s) /\ s # << >>
  BY DEF CacheInv, TypeOK
<1>5. /\ \A a \in DOMAIN snaps : a \in DOMAIN snaps' /\ snaps'[a] = snaps[a]
      /\ \A a \in DOMAIN snaps' : \/ a \in DOMAIN snaps
                                  \/ a = key /\ snaps'[a] = row
  BY <1>2 DEF Insert
<1>6. \A r \in Reads : ReadKin(w, read'[r])
  BY <1>1, <1>2 DEF SettledInv
<1>7. ASSUME orderly' PROVE Calm(w, read', saves', snaps')
  <2>1. Calm(w, read, saves, snaps)
    BY <1>1, <1>2, <1>7 DEF SettledInv
  <2>2. Bounded(w, s)
    BY <2>1 DEF Calm
  <2>3. Bounded(w, Tail(s)) /\ Boundary(w, key)
    BY <1>1, <1>4, <2>2, TailBounded
  <2>4. \A z \in saves' : Bounded(w, z)
    BY <1>2, <2>1, <2>3 DEF Calm
  <2>5. \A a \in DOMAIN snaps' : Boundary(w, a)
    BY <1>5, <2>1, <2>3 DEF Calm
  <2>6. \A r \in Reads : ReadCalm(w, read'[r])
    BY <1>2, <2>1 DEF Calm
  <2>7. QED
    BY <2>4, <2>5, <2>6 DEF Calm
<1>8. ASSUME orderly', Whole(w, snaps')
      PROVE  Faithful(w, read', saves', snaps')
  <2>1. Whole(w, snaps)
    BY <1>5, <1>8 DEF Whole
  <2>2. Faithful(w, read, saves, snaps)
    BY <1>1, <1>2, <1>8, <2>1 DEF SettledInv
  <2>3. Truthful(w, s)
    BY <2>2 DEF Faithful
  <2>4. Truthful(w, Tail(s)) /\ row = Carried(w, key)
    BY <1>1, <1>4, <2>3, TailBounded
  <2>5. \A z \in saves' : Truthful(w, z)
    BY <1>2, <2>2, <2>4 DEF Faithful
  <2>6. \A a \in DOMAIN snaps' : snaps'[a] = Carried(w, a)
    BY <1>5, <2>2, <2>4 DEF Faithful
  <2>7. \A r \in Reads : ReadTrue(w, read'[r])
    BY <1>2, <2>2 DEF Faithful
  <2>8. QED
    BY <2>5, <2>6, <2>7 DEF Faithful
<1>9. QED
  BY <1>3, <1>6, <1>7, <1>8 DEF SettledInv

LEMMA SettledInit == Init => SettledInv
<1> SUFFICES ASSUME Init PROVE SettledInv
  OBVIOUS
<1>1. /\ DOMAIN snaps = {} /\ saves = {} /\ \A r \in Reads : read[r] = Idle
  BY DEF Init
<1>2. Idle.pc = "idle"
  BY DEF Idle
<1>3. PICK w : w = View
  OBVIOUS
<1>4. /\ \A r \in Reads : /\ ReadKin(w, read[r]) /\ ReadCalm(w, read[r])
                          /\ ReadTrue(w, read[r])
  BY <1>1, <1>2 DEF ReadKin, ReadCalm, ReadTrue
<1>5. Calm(w, read, saves, snaps) /\ Faithful(w, read, saves, snaps)
  BY <1>1, <1>4 DEF Calm, Faithful
<1>6. QED
  BY <1>3, <1>4, <1>5 DEF SettledInv

LEMMA SettledStep ==
  CacheInv /\ SaneInv /\ SettledInv /\ [Next]_vars /\ CacheInv' /\ SaneInv'
    => SettledInv'
<1>1. SUFFICES ASSUME CacheInv, SaneInv, SettledInv, [Next]_vars,
                      CacheInv', SaneInv'
               PROVE  SettledInv'
  OBVIOUS
<1>2. CASE Tick \/ UNCHANGED vars
  <2>1. UNCHANGED <<tables, read, saves, orderly>>
    BY <1>2 DEF Tick, vars
  <2>2. now \in Int
    BY <1>1 DEF CacheInv, TypeOK, Time
  <2>3. now <= now'
    BY <1>2, <2>2 DEF Tick, vars
  <2>4. QED
    BY <1>1, <2>1, <2>3, TickSettled
<1>3. CASE WriteStep
  BY <1>1, <1>3, WriteSettled
<1>4. CASE \E r \in Reads : ReadStep(r)
  BY <1>1, <1>4, ReadSettled
<1>5. CASE \E s \in saves : SaveSnapshot(s) \/ SaveFails(s)
  BY <1>1, <1>5, SaveSettled
<1>6. QED
  BY <1>1, <1>2, <1>3, <1>4, <1>5 DEF Next

LEMMA SettledAlways == Spec => [](CacheInv /\ SaneInv /\ SettledInv)
BY CacheInit, CacheStep, SaneInit, SaneStep, SettledInit, SettledStep, PTL
DEF Spec

(* A snapshot of a boundary that holds what the ledger carries over it.    *)
LEMMA CarriedIsAccurate ==
  ASSUME NEW w, w = View, NEW seed, Boundary(w, seed.asOf),
         seed.active = Carried(w, seed.asOf)
  PROVE  Accurate(seed)
<1>1. PICK a, P : a = seed.asOf /\ P = PeriodsTo(a)
  OBVIOUS
<1>2. w.ent = ent /\ w.usage = UsageIn(events) /\ w.grants = grants
  BY ThisView
<1>3. P[Len(P)].from = a
  BY <1>1, <1>2 DEF Boundary, StartIn, LastFrom, PeriodsTo
<1>4. Carried(w, a) = WalkTo(a)[Len(P) - 1].active
  BY <1>1, <1>2 DEF Carried, CarriedTo, WalkTo, PeriodsTo, RowsIn
<1>5. QED
  BY <1>1, <1>3, <1>4 DEF Accurate

LEMMA CompleteIsFull ==
  ASSUME NEW a \in DOMAIN snaps, Complete(SnapshotAt(a))
  PROVE  Full(RowsIn(View), a, snaps[a])
<1>1. PICK G, s : G = ListActiveGrants(grants) /\ s = SnapshotAt(a)
  OBVIOUS
<1>2. s.asOf = a /\ s.active = snaps[a]
  BY <1>1 DEF SnapshotAt
<1>3. RowsIn(View) = G
  BY <1>1, ThisView DEF RowsIn
<1>4. \A g \in DOMAIN G : G[g] = grants[g]
  BY <1>1 DEF ListActiveGrants, Restrict
<1>5. \A g \in DOMAIN G :
        grants[g].effective < s.asOf /\ ~Expired(grants[g], s.asOf)
          => g \in Ids(s.active)
  BY <1>1 DEF Complete
<1>6. Full(G, a, snaps[a])
  BY <1>2, <1>4, <1>5 DEF Full
<1>7. QED
  BY <1>3, <1>6

(* While closed periods are left alone, and no snapshot dropped a grant as *)
(* spent, every snapshot that GetEntitlementValue takes or saves is what   *)
(* the ledger itself carries over that boundary, however calls interleave, *)
(* whichever snapshots or none they begin from, and whichever saves fail.  *)
THEOREM CacheAccurate == Spec => []SnapshotsAccurate
<1>1. CacheInv /\ SaneInv /\ SettledInv => SnapshotsAccurate
  <2>1. SUFFICES ASSUME SettledInv, orderly,
                        \A a \in DOMAIN snaps : Complete(SnapshotAt(a))
                 PROVE  /\ \A a \in DOMAIN snaps : Accurate(SnapshotAt(a))
                        /\ \A s \in saves : \A i \in DOMAIN s : Accurate(s[i])
    BY DEF SnapshotsAccurate
  <2>2. PICK w : w = View
    OBVIOUS
  <2>3. Whole(w, snaps)
    BY <2>1, <2>2, CompleteIsFull DEF Whole
  <2>4. Calm(w, read, saves, snaps) /\ Faithful(w, read, saves, snaps)
    BY <2>1, <2>2, <2>3 DEF SettledInv
  <2>5. ASSUME NEW a \in DOMAIN snaps PROVE Accurate(SnapshotAt(a))
    <3>1. PICK x : x = SnapshotAt(a)
      OBVIOUS
    <3>2. x.asOf = a /\ x.active = snaps[a]
      BY <3>1 DEF SnapshotAt
    <3>3. Boundary(w, a) /\ snaps[a] = Carried(w, a)
      BY <2>4 DEF Calm, Faithful
    <3>4. Accurate(x)
      BY <2>2, <3>2, <3>3, CarriedIsAccurate
    <3>5. QED
      BY <3>1, <3>4
  <2>6. ASSUME NEW s \in saves, NEW i \in DOMAIN s PROVE Accurate(s[i])
    <3>1. PICK x : x = s[i]
      OBVIOUS
    <3>2. Bounded(w, s) /\ Truthful(w, s)
      BY <2>4 DEF Calm, Faithful
    <3>3. Boundary(w, x.asOf) /\ x.active = Carried(w, x.asOf)
      BY <3>1, <3>2 DEF Bounded, Truthful
    <3>4. Accurate(x)
      BY <2>2, <3>3, CarriedIsAccurate
    <3>5. QED
      BY <3>1, <3>4
  <2>7. QED
    BY <2>5, <2>6
<1>2. QED
  BY <1>1, SettledAlways, PTL

=============================================================================

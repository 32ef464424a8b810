------------------------------ MODULE Balances ------------------------------
(***************************************************************************)
(* Balance reads in metery: service/entitlement.go's GetEntitlementValue,  *)
(* query by query, over the tables grants, usage_events and                *)
(* balance_snapshots of one metered entitlement, with the handlers that    *)
(* write those tables.  A read leaves behind a goroutine that saves the    *)
(* snapshots it took; it runs when it likes, or never.                     *)
(***************************************************************************)
EXTENDS Ledger

CONSTANTS
  GrantIds,    \* 1 .. n: pool of grant ids, taken in order
  EventIds,    \* the idempotency keys clients use
  Reads,       \* concurrent GetEntitlementValue calls
  Durations,   \* usage period lengths of entitlements; 0 is none
  Caps,        \* their rollover_max; None is an absent one
  Aggregations, \* of their meters
  MaxTime,     \* the clock stops here
  AtInputs,    \* timestamps clients write: time, effective_at, a reset's at
  AskInputs,   \* times clients ask about, besides now
  Amounts, Priorities, Values, \* what clients put into grants and events
  Lifetimes,   \* expiration durations; None is an absent one
  MaxCalls     \* bound on the API calls

Time == 0 .. MaxTime

ASSUME BalanceAssumption ==
  /\ MaxTime \in Nat /\ MaxCalls \in Nat /\ AtInputs \cup AskInputs \subseteq Time
  /\ GrantIds = 1 .. Cardinality(GrantIds)
  /\ Durations \subseteq Nat /\ Caps \subseteq Nat \cup {None}
  /\ Amounts \subseteq Nat \ {0} /\ Priorities \subseteq Nat
  /\ Values \subseteq Nat /\ Lifetimes \subseteq Nat \cup {None}
  /\ Aggregations \subseteq
       {"sum", "count", "unique_count", "max", "min", "avg"}

VARIABLES
  now,    \* the server's clock
  grants, \* table grants: id -> row
  events, \* table usage_events: id -> [time, value]
  ent,    \* the entitlement's row: [created, anchor, dur, cap]
  meter,  \* the meter's aggregation
  snaps,  \* table balance_snapshots: as_of -> active
  read,   \* read[r]: what call r has read and computed so far
  saves,  \* the goroutines at large: the snapshots each has left to save
  calls,  \* API calls so far; no code reads it
  orderly \* whether closed periods were left alone; no code reads it

tables == <<grants, events, ent, meter, snaps>>
vars == <<now, tables, read, saves, calls, orderly>>

Idle == [pc |-> "idle"]

Init ==
  /\ now = 0
  /\ grants = << >> /\ events = << >> /\ snaps = << >>
  /\ ent \in [created : {0}, anchor : {None}, dur : Durations, cap : Caps]
  /\ meter \in Aggregations
  /\ read = [r \in Reads |-> Idle]
  /\ saves = {}
  /\ calls = 0
  /\ orderly = TRUE

Call == calls < MaxCalls /\ calls' = calls + 1

(* A table with a row under a new key.                                     *)
Insert(table, key, row) ==
  [k \in DOMAIN table \cup {key} |-> IF k = key THEN row ELSE table[k]]

----------------------------------------------------------------------------
(* Queries.                                                                *)

(* Slip: the window is closed at its end.                                  *)
FetchUsage_Closed(agg, E, from, to) ==
  LET in == {i \in DOMAIN E : from <= E[i].time /\ E[i].time <= to}
  IN  SumFunctionOnSet([i \in DOMAIN E |-> E[i].value], in)

(* The meter's aggregate over the half-open window [from, to).             *)
FetchUsage(agg, E, from, to) ==
  LET in == {i \in DOMAIN E : from <= E[i].time /\ E[i].time < to}
      values == {E[i].value : i \in in}
      sum == SumFunctionOnSet([i \in DOMAIN E |-> E[i].value], in)
  IN  IF in = {} THEN 0
      ELSE CASE agg = "sum" -> sum
             [] agg = "count" -> Cardinality(in)
             [] agg = "unique_count" -> Cardinality(values)
             [] agg = "max" -> Max(values)
             [] agg = "min" -> Min(values)
             [] agg = "avg" -> sum \div Cardinality(in)

(* ListActiveGrants: the rows that are not voided, whenever effective.     *)
ListActiveGrants(G) == Restrict(G, {g \in DOMAIN G : ~G[g].voided})

(* GetLatestSnapshot: the newest at or before t.                           *)
GetLatestSnapshot(S, t) ==
  LET past == {a \in DOMAIN S : a <= t}
  IN  IF past = {} THEN NoSeed
      ELSE [asOf |-> Max(past), active |-> S[Max(past)]]

----------------------------------------------------------------------------
(* What disturbs the order.  A period is closed once the clock is past it; *)
(* what is dated before the current one reaches into a closed period.      *)
PeriodStart(t) ==
  LET P == Periods(Anchor(ent), ent.dur, t) IN P[Len(P)].from

Closed(t) == ent.dur > 0 /\ t < PeriodStart(now)
Ahead(t) == ent.dur > 0 /\ now < PeriodStart(t)

Orderly(as) == orderly' = (orderly /\ as)

----------------------------------------------------------------------------
(* Handlers that write.                                                    *)

(* ON CONFLICT(id) DO NOTHING: the first event under a key stays.          *)
IngestEvent(i, t, v) ==
  /\ events' = IF i \in DOMAIN events THEN events
               ELSE Insert(events, i, [time |-> t, value |-> v])
  /\ Call
  /\ Orderly(i \in DOMAIN events \/ ~Closed(t))
  /\ UNCHANGED <<now, grants, ent, meter, snaps, read, saves>>

CreateGrant(amount, priority, t, life) ==
  LET g == Cardinality(DOMAIN grants) + 1
      row == [amount |-> amount, priority |-> priority, effective |-> t,
              expires |-> IF life = None THEN None ELSE t + life,
              voided |-> FALSE]
  IN  /\ g \in GrantIds
      /\ grants' = Insert(grants, g, row)
      /\ Call
      /\ Orderly(~Closed(t))
      /\ UNCHANGED <<now, events, ent, meter, snaps, read, saves>>

VoidGrant(g) ==
  /\ ~grants[g].voided
  /\ grants' = [grants EXCEPT ![g].voided = TRUE]
  /\ Call
  /\ Orderly(~Closed(grants[g].effective))
  /\ UNCHANGED <<now, events, ent, meter, snaps, read, saves>>

ResetEntitlement(at) ==
  /\ ent' = [ent EXCEPT !.anchor = at]
  /\ Call
  /\ Orderly(FALSE)
  /\ UNCHANGED <<now, grants, events, meter, snaps, read, saves>>

----------------------------------------------------------------------------
(* GetEntitlementValue.                                                    *)

(* GetEntitlement: the handler keeps its copy of the row.                  *)
ReadBegin(r, at) ==
  /\ read[r].pc = "idle"
  /\ read' = [read EXCEPT ![r] =
       [pc |-> "grants", ent |-> ent, at |-> at]]
  /\ Call
  /\ Orderly(at = None \/ ~Ahead(at))
  /\ UNCHANGED <<now, tables, saves>>

ReadGrants(r) ==
  /\ read[r].pc = "grants"
  /\ read' = [read EXCEPT ![r] =
       [pc |-> "time", ent |-> read[r].ent, at |-> read[r].at,
        G |-> ListActiveGrants(grants)]]
  /\ UNCHANGED <<now, tables, saves, calls, orderly>>

(* The grants of closed periods.                                           *)
Old(G) == {g \in DOMAIN G : Closed(G[g].effective)}

(* The time of the evaluation is taken after the grants were listed.  A    *)
(* period that closed in between took with it what changed in between.     *)
ReadTime(r) ==
  /\ read[r].pc = "time"
  /\ read' = [read EXCEPT ![r] =
       [pc |-> "seed", ent |-> read[r].ent, G |-> read[r].G,
        t |-> IF read[r].at = None THEN now ELSE read[r].at]]
  /\ Orderly(Old(read[r].G) = Old(ListActiveGrants(grants)))
  /\ UNCHANGED <<now, tables, saves, calls>>

(* The walk of read q from a seed.  Without a period there is none.        *)
BeginWalk(q, seed) ==
  LET P == Periods(Anchor(q.ent), q.ent.dur, q.t)
  IN  IF q.ent.dur = 0 THEN Idle
      ELSE [pc |-> "walk", ent |-> q.ent, G |-> q.G, t |-> q.t,
            i |-> StartAt(P, seed), first |-> TRUE,
            st |-> StartState(q.G, P, seed), new |-> << >>]

ReadSeed(r) ==
  /\ read[r].pc = "seed"
  /\ read' = [read EXCEPT ![r] =
                BeginWalk(read[r], GetLatestSnapshot(snaps, read[r].t))]
  /\ UNCHANGED <<now, tables, saves, calls, orderly>>

(* An error of the query is dropped: the walk starts at the anchor.        *)
ReadSeedFails(r) ==
  /\ read[r].pc = "seed"
  /\ read' = [read EXCEPT ![r] = BeginWalk(read[r], NoSeed)]
  /\ UNCHANGED <<now, tables, saves, calls, orderly>>

(* Slip: a goroutine is started for no snapshots, too.                     *)
Launch_Empty(new) == saves \cup {new}

Launch(new) == IF new = << >> THEN saves ELSE saves \cup {new}

(* A period evaluated with the usage that was fetched for it.  At the last *)
(* the handler answers and leaves its new snapshots to a goroutine.        *)
Evaluate(r, usage) ==
  LET q == read[r]
      P == Periods(Anchor(q.ent), q.ent.dur, q.t)
      last == q.i = Len(P)
      st == EvalPeriod(q.G, q.ent.cap, q.st, P[q.i], q.first, last, usage)
      new == Append(q.new, [asOf |-> P[q.i].to, active |-> st.active])
  IN  IF last
        THEN /\ read' = [read EXCEPT ![r] = Idle]
             /\ saves' = Launch(q.new)
        ELSE /\ read' = [read EXCEPT ![r] =
                  [q EXCEPT !.i = @ + 1, !.first = FALSE, !.new = new,
                            !.st = [active |-> st.active, seen |-> st.seen]]]
             /\ UNCHANGED saves

(* Slip: every period's usage is fetched up to t.                          *)
ReadPeriod_ToNow(r) ==
  LET q == read[r]
      P == Periods(Anchor(q.ent), q.ent.dur, q.t)
  IN  /\ q.pc = "walk"
      /\ Evaluate(r, FetchUsage(meter, events, P[q.i].from, q.t))
      /\ UNCHANGED <<now, tables, calls, orderly>>

ReadPeriod(r) ==
  LET q == read[r]
      P == Periods(Anchor(q.ent), q.ent.dur, q.t)
  IN  /\ q.pc = "walk"
      /\ Evaluate(r, FetchUsage(meter, events, P[q.i].from,
                                IF q.i = Len(P) THEN q.t ELSE P[q.i].to))
      /\ UNCHANGED <<now, tables, calls, orderly>>

(* An error of the query, or a caller gone, counts as no usage at all.     *)
ReadPeriodFails(r) ==
  /\ read[r].pc = "walk"
  /\ Evaluate(r, 0)
  /\ Orderly(read'[r].pc = "idle")
  /\ UNCHANGED <<now, tables, calls>>

(* Any other failure ends the call.                                        *)
ReadFails(r) ==
  /\ read[r].pc = "grants"
  /\ read' = [read EXCEPT ![r] = Idle]
  /\ UNCHANGED <<now, tables, saves, calls, orderly>>

(* SaveSnapshots inserts one row at a time, ON CONFLICT DO NOTHING.        *)
SaveSnapshot(s) ==
  /\ snaps' = IF Head(s).asOf \in DOMAIN snaps THEN snaps
              ELSE Insert(snaps, Head(s).asOf, Head(s).active)
  /\ saves' = IF Len(s) = 1 THEN saves \ {s} ELSE (saves \ {s}) \cup {Tail(s)}
  /\ UNCHANGED <<now, grants, events, ent, meter, read, calls, orderly>>

(* An insert fails, or the process stops.                                  *)
SaveFails(s) ==
  /\ saves' = saves \ {s}
  /\ UNCHANGED <<now, tables, read, calls, orderly>>

----------------------------------------------------------------------------
Tick ==
  /\ now < MaxTime
  /\ now' = now + 1
  /\ UNCHANGED <<tables, read, saves, calls, orderly>>

Inputs == AtInputs \cup {now}

WriteStep ==
  \/ \E i \in EventIds, t \in Inputs, v \in Values : IngestEvent(i, t, v)
  \/ \E a \in Amounts, p \in Priorities, t \in Inputs, l \in Lifetimes :
       CreateGrant(a, p, t, l)
  \/ \E g \in DOMAIN grants : VoidGrant(g)
  \/ \E at \in Inputs : ResetEntitlement(at)

ReadStep(r) ==
  \/ \E at \in AskInputs \cup {None} : ReadBegin(r, at)
  \/ ReadGrants(r) \/ ReadTime(r) \/ ReadSeed(r) \/ ReadSeedFails(r)
  \/ ReadPeriod(r) \/ ReadPeriodFails(r) \/ ReadFails(r)

Next ==
  \/ Tick
  \/ WriteStep
  \/ \E r \in Reads : ReadStep(r)
  \/ \E s \in saves : SaveSnapshot(s) \/ SaveFails(s)

Spec == Init /\ [][Next]_vars

----------------------------------------------------------------------------
(* Properties.                                                             *)

(* Usage by window.                                                        *)
UsageIn(E) == [w \in Int \X Int |-> FetchUsage(meter, E, w[1], w[2])]

(* What a read at t answers from rows e, E and G and a seed.               *)
AnswerFrom(e, E, G, t, seed) ==
  CalculateBalance(t, e, ListActiveGrants(G), UsageIn(E), seed)

Answer(t, seed) == AnswerFrom(ent, events, grants, t, seed)

PeriodsTo(t) == Periods(Anchor(ent), ent.dur, t)

WalkTo(t) == Walk(t, ent, ListActiveGrants(grants), UsageIn(events), NoSeed)

Total(active) == SumFunction(Rems(active))

Left(active, g) ==
  LET i == CHOOSE i \in DOMAIN active : active[i].id = g IN active[i].rem

(* What is left of grants, as a snapshot of the boundary a may hold it:    *)
(* each grant once, in part or whole, at most the cap, begun and unexpired.*)
SaneAt(a, active) ==
  /\ Cardinality(Ids(active)) = Len(active)
  /\ \A i \in DOMAIN active :
       /\ active[i].id \in DOMAIN grants
       /\ LET g == grants[active[i].id]
          IN  /\ active[i].rem \in 1 .. Capped(ent.cap, g.amount)
              /\ g.effective < a /\ ~Expired(g, a)

(* Every row, and every snapshot waiting to be saved, is of its type.      *)
TypeOK ==
  /\ now \in Time /\ calls \in 0 .. MaxCalls /\ orderly \in BOOLEAN
  /\ DOMAIN grants \subseteq GrantIds /\ DOMAIN events \subseteq EventIds
  /\ \A g \in DOMAIN grants :
       grants[g] \in [amount : Amounts, priority : Priorities,
                     effective : Time, expires : Nat \cup {None},
                     voided : BOOLEAN]
  /\ \A i \in DOMAIN events : events[i] \in [time : Time, value : Values]
  /\ ent \in [created : Time, anchor : Time \cup {None}, dur : Durations,
              cap : Caps]
  /\ DOMAIN snaps \subseteq Int
  /\ \A r \in Reads : read[r].pc \in {"idle", "grants", "time", "seed", "walk"}
  /\ \A s \in saves : s # << >>

(* Whatever was late, voided, backdated or lost while snapshots were taken *)
(* and saved, a snapshot never holds more of a grant than the grant and    *)
(* the cap allow, a grant twice, one not yet begun, or one that is over.   *)
SnapshotSane ==
  /\ \A a \in DOMAIN snaps : SaneAt(a, snaps[a])
  /\ \A s \in saves : \A i \in DOMAIN s : SaneAt(s[i].asOf, s[i].active)

(* The windows fetched for the periods cover the time from the first       *)
(* period to t once: an event counts in one period, at boundaries too.     *)
UsageCountedOnce ==
  \A t \in Time : ent.dur > 0 /\ meter \in {"sum", "count"} =>
    LET P == PeriodsTo(t)
        fetched == [i \in DOMAIN P |->
                      FetchUsage(meter, events, P[i].from,
                                 IF i = Len(P) THEN t ELSE P[i].to)]
    IN  SumFunction(fetched)
          = FetchUsage(meter, events, P[1].from, t)

(* In each period, what leaves the grants is the usage they can bear, the  *)
(* rest is overage, and a grant is touched only when those that precede it *)
(* are empty.                                                              *)
BurnsInOrder ==
  \A t \in Time : ent.dur > 0 =>
    LET P == PeriodsTo(t)
        G == ListActiveGrants(grants)
        walk == WalkTo(t)
    IN  \A i \in DOMAIN P :
          LET in == Enter(G, walk[i - 1], P[i], i = 1).active
              done == walk[i]
              out == Spend(G, in, done.usage).active
          IN  /\ Total(in) - Total(out) = done.usage - done.overage
              /\ done.overage > 0 => Total(out) = 0
              /\ \A g, h \in Ids(in) :
                   Precedes(G, g, h) /\ Left(out, h) < Left(in, h)
                     => Left(out, g) = 0

(* Past the first period, a grant of an earlier period is worth no more    *)
(* than the cap, and none that expired or was voided is worth anything.    *)
CarryBounded ==
  \A t \in Time : ent.dur > 0 =>
    LET P == PeriodsTo(t)
        G == ListActiveGrants(grants)
        worth == [g \in DOMAIN G |->
                    IF G[g].effective >= P[Len(P)].from \/ Len(P) = 1
                    THEN G[g].amount ELSE Capped(ent.cap, G[g].amount)]
    IN  Answer(t, NoSeed).balance
          <= SumFunctionOnSet(worth, {g \in DOMAIN G : ~Expired(G[g], t)})

(* At no time t, past or future, does an event raise the balance computed  *)
(* from the ledger, a grant lower it, or a void raise it, whatever the     *)
(* periods, caps, priorities and expirations in between.                   *)
Monotone ==
  [][ \A t \in Time :
        LET before == AnswerFrom(ent, events, grants, t, NoSeed).balance
            after == AnswerFrom(ent', events', grants', t, NoSeed).balance
        IN  /\ events' # events => after <= before
            /\ DOMAIN grants' # DOMAIN grants => after >= before
            /\ grants' # grants /\ DOMAIN grants' = DOMAIN grants
                 => after <= before ]_tables

(* The snapshot says what the ledger says of its boundary.                 *)
Accurate(seed) ==
  LET P == PeriodsTo(seed.asOf)
  IN  /\ P[Len(P)].from = seed.asOf
      /\ WalkTo(seed.asOf)[Len(P) - 1].active = seed.active

(* It holds every grant that has begun and can still be spent.             *)
Complete(seed) ==
  \A g \in DOMAIN ListActiveGrants(grants) :
    grants[g].effective < seed.asOf /\ ~Expired(grants[g], seed.asOf)
      => g \in Ids(seed.active)

SnapshotAt(a) == [asOf |-> a, active |-> snaps[a]]

(* A read from a snapshot that is accurate, and dropped no grant as spent, *)
(* answers what a read without one would.                                  *)
SeedExact ==
  \A a \in DOMAIN snaps :
    LET seed == SnapshotAt(a)
    IN  Complete(seed) /\ Accurate(seed) =>
          \A t \in Time : GetLatestSnapshot(snaps, t) = seed
            => Answer(t, seed) = Answer(t, NoSeed)

(* What the cache holds is what the ledger says, as long as no write was   *)
(* dated into a closed period, nothing reset, no closed period's usage     *)
(* query failed, no read asked ahead of the clock or straddled a boundary, *)
(* and no snapshot dropped a grant as spent.  Then concurrent reads, lost  *)
(* saves, failed seeds and snapshots made from snapshots do no harm.       *)
SnapshotsAccurate ==
  orderly /\ (\A a \in DOMAIN snaps : Complete(SnapshotAt(a))) =>
    /\ \A a \in DOMAIN snaps : Accurate(SnapshotAt(a))
    /\ \A s \in saves : \A i \in DOMAIN s : Accurate(s[i])

(* And then it holds periods that are over only: nothing that is yet to be *)
(* used or granted is missing from it for good.                            *)
ClosedPeriodsOnly ==
  orderly =>
    /\ \A a \in DOMAIN snaps : a <= now
    /\ \A s \in saves : \A i \in DOMAIN s : s[i].asOf <= now

(* docs/design.md calls the snapshots a derived cache: if one is accurate, *)
(* using it makes no difference.                                           *)
CacheExact ==
  \A t \in Time :
    LET seed == GetLatestSnapshot(snaps, t)
    IN  seed # NoSeed /\ Accurate(seed) => Answer(t, seed) = Answer(t, NoSeed)

(* docs/design.md: a grant becomes spendable at its effective_at.  With no *)
(* usage at all, the balance at t holds grants effective by t only.        *)
SpendableWhenEffective ==
  \A t \in Time :
    Answer(t, NoSeed).balance
      <= SumFunctionOnSet([g \in DOMAIN grants |-> grants[g].amount],
                          {g \in DOMAIN grants : grants[g].effective <= t})

=============================================================================

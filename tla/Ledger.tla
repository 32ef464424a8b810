------------------------------- MODULE Ledger -------------------------------
(***************************************************************************)
(* internal/ledger: the balance of one metered entitlement at a time t.    *)
(* The usage periods from the entitlement's anchor to the one that holds t *)
(* are walked in order; in each, usage burns the grants in force, and what *)
(* is left is carried over a boundary up to the entitlement's cap.  A      *)
(* snapshot of an earlier walk at a boundary may stand for its beginning.  *)
(*                                                                         *)
(* Times are ticks, None is a nil pointer or SQL NULL.  G maps the ids of  *)
(* the grants given to the walk to their rows; ids are numbers in order of *)
(* insertion, which is also the order the walk is given equal grants in.   *)
(* The grants in force are a sequence of [id, rem], rem being what is left *)
(* of one, and so is a snapshot's state at the boundary asOf.              *)
(***************************************************************************)
EXTENDS Integers, Sequences, FiniteSets, SequencesExt

None == -1

(* The numbers in S, from the least on.                                    *)
Ascending(S) ==
  CHOOSE s \in [1 .. Cardinality(S) -> S] :
    \A i, j \in DOMAIN s : i < j => s[i] < s[j]

(* What is at the places in I of a sequence, in its order.                 *)
Kept(seq, I) ==
  LET places == Ascending(I) IN [k \in DOMAIN places |-> seq[places[k]]]

NoSeed == [asOf |-> None, active |-> << >>]
Ids(active) == {active[i].id : i \in DOMAIN active}

Expired(g, t) == g.expires # None /\ g.expires <= t

Precedes(G, g, h) ==
  \/ G[g].priority < G[h].priority
  \/ G[g].priority = G[h].priority /\ G[g].effective < G[h].effective

(* Burn order.  Equal grants keep their places, as sort.Slice leaves them  *)
(* in a slice of up to a dozen.                                            *)
Sorted(G, active) ==
  LET before(i, j) ==
        LET g == active[i].id  h == active[j].id
        IN  Precedes(G, g, h) \/ (~Precedes(G, h, g) /\ i < j)
      order == CHOOSE s \in [DOMAIN active -> DOMAIN active] :
                 \A i, j \in DOMAIN s : i < j => before(s[i], s[j])
  IN  [k \in DOMAIN active |-> active[order[k]]]

(* Slip: a grant that usage exceeds is not emptied.                        *)
SpendOn_NotEmptied(left, rem) ==
  IF left > rem THEN [left |-> left - rem, rem |-> rem]
  ELSE [left |-> 0, rem |-> rem - left]

(* One turn of the burn loop, skipped when nothing is left to burn.        *)
SpendOn(left, rem) ==
  LET burnt == IF left <= 0 THEN 0 ELSE IF left <= rem THEN left ELSE rem
  IN  [left |-> left - burnt, rem |-> rem - burnt]

(* The loop over the grants in that order; `left' is the overage.          *)
Burn(order, usage) ==
  LET turn[i \in 0 .. Len(order)] ==
        IF i = 0 THEN [left |-> usage, rem |-> 0]
        ELSE SpendOn(turn[i - 1].left, order[i].rem)
  IN  [left |-> turn[Len(order)].left,
       active |-> [i \in DOMAIN order |->
                     [id |-> order[i].id, rem |-> turn[i].rem]]]

(* Slip: the grants burn in the order they were listed.                    *)
Spend_Unsorted(G, active, usage) == Burn(active, usage)

Spend(G, active, usage) == Burn(Sorted(G, active), usage)

Rems(active) == [i \in DOMAIN active |-> active[i].rem]

Available(G, active, t) ==
  SumFunctionOnSet(Rems(active),
                   {i \in DOMAIN active : ~Expired(G[active[i].id], t)})

----------------------------------------------------------------------------
(* Periods.  buildPeriods steps back from an anchor that lies after t, and *)
(* forward until a period ends after t.                                    *)
FirstFrom(anchor, dur, t) ==
  IF anchor <= t THEN anchor
  ELSE anchor - dur * ((anchor - t + dur - 1) \div dur)

(* Slip: a period that begins after t is built as well.                    *)
Periods_OneMore(anchor, dur, t) ==
  LET from == FirstFrom(anchor, dur, t)
  IN  [k \in 1 .. (t - from) \div dur + 2 |->
        [from |-> from + (k - 1) * dur, to |-> from + k * dur]]

Periods(anchor, dur, t) ==
  LET from == FirstFrom(anchor, dur, t)
  IN  [k \in 1 .. (t - from) \div dur + 1 |->
        [from |-> from + (k - 1) * dur, to |-> from + k * dur]]

(* The walk's state: the grants in force, and those that were taken in at  *)
(* some time and are not taken in again.                                   *)
Blank == [active |-> << >>, seen |-> {}]

SeedFits(P, seed) == \E i \in DOMAIN P : P[i].from = seed.asOf

StartAt(P, seed) ==
  IF SeedFits(P, seed) THEN CHOOSE i \in DOMAIN P : P[i].from = seed.asOf
  ELSE 1

(* Grants taken in, whole.                                                 *)
Fresh(G, ids) ==
  LET order == Ascending(ids)
  IN  [k \in DOMAIN order |-> [id |-> order[k], rem |-> G[order[k]].amount]]

Unvoided(G, active) ==
  Kept(active, {i \in DOMAIN active : active[i].id \in DOMAIN G})

(* Slip: seeded grants may be taken in a second time.                      *)
StartState_SeenForgotten(G, P, seed) ==
  IF SeedFits(P, seed)
    THEN [active |-> Unvoided(G, seed.active), seen |-> {}]
    ELSE Blank

(* Grants of the snapshot that were voided since are passed over.          *)
StartState(G, P, seed) ==
  IF SeedFits(P, seed)
    THEN LET known == Unvoided(G, seed.active)
         IN  [active |-> known, seen |-> Ids(known)]
    ELSE Blank

Unexpired(G, active, t) ==
  Kept(active, {i \in DOMAIN active : ~Expired(G[active[i].id], t)})

(* Take in the grants effective in period p, in the first period evaluated *)
(* also the earlier ones; drop what expired by its start.                  *)
Enter(G, st, p, first) ==
  LET new == {g \in DOMAIN G \ st.seen :
                G[g].effective < p.to /\ (p.from <= G[g].effective \/ first)}
  IN  [active |-> Unexpired(G, st.active \o Fresh(G, new), p.from),
       seen |-> st.seen \cup new]

Capped(cap, rem) == IF cap # None /\ rem > cap THEN cap ELSE rem

CappedAll(cap, active) ==
  [i \in DOMAIN active |->
     [id |-> active[i].id, rem |-> Capped(cap, active[i].rem)]]

Unspent(active) == Kept(active, {i \in DOMAIN active : active[i].rem > 0})

(* Slip: the cap is not applied.                                           *)
CarryOver_Uncapped(G, cap, active, to) ==
  Unspent(Unexpired(G, active, to))

(* Slip: a grant that expires at the boundary is carried over.             *)
CarryOver_Expired(G, cap, active, to) ==
  Unspent(CappedAll(cap, active))

(* What survives the boundary at `to': unspent, unexpired, up to the cap.  *)
CarryOver(G, cap, active, to) ==
  Unspent(CappedAll(cap, Unexpired(G, active, to)))

(* One turn of the period loop.                                            *)
EvalPeriod(G, cap, st, p, first, last, usage) ==
  LET in == Enter(G, st, p, first)
      burnt == Spend(G, in.active, usage)
  IN  [active |-> IF last THEN burnt.active
                  ELSE CarryOver(G, cap, burnt.active, p.to),
       seen |-> in.seen, usage |-> usage, overage |-> burnt.left]

----------------------------------------------------------------------------
(* Without a period: the grants in force at t against all usage so far.    *)
CalculateStatelessBalance(G, usage, t) ==
  LET now == {g \in DOMAIN G : G[g].effective <= t /\ ~Expired(G[g], t)}
      burnt == Spend(G, Fresh(G, now), usage)
  IN  [balance |-> Available(G, burnt.active, t), usage |-> usage,
       overage |-> burnt.left]

(* ent is [created, anchor, dur, cap]; dur is 0 if there is no period.     *)
Anchor(ent) == IF ent.anchor = None THEN ent.created ELSE ent.anchor

(* States of the walk, one per period evaluated, the start state first.    *)
Walk(t, ent, G, fetchUsage, seed) ==
  LET P == Periods(Anchor(ent), ent.dur, t)
      n == Len(P)
      start == StartAt(P, seed)
      walk[i \in start - 1 .. n] ==
        IF i = start - 1 THEN StartState(G, P, seed)
        ELSE EvalPeriod(G, ent.cap, walk[i - 1], P[i], i = start, i = n,
                        fetchUsage[<<P[i].from, IF i = n THEN t ELSE P[i].to>>])
  IN  walk

CalculateBalance(t, ent, G, fetchUsage, seed) ==
  IF ent.dur = 0
    THEN CalculateStatelessBalance(G, fetchUsage[<<ent.created, t>>], t)
  ELSE LET last == Walk(t, ent, G, fetchUsage, seed)
                     [Len(Periods(Anchor(ent), ent.dur, t))]
       IN  [balance |-> Available(G, last.active, t), usage |-> last.usage,
            overage |-> last.overage]

=============================================================================

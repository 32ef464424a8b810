-------------------------- MODULE EmissionProofs --------------------------
(***************************************************************************)
(* Why a cycle is credited at most once and never off the cadence, for any *)
(* number of workers, calls and plans.                                     *)
(***************************************************************************)
EXTENDS SubscriptionsProofs

----------------------------------------------------------------------------
(* The invariant.  Every grant of a subscription has its row, so an id a   *)
(* new subscription takes is new to the grants too; every copy of a row    *)
(* that a pass or a change holds is of a row that is still there; and what *)
(* a pass is about to insert is on the cadence and not ahead of its time.  *)

Owners == \A g \in grants : g.sub # NoSub => \E s \in subs : s.id = g.sub

KnownSub(c) == \E s \in subs : s.id = c.id /\ s.starts = c.starts

Copies ==
  /\ \A w \in Workers :
       /\ \A s \in wrk[w].listed : KnownSub(s) /\ Interval[s.plan] > 0
       /\ \A j \in wrk[w].jobs : KnownSub(j.sub) /\ Interval[j.sub.plan] > 0
       /\ wrk[w].now <= now
  /\ \A r \in Requests : req[r].pc \in {"plan", "change"} => KnownSub(req[r].sub)

PendingInsert(p) ==
  /\ KnownSub(p.job.sub)
  /\ p.next <= p.now
  /\ OnCadence(p.job.sub.id, p.job.ent, p.next, p.job.sub.starts)

Pending == \A w \in Workers : wrk[w].pc = "insert" => PendingInsert(wrk[w])

EmissionInv ==
  /\ TypeInv
  /\ Owners
  /\ Copies
  /\ Pending
  /\ EmissionUnique
  /\ EmissionCadence

----------------------------------------------------------------------------
(* What stays true of rows that are kept.                                  *)

(* A subscription that exists keeps existing.                              *)
LEMMA SubIdKept ==
  ASSUME SubsKept, NEW i, \E s \in subs : s.id = i
  PROVE  \E s \in subs' : s.id = i
BY DEF SubsKept

(* A grant keeps its owner, entitlement, time, number and path.            *)
LEMMA GrantKept ==
  ASSUME TypeInv, GrantsKept, NEW g \in grants
  PROVE  \E h \in grants' : /\ h.sub = g.sub /\ h.ent = g.ent /\ h.at = g.at
                            /\ h.via = g.via /\ h.gen = g.gen
<1>1. g \in GrantRow
  BY DEF TypeInv, TypeOK
<1>2. [g EXCEPT !.voided = TRUE].sub = g.sub /\
      [g EXCEPT !.voided = TRUE].ent = g.ent /\
      [g EXCEPT !.voided = TRUE].at = g.at /\
      [g EXCEPT !.voided = TRUE].via = g.via /\
      [g EXCEPT !.voided = TRUE].gen = g.gen
  BY <1>1 DEF GrantRow
<1> QED
  BY <1>2 DEF GrantsKept

(* A time that is on a subscription's cadence stays on it.                 *)
LEMMA CadenceKept ==
  ASSUME TypeInv, GrantsKept, NEW s, NEW e, NEW t, NEW b, OnCadence(s, e, t, b)
  PROVE  OnCadence(s, e, t, b)'
BY GrantKept DEF OnCadence

----------------------------------------------------------------------------
(* Where the rows of the next state come from.                             *)

(* The rows a transaction leaves when it voids those of s.                 *)
LEMMA VoidAllRows ==
  ASSUME TypeInv, NEW s, NEW g \in VoidAll(s)
  PROVE  /\ \E h \in grants : /\ h.sub = g.sub /\ h.ent = g.ent
                              /\ h.at = g.at /\ h.via = g.via
         /\ ~g.voided => g \in grants /\ g.sub # s
<1>1. PICK h \in grants :
        g = IF h.sub = s THEN [h EXCEPT !.voided = TRUE] ELSE h
  BY DEF VoidAll
<1>2. h \in GrantRow
  BY DEF TypeInv, TypeOK
<1>3. CASE h.sub = s
  <2>1. /\ g.sub = h.sub /\ g.ent = h.ent /\ g.at = h.at /\ g.via = h.via
        /\ g.voided = TRUE
    BY <1>1, <1>2, <1>3 DEF GrantRow
  <2> QED
    BY <2>1
<1>4. CASE h.sub # s
  BY <1>1, <1>4
<1> QED
  BY <1>3, <1>4

(* The rows materialising plan p for subscription s at t inserts.          *)
LEMMA PlanGrantRows ==
  ASSUME NEW s, NEW c, NEW p, NEW t, NEW E, NEW g \in PlanGrants(s, c, p, t, E)
  PROVE  /\ g.sub = s /\ g.at = t /\ g.via = "materialize"
         /\ g = NewGrant(s, g.ent, t, "materialize")
BY DEF PlanGrants, NewGrant

(* Kinds of step by what they do to grants.                                *)
LEMMA StepKinds ==
  ASSUME [Next]_vars
  PROVE  \/ \E r \in Requests :
              CreateSubscriptionCommit(r) \/ ChangeSubscriptionCommit(r)
         \/ \E s \in subs, at \in AtInputs \cup {now} : CancelSubscription(s, at)
         \/ \E e \in ents, t \in AtInputs \cup {now} : CreateGrant(e, t)
         \/ \E g \in grants : VoidGrant(g)
         \/ \E w \in Workers : InsertGrant(w)
         \/ UNCHANGED grants
BY DEF Next, Tick, RequestBegin, RequestStep, StatementStep, WorkerStep,
       WorkerFault, vars, tables, CreateSubscriptionBegin,
       ChangeSubscriptionBegin, CreateSubscriptionCheck,
       ChangeSubscriptionPlan, RequestFails, ArchivePlan, CreateEntitlement,
       DeleteEntitlement, ListRecurringSubscriptions, ExpandSubscription,
       StartLoop, ReadLatest, ReadLatestFails, SkipEntry, PassAborts

----------------------------------------------------------------------------
(* Owners.                                                                 *)

(* Every step keeps grants owned by subscriptions that exist.              *)
LEMMA OwnersStep ==
  ASSUME EmissionInv, [Next]_vars
  PROVE  Owners'
<1> USE DEF EmissionInv
<1>1. SubsKept
  BY KeepStep
<1>2. ASSUME NEW g \in grants', g.sub # NoSub,
             \E h \in grants : h.sub = g.sub
      PROVE  \E s \in subs' : s.id = g.sub
  BY <1>1, <1>2, SubIdKept DEF Owners
<1>3. ASSUME NEW r \in Requests, CreateSubscriptionCommit(r)
      PROVE  Owners'
  <2>1. PICK i \in SubIds :
          /\ subs' = subs \cup
               {[id |-> i, customer |-> req[r].customer, plan |-> req[r].plan,
                 starts |-> req[r].at, ends |-> req[r].ends, canceled |-> None]}
          /\ grants' = grants \cup
               PlanGrants(i, req[r].customer, req[r].plan, req[r].at,
                 ents \cup MissingEnts(i, req[r].customer, req[r].plan))
    BY <1>3 DEF CreateSubscriptionCommit, MaterializeEntries
  <2> DEFINE row == [id |-> i, customer |-> req[r].customer,
                     plan |-> req[r].plan, starts |-> req[r].at,
                     ends |-> req[r].ends, canceled |-> None]
  <2>2. row \in subs' /\ row.id = i
    BY <2>1
  <2>3. \A g \in grants' : g \in grants \/ g.sub = i
    BY <2>1, PlanGrantRows
  <2> HIDE DEF row
  <2> QED
    BY <1>2, <2>2, <2>3 DEF Owners
<1>4. ASSUME NEW r \in Requests, ChangeSubscriptionCommit(r)
      PROVE  Owners'
  <2> DEFINE i == req[r].sub.id
  <2>1. grants' = VoidAll(i) \cup
          PlanGrants(i, req[r].sub.customer, req[r].plan, req[r].at,
            ents \cup MissingEnts(i, req[r].sub.customer, req[r].plan))
    BY <1>4 DEF ChangeSubscriptionCommit, MaterializeEntries
  <2>2. KnownSub(req[r].sub)
    BY <1>4 DEF ChangeSubscriptionCommit, Copies
  <2>3. \E s \in subs' : s.id = i
    BY <1>1, <2>2, SubIdKept DEF KnownSub
  <2> QED
    BY <1>2, <2>1, <2>3, PlanGrantRows, VoidAllRows DEF Owners
<1>5. ASSUME NEW s \in subs, NEW at, CancelSubscription(s, at)
      PROVE  Owners'
  BY <1>2, <1>5, VoidAllRows DEF CancelSubscription, Owners
<1>6. ASSUME NEW e \in ents, NEW t, CreateGrant(e, t)
      PROVE  Owners'
  BY <1>2, <1>6 DEF CreateGrant, NewGrant, Owners
<1>7. ASSUME NEW g \in grants, VoidGrant(g)
      PROVE  Owners'
  <2>1. [g EXCEPT !.voided = TRUE].sub = g.sub
    BY DEF TypeInv, TypeOK, GrantRow
  <2> QED
    BY <1>2, <1>7, <2>1 DEF VoidGrant, Owners
<1>8. ASSUME NEW w \in Workers, InsertGrant(w)
      PROVE  Owners'
  <2>1. KnownSub(wrk[w].job.sub)
    BY <1>8 DEF InsertGrant, Pending, PendingInsert
  <2>2. \E s \in subs' : s.id = wrk[w].job.sub.id
    BY <1>1, <2>1, SubIdKept DEF KnownSub
  <2> QED
    BY <1>2, <1>8, <2>2 DEF InsertGrant, NewGrant, Owners
<1>9. CASE UNCHANGED grants
  BY <1>2, <1>9 DEF Owners
<1> QED
  BY <1>3, <1>4, <1>5, <1>6, <1>7, <1>8, <1>9, StepKinds

----------------------------------------------------------------------------
(* At most one grant in force per cycle.                                   *)

(* Every step keeps the grants of a cycle down to one in force: the        *)
(* worker's insert by the emission index, a transaction because it voids   *)
(* the old rows before it inserts the new, one per entitlement.            *)
LEMMA UniqueStep ==
  ASSUME EmissionInv, [Next]_vars
  PROVE  EmissionUnique'
<1> USE DEF EmissionInv
<1> DEFINE Clash(g, h) == /\ g.sub # NoSub /\ ~g.voided /\ ~h.voided
                          /\ SameKey(h, g.sub, g.ent, g.at)
<1>1. \A g, h \in grants : Clash(g, h) => g = h
  BY DEF EmissionUnique
<1>2. ASSUME NEW r \in Requests, CreateSubscriptionCommit(r)
      PROVE  EmissionUnique'
  <2>1. PICK i \in SubIds \ {s.id : s \in subs} :
          grants' = grants \cup
            PlanGrants(i, req[r].customer, req[r].plan, req[r].at,
              ents \cup MissingEnts(i, req[r].customer, req[r].plan))
    BY <1>2 DEF CreateSubscriptionCommit, MaterializeEntries
  <2>2. \A g \in grants : g.sub # i
    BY <2>1, IdAssumption DEF Owners
  <2>3. \A g \in grants' :
          \/ g \in grants
          \/ g.sub = i /\ g = NewGrant(i, g.ent, req[r].at, "materialize")
    BY <2>1, PlanGrantRows
  <2> QED
    BY <1>1, <2>2, <2>3 DEF EmissionUnique, SameKey
<1>3. ASSUME NEW r \in Requests, ChangeSubscriptionCommit(r)
      PROVE  EmissionUnique'
  <2> DEFINE i == req[r].sub.id
  <2>1. grants' = VoidAll(i) \cup
          PlanGrants(i, req[r].sub.customer, req[r].plan, req[r].at,
            ents \cup MissingEnts(i, req[r].sub.customer, req[r].plan))
    BY <1>3 DEF ChangeSubscriptionCommit, MaterializeEntries
  <2>2. \A g \in grants' : ~g.voided =>
          \/ g \in grants /\ g.sub # i
          \/ g.sub = i /\ g = NewGrant(i, g.ent, req[r].at, "materialize")
    BY <2>1, PlanGrantRows, VoidAllRows
  <2> QED
    BY <1>1, <2>2 DEF EmissionUnique, SameKey
<1>4. ASSUME NEW s \in subs, NEW at, CancelSubscription(s, at)
      PROVE  EmissionUnique'
  <2>1. \A g \in grants' : ~g.voided => g \in grants
    BY <1>4, VoidAllRows DEF CancelSubscription
  <2> QED
    BY <1>1, <2>1 DEF EmissionUnique
<1>5. ASSUME NEW e \in ents, NEW t, CreateGrant(e, t)
      PROVE  EmissionUnique'
  <2>1. \A g \in grants' : g \in grants \/ g.sub = NoSub
    BY <1>5 DEF CreateGrant, NewGrant
  <2> QED
    BY <1>1, <2>1 DEF EmissionUnique, SameKey
<1>6. ASSUME NEW g \in grants, VoidGrant(g)
      PROVE  EmissionUnique'
  <2>1. [g EXCEPT !.voided = TRUE].voided = TRUE
    BY DEF TypeInv, TypeOK, GrantRow
  <2>2. \A h \in grants' : ~h.voided => h \in grants
    BY <1>6, <2>1 DEF VoidGrant
  <2> QED
    BY <1>1, <2>2 DEF EmissionUnique
<1>7. ASSUME NEW w \in Workers, InsertGrant(w)
      PROVE  EmissionUnique'
  <2> DEFINE p == wrk[w]
             n == NewGrant(p.job.sub.id, p.job.ent, p.next, "worker")
  <2>1. CASE UNCHANGED grants
    BY <1>1, <2>1 DEF EmissionUnique
  <2>2. CASE /\ EmissionFree(p.job.sub.id, p.job.ent, p.next)
             /\ grants' = grants \cup {n}
    <3>1. n.sub = p.job.sub.id /\ n.ent = p.job.ent /\ n.at = p.next
      BY DEF NewGrant
    <3>2. \A g \in grants : SameKey(g, n.sub, n.ent, n.at) => g.voided
      BY <2>2, <3>1 DEF EmissionFree
    <3> HIDE DEF n
    <3> QED
      BY <1>1, <2>2, <3>2 DEF EmissionUnique, SameKey
  <2> QED
    BY <1>7, <2>1, <2>2 DEF InsertGrant
<1>8. CASE UNCHANGED grants
  BY <1>1, <1>8 DEF EmissionUnique
<1> QED
  BY <1>2, <1>3, <1>4, <1>5, <1>6, <1>7, <1>8, StepKinds

----------------------------------------------------------------------------
(* On the cadence, and not ahead of time.                                  *)

(* Every step keeps the worker's grants on the cadence: the one it inserts *)
(* was weighed against a grant that is still there.                        *)
LEMMA CadenceStep ==
  ASSUME EmissionInv, [Next]_vars
  PROVE  EmissionCadence'
<1> USE DEF EmissionInv
<1>1. SubsKept /\ GrantsKept /\ now \in Nat /\ now' \in Nat /\ now <= now'
  <2>1. now \in Nat
    BY TimeAssumption DEF TypeInv, TypeOK, Time
  <2>2. now' = now \/ now' = now + 1
    BY DEF Next, Tick, RequestBegin, RequestStep, StatementStep, WorkerStep,
           WorkerFault, vars, tables, CreateSubscriptionBegin,
           ChangeSubscriptionBegin, CreateSubscriptionCheck,
           CreateSubscriptionCommit, ChangeSubscriptionPlan,
           ChangeSubscriptionCommit, RequestFails, CancelSubscription,
           CreateGrant, VoidGrant, ArchivePlan, CreateEntitlement,
           DeleteEntitlement, ListRecurringSubscriptions, ExpandSubscription,
           StartLoop, ReadLatest, ReadLatestFails, InsertGrant, SkipEntry,
           PassAborts
  <2> QED
    BY <2>1, <2>2, KeepStep
<1> DEFINE OldRow(g) == \E h \in grants : /\ h.sub = g.sub /\ h.ent = g.ent
                                          /\ h.at = g.at /\ h.via = g.via
           Placed(s, e, t) ==
             /\ t <= now'
             /\ \E x \in subs' : x.id = s /\ OnCadence(s, e, t, x.starts)'
<1>2. ASSUME NEW g \in grants', OldRow(g), g.via = "worker"
      PROVE  Placed(g.sub, g.ent, g.at)
  <2>1. PICK h \in grants : /\ h.sub = g.sub /\ h.ent = g.ent
                            /\ h.at = g.at /\ h.via = "worker"
    BY <1>2
  <2>2. h.at <= now /\ h.at \in Nat
    BY <2>1 DEF EmissionCadence, TypeInv, TypeOK, GrantRow, Time
  <2>3. PICK x \in subs : x.id = h.sub /\ OnCadence(h.sub, h.ent, h.at, x.starts)
    BY <2>1 DEF EmissionCadence
  <2>4. OnCadence(h.sub, h.ent, h.at, x.starts)'
    BY <1>1, <2>3, CadenceKept
  <2>5. PICK y \in subs' : y.id = x.id /\ y.starts = x.starts
    BY <1>1 DEF SubsKept
  <2>6. g.at <= now'
    BY <1>1, <2>1, <2>2
  <2> QED
    BY <2>1, <2>3, <2>4, <2>5, <2>6
<1>3. ASSUME NEW w \in Workers, InsertGrant(w), NEW i, NEW e, NEW t, NEW b,
             i = wrk[w].job.sub.id, e = wrk[w].job.ent, t = wrk[w].next,
             b = wrk[w].job.sub.starts
      PROVE  Placed(i, e, t)
  <2>1. wrk[w].pc = "insert" /\ PendingInsert(wrk[w]) /\ wrk[w].now <= now
    BY <1>3 DEF InsertGrant, Pending, Copies
  <2>2. wrk[w].next \in Nat /\ wrk[w].now \in Nat
    BY <2>1 DEF TypeInv, TypeOK, PassState, ReadingPass, InsertingPass, Time
  <2>3. t <= now'
    BY <1>1, <1>3, <2>1, <2>2 DEF PendingInsert
  <2>4. OnCadence(i, e, t, b)
    BY <1>3, <2>1 DEF PendingInsert
  <2>5. OnCadence(i, e, t, b)'
    BY <1>1, <2>4, CadenceKept
  <2>6. PICK x \in subs' : x.id = i /\ x.starts = b
    BY <1>1, <1>3, <2>1 DEF PendingInsert, KnownSub, SubsKept
  <2> QED
    BY <2>3, <2>5, <2>6
<1>4. ASSUME NEW g \in grants', g.via = "worker"
      PROVE  \/ OldRow(g)
             \/ \E w \in Workers :
                  /\ InsertGrant(w) /\ g.sub = wrk[w].job.sub.id
                  /\ g.ent = wrk[w].job.ent /\ g.at = wrk[w].next
  <2>1. ASSUME NEW r \in Requests, CreateSubscriptionCommit(r)
        PROVE  OldRow(g)
    <3>1. PICK i : grants' = grants \cup
            PlanGrants(i, req[r].customer, req[r].plan, req[r].at,
              ents \cup MissingEnts(i, req[r].customer, req[r].plan))
      BY <2>1 DEF CreateSubscriptionCommit, MaterializeEntries
    <3> QED
      BY <1>4, <3>1, PlanGrantRows
  <2>2. ASSUME NEW r \in Requests, ChangeSubscriptionCommit(r)
        PROVE  OldRow(g)
    <3>1. grants' = VoidAll(req[r].sub.id) \cup
            PlanGrants(req[r].sub.id, req[r].sub.customer, req[r].plan,
              req[r].at,
              ents \cup MissingEnts(req[r].sub.id, req[r].sub.customer,
                                    req[r].plan))
      BY <2>2 DEF ChangeSubscriptionCommit, MaterializeEntries
    <3> QED
      BY <1>4, <3>1, PlanGrantRows, VoidAllRows
  <2>3. ASSUME NEW s \in subs, NEW at, CancelSubscription(s, at)
        PROVE  OldRow(g)
    BY <2>3, VoidAllRows DEF CancelSubscription
  <2>4. ASSUME NEW e \in ents, NEW t, CreateGrant(e, t)
        PROVE  OldRow(g)
    BY <1>4, <2>4 DEF CreateGrant, NewGrant
  <2>5. ASSUME NEW h \in grants, VoidGrant(h)
        PROVE  OldRow(g)
    <3>1. [h EXCEPT !.voided = TRUE].sub = h.sub /\
          [h EXCEPT !.voided = TRUE].ent = h.ent /\
          [h EXCEPT !.voided = TRUE].at = h.at /\
          [h EXCEPT !.voided = TRUE].via = h.via
      BY DEF TypeInv, TypeOK, GrantRow
    <3> QED
      BY <2>5, <3>1 DEF VoidGrant
  <2>6. ASSUME NEW w \in Workers, InsertGrant(w)
        PROVE  \/ OldRow(g)
               \/ /\ g.sub = wrk[w].job.sub.id /\ g.ent = wrk[w].job.ent
                  /\ g.at = wrk[w].next
    BY <2>6 DEF InsertGrant, NewGrant
  <2>7. CASE UNCHANGED grants
    BY <2>7
  <2> QED
    BY <2>1, <2>2, <2>3, <2>4, <2>5, <2>6, <2>7, StepKinds
<1>5. ASSUME NEW g \in grants', g.via = "worker"
      PROVE  Placed(g.sub, g.ent, g.at)
  <2>1. CASE OldRow(g)
    BY <1>2, <1>5, <2>1
  <2>2. CASE ~OldRow(g)
    <3>1. PICK w \in Workers :
            /\ InsertGrant(w) /\ g.sub = wrk[w].job.sub.id
            /\ g.ent = wrk[w].job.ent /\ g.at = wrk[w].next
      BY <1>4, <1>5, <2>2
    <3>2. PICK b : b = wrk[w].job.sub.starts
      OBVIOUS
    <3> HIDE DEF OldRow, Placed
    <3> QED
      BY <1>3, <3>1, <3>2
  <2> QED
    BY <2>1, <2>2
<1> QED
  BY <1>5 DEF EmissionCadence

----------------------------------------------------------------------------
(* The copies requests and passes hold.                                    *)

(* One interval after the latest grant is on the cadence.                  *)
LEMMA LatestOnCadence ==
  ASSUME EmissionInv, NEW j, KnownSub(j.sub), j.sub.plan \in Plans,
         Interval[j.sub.plan] > 0, NEW b \in LatestBase(j)
  PROVE  OnCadence(j.sub.id, j.ent, NextCycle(j.sub, b), j.sub.starts)
BY DEF LatestBase, OnCadence, NextCycle

(* One interval after the start is on the cadence.                         *)
LEMMA StartOnCadence ==
  ASSUME NEW j, j.sub.plan \in Plans, Interval[j.sub.plan] > 0
  PROVE  OnCadence(j.sub.id, j.ent, NextCycle(j.sub, j.sub.starts), j.sub.starts)
BY DEF OnCadence, NextCycle

(* A request only ever holds a row it just read.                           *)
LEMMA RequestCopies ==
  ASSUME EmissionInv, [Next]_vars
  PROVE  \A r \in Requests :
           req'[r].pc \in {"plan", "change"} =>
             \E s \in subs' : /\ s.id = req'[r].sub.id
                              /\ s.starts = req'[r].sub.starts
<1> USE DEF EmissionInv
<1>1. SubsKept
  BY KeepStep
<1>2. ASSUME NEW r \in Requests, req'[r].pc \in {"plan", "change"}
      PROVE  KnownSub(req'[r].sub)
  <2>1. CASE req'[r] = req[r]
    BY <1>2, <2>1 DEF Copies
  <2>2. ASSUME NEW q \in Requests, ChangeSubscriptionBegin(q)
        PROVE  KnownSub(req'[r].sub)
    <3>1. PICK s \in subs, p \in Plans, t \in AtInputs \cup {None} :
            req' = [req EXCEPT ![q] =
              [pc |-> "plan", sub |-> s, plan |-> p, at |-> t]]
      BY <2>2 DEF ChangeSubscriptionBegin
    <3>2. CASE q = r
      <4>1. req'[r].sub = s
        BY <3>1, <3>2 DEF TypeInv, TypeOK
      <4> QED
        BY <4>1 DEF KnownSub
    <3>3. CASE q # r
      BY <2>1, <3>1, <3>3 DEF TypeInv, TypeOK
    <3> QED
      BY <3>2, <3>3
  <2>3. ASSUME NEW q \in Requests, ChangeSubscriptionPlan(q)
        PROVE  KnownSub(req'[r].sub)
    <3>1. CASE q = r
      <4>1. req[r] \in RequestState /\ req[r].pc = "plan"
        BY <2>3, <3>1 DEF ChangeSubscriptionPlan, TypeInv, TypeOK
      <4>2. req[r] \in ChangeArgs("plan", Time \cup {None})
        BY <4>1 DEF RequestState, CreateArgs, ChangeArgs, Idle
      <4>3. req'[r].sub = req[r].sub
        BY <1>2, <2>3, <3>1, <4>2
        DEF ChangeSubscriptionPlan, ChangeArgs, Idle, TypeInv, TypeOK
      <4> QED
        BY <4>1, <4>3 DEF Copies
    <3>2. CASE q # r
      BY <2>1, <2>3, <3>2 DEF ChangeSubscriptionPlan, TypeInv, TypeOK
    <3> QED
      BY <3>1, <3>2
  <2>4. ASSUME NEW q \in Requests,
               \/ CreateSubscriptionBegin(q) \/ CreateSubscriptionCheck(q)
               \/ CreateSubscriptionCommit(q) \/ ChangeSubscriptionCommit(q)
               \/ RequestFails(q)
        PROVE  KnownSub(req'[r].sub)
    <3>1. CASE q = r
      <4>1. req[r] \in RequestState
        BY DEF TypeInv, TypeOK
      <4>2. req'[r].pc \in {"idle", "dup", "create"}
        <5>1. CASE CreateSubscriptionCheck(q)
          <6>1. req[r] \in CreateArgs("dup", Time \cup {None})
            BY <3>1, <4>1, <5>1
            DEF CreateSubscriptionCheck, RequestState, CreateArgs, ChangeArgs,
                Idle
          <6> DEFINE n == [req[r] EXCEPT !.pc = "create",
                             !.at = IF req[r].at = None THEN now ELSE req[r].at]
          <6>2. n.pc = "create"
            BY <6>1 DEF CreateArgs
          <6>3. req'[r] = Idle \/ req'[r] = n
            BY <3>1, <5>1 DEF CreateSubscriptionCheck, TypeInv, TypeOK
          <6> HIDE DEF n
          <6> QED
            BY <6>2, <6>3 DEF Idle
        <5> QED
          BY <2>4, <3>1, <5>1
          DEF CreateSubscriptionBegin, CreateSubscriptionCommit,
              ChangeSubscriptionCommit, RequestFails, Idle, TypeInv, TypeOK
      <4> QED
        BY <1>2, <4>2
    <3>2. CASE q # r
      BY <2>1, <2>4, <3>2
      DEF CreateSubscriptionBegin, CreateSubscriptionCheck,
          CreateSubscriptionCommit, ChangeSubscriptionCommit, RequestFails,
          TypeInv, TypeOK
    <3> QED
      BY <3>1, <3>2
  <2>5. CASE UNCHANGED req
    BY <2>1, <2>5
  <2> QED
    BY <2>2, <2>3, <2>4, <2>5
    DEF Next, Tick, RequestBegin, RequestStep, StatementStep, WorkerStep,
        WorkerFault, vars, CancelSubscription, CreateGrant, VoidGrant,
        ArchivePlan, CreateEntitlement, DeleteEntitlement,
        ListRecurringSubscriptions, ExpandSubscription, StartLoop, ReadLatest,
        ReadLatestFails, InsertGrant, SkipEntry, PassAborts
<1> QED
  BY <1>1, <1>2 DEF SubsKept, KnownSub

(* A pass holds rows it listed, and what it goes on to insert is the next  *)
(* cycle after a grant it read, or after the start.                        *)
LEMMA PassCopies ==
  ASSUME EmissionInv, [Next]_vars, NEW w \in Workers
  PROVE  /\ \A s \in wrk'[w].listed : KnownSub(s) /\ Interval[s.plan] > 0
         /\ \A j \in wrk'[w].jobs :
              KnownSub(j.sub) /\ Interval[j.sub.plan] > 0
         /\ wrk'[w].now <= now
         /\ wrk'[w].pc = "insert" => PendingInsert(wrk'[w])
<1> USE DEF EmissionInv
<1> DEFINE Good(p) ==
             /\ \A s \in p.listed : KnownSub(s) /\ Interval[s.plan] > 0
             /\ \A j \in p.jobs : KnownSub(j.sub) /\ Interval[j.sub.plan] > 0
             /\ p.now <= now
             /\ p.pc = "insert" => PendingInsert(p)
<1>1. Good(wrk[w])
  BY DEF Copies, Pending
<1>2. Good(Resting)
  BY TimeAssumption DEF Resting, TypeInv, TypeOK, Time
<1>3. ASSUME NEW jobs, jobs \subseteq wrk[w].jobs, NEW t, t <= now
      PROVE  Good(Loop(jobs, t))
  BY <1>1, <1>2, <1>3 DEF Loop
<1>4. wrk[w] \in PassState /\ wrk \in [Workers -> PassState]
  BY DEF TypeInv, TypeOK
<1>5. CASE ListRecurringSubscriptions(w)
  <2>1. wrk'[w] = Resting \/
        wrk'[w] = [pc |-> "expand", listed |-> {s \in subs : Recurring(s)},
                   jobs |-> {}, now |-> 0]
    BY <1>4, <1>5 DEF ListRecurringSubscriptions
  <2>2. Good([pc |-> "expand", listed |-> {s \in subs : Recurring(s)},
              jobs |-> {}, now |-> 0])
    BY TimeAssumption DEF Recurring, KnownSub, TypeInv, TypeOK, Time
  <2> HIDE DEF Good
  <2>3. Good(wrk'[w])
    BY <1>2, <2>1, <2>2
  <2> QED
    BY <2>3 DEF Good
<1>6. CASE ExpandSubscription(w)
  <2>1. PICK s \in wrk[w].listed :
          wrk' = [wrk EXCEPT
            ![w].listed = @ \ {s},
            ![w].jobs = @ \cup {[sub |-> s, entry |-> x[1], ent |-> x[2].id] :
                                  x \in EntryTargets(s.plan, s.customer, ents)}]
    BY <1>6 DEF ExpandSubscription
  <2> DEFINE new == {[sub |-> s, entry |-> x[1], ent |-> x[2].id] :
                       x \in EntryTargets(s.plan, s.customer, ents)}
  <2>2. wrk[w] \in ReadingPass /\ wrk[w].pc = "expand"
    BY <1>4, <1>6 DEF ExpandSubscription, PassState, InsertingPass
  <2>3. /\ wrk'[w].listed = wrk[w].listed \ {s} /\ wrk'[w].now = wrk[w].now
        /\ wrk'[w].jobs = wrk[w].jobs \cup new /\ wrk'[w].pc = "expand"
    BY <1>4, <2>1, <2>2 DEF ReadingPass
  <2>4. \A j \in new : j.sub = s
    OBVIOUS
  <2>5. KnownSub(s) /\ Interval[s.plan] > 0
    BY <1>1
  <2> HIDE DEF new
  <2> QED
    BY <1>1, <2>3, <2>4, <2>5
<1>7. CASE StartLoop(w)
  <2>1. wrk'[w] = Loop(wrk[w].jobs, now)
    BY <1>4, <1>7 DEF StartLoop
  <2>2. Good(Loop(wrk[w].jobs, now))
    BY <1>3 DEF TypeInv, TypeOK, Time
  <2> QED
    BY <2>1, <2>2
<1>8. ASSUME NEW j \in wrk[w].jobs, NextJob(w, j), NEW b, Weigh(w, j, b),
             b = j.sub.starts \/ b \in LatestBase(j)
      PROVE  Good(wrk'[w])
  <2> DEFINE next == NextCycle(j.sub, b)
             n == [pc |-> "insert", listed |-> {}, jobs |-> wrk[w].jobs \ {j},
                   now |-> wrk[w].now, job |-> j, next |-> next]
  <2>1. KnownSub(j.sub) /\ Interval[j.sub.plan] > 0
    BY <1>1
  <2>2. OnCadence(j.sub.id, j.ent, next, j.sub.starts)
    BY <1>8, <2>1, LatestOnCadence, StartOnCadence, ReadState
  <2>3. CASE ~Due(next, wrk[w].now)
    <3>1. wrk'[w] = Loop(wrk[w].jobs \ {j}, wrk[w].now)
      BY <1>4, <1>8, <2>3 DEF Weigh
    <3>2. Good(Loop(wrk[w].jobs \ {j}, wrk[w].now))
      BY <1>1, <1>3
    <3> QED
      BY <3>1, <3>2
  <2>4. CASE Due(next, wrk[w].now)
    <3>1. wrk'[w] = n
      BY <1>4, <1>8, <2>4 DEF Weigh
    <3>2. PendingInsert(n)
      BY <2>1, <2>2, <2>4 DEF PendingInsert, Due
    <3>3. Good(n)
      BY <1>1, <3>2
    <3> QED
      BY <3>1, <3>3
  <2> QED
    BY <2>3, <2>4
<1>9. CASE ReadLatest(w)
  <2>1. Good(wrk'[w])
    BY <1>8, <1>9 DEF ReadLatest
  <2> QED
    BY <2>1
<1>10. CASE ReadLatestFails(w)
  <2>1. Good(wrk'[w])
    BY <1>8, <1>10 DEF ReadLatestFails
  <2> QED
    BY <2>1
<1>11. ASSUME InsertGrant(w) \/ SkipEntry(w)
       PROVE  Good(wrk'[w])
  <2>1. PICK jobs \in SUBSET wrk[w].jobs : wrk'[w] = Loop(jobs, wrk[w].now)
    BY <1>4, <1>11 DEF InsertGrant, SkipEntry
  <2>2. Good(Loop(jobs, wrk[w].now))
    BY <1>1, <1>3
  <2> QED
    BY <2>1, <2>2
<1>12. CASE PassAborts(w)
  <2>1. wrk'[w] = Resting
    BY <1>4, <1>12 DEF PassAborts
  <2> QED
    BY <1>2, <2>1
<1>13. CASE wrk'[w] = wrk[w]
  BY <1>1, <1>13
<1>14. ASSUME NEW v \in Workers, v # w, WorkerStep(v) \/ WorkerFault(v)
       PROVE  wrk'[w] = wrk[w]
  BY <1>4, <1>14
  DEF WorkerStep, WorkerFault, ListRecurringSubscriptions, ExpandSubscription,
      StartLoop, ReadLatest, ReadLatestFails, Weigh, InsertGrant, SkipEntry,
      PassAborts
<1>15. \/ WorkerStep(w) \/ WorkerFault(w)
       \/ \E v \in Workers : v # w /\ (WorkerStep(v) \/ WorkerFault(v))
       \/ UNCHANGED wrk
  BY DEF Next, Tick, RequestBegin, RequestStep, StatementStep, vars,
         CreateSubscriptionBegin, ChangeSubscriptionBegin,
         CreateSubscriptionCheck, CreateSubscriptionCommit,
         ChangeSubscriptionPlan, ChangeSubscriptionCommit, RequestFails,
         CancelSubscription, CreateGrant, VoidGrant, ArchivePlan,
         CreateEntitlement, DeleteEntitlement
<1> QED
  BY <1>5, <1>6, <1>7, <1>9, <1>10, <1>11, <1>12, <1>13, <1>14, <1>15
  DEF WorkerStep, WorkerFault

(* Every step keeps what requests and passes hold true of the tables.      *)
LEMMA CopiesStep ==
  ASSUME EmissionInv, [Next]_vars
  PROVE  Copies' /\ Pending'
<1> USE DEF EmissionInv
<1>1. SubsKept /\ GrantsKept
  BY KeepStep
<1>2. now \in Nat /\ now <= now'
  <2>1. now' = now \/ now' = now + 1
    BY DEF Next, Tick, RequestBegin, RequestStep, StatementStep, WorkerStep,
           WorkerFault, vars, tables, CreateSubscriptionBegin,
           ChangeSubscriptionBegin, CreateSubscriptionCheck,
           CreateSubscriptionCommit, ChangeSubscriptionPlan,
           ChangeSubscriptionCommit, RequestFails, CancelSubscription,
           CreateGrant, VoidGrant, ArchivePlan, CreateEntitlement,
           DeleteEntitlement, ListRecurringSubscriptions, ExpandSubscription,
           StartLoop, ReadLatest, ReadLatestFails, InsertGrant, SkipEntry,
           PassAborts
  <2> QED
    BY <2>1, TimeAssumption DEF TypeInv, TypeOK, Time
<1>3. TypeInv'
  BY TypeStep
<1>4. ASSUME NEW c, KnownSub(c)
      PROVE  \E s \in subs' : s.id = c.id /\ s.starts = c.starts
  BY <1>1, <1>4 DEF KnownSub, SubsKept
<1>5. ASSUME NEW w \in Workers
      PROVE  /\ \A s \in wrk'[w].listed :
                  /\ \E x \in subs' : x.id = s.id /\ x.starts = s.starts
                  /\ Interval[s.plan] > 0
             /\ \A j \in wrk'[w].jobs :
                  /\ \E x \in subs' : x.id = j.sub.id /\ x.starts = j.sub.starts
                  /\ Interval[j.sub.plan] > 0
             /\ wrk'[w].now <= now'
  <2>1. wrk'[w].now \in Nat
    BY <1>3 DEF TypeInv, TypeOK, PassState, ReadingPass, InsertingPass, Time
  <2>2. wrk'[w].now <= now'
    BY <1>2, <1>3, <2>1, PassCopies, TimeAssumption DEF TypeInv, TypeOK, Time
  <2> QED
    BY <1>4, <2>2, PassCopies
<1>6. Copies'
  BY <1>5, RequestCopies DEF Copies, KnownSub
<1>7. ASSUME NEW w \in Workers, wrk'[w].pc = "insert"
      PROVE  PendingInsert(wrk[w])'
  <2>1. PendingInsert(wrk'[w])
    BY <1>7, PassCopies
  <2>2. \A i, e, t, b : OnCadence(i, e, t, b) => OnCadence(i, e, t, b)'
    BY <1>1, CadenceKept
  <2> QED
    BY <1>4, <2>1, <2>2 DEF PendingInsert, KnownSub
<1> QED
  BY <1>6, <1>7 DEF Pending

----------------------------------------------------------------------------
(* The strengthened invariant always holds.                                *)
LEMMA EmissionInvInductive == Spec => []EmissionInv
<1>1. Init => Owners /\ Copies /\ Pending /\ EmissionUnique /\ EmissionCadence
  BY DEF Init, Owners, Copies, Pending, EmissionUnique, EmissionCadence,
         Resting, Idle
<1>2. TypeInv /\ Init => EmissionInv
  BY <1>1 DEF EmissionInv
<1>3. EmissionInv /\ [Next]_vars => EmissionInv'
  BY TypeStep, OwnersStep, CopiesStep, UniqueStep, CadenceStep DEF EmissionInv
<1> QED
  BY <1>2, <1>3, TypeInvInductive, PTL DEF Spec

(* However many workers, requests and clients there are, no cycle of a     *)
(* subscription has two grants in force on one entitlement.                *)
THEOREM CreditedOnce == Spec => []EmissionUnique
BY EmissionInvInductive, PTL DEF EmissionInv

(* Whatever fails or overlaps, every grant the worker ever emitted sits a  *)
(* whole interval after an earlier one or after the start, and none was    *)
(* emitted before it was due.                                              *)
THEOREM OnlyOnCadence == Spec => []EmissionCadence
BY EmissionInvInductive, PTL DEF EmissionInv

(* A grant that names a subscription names one that exists.                *)
COROLLARY GrantsOwned == Spec => []Owners
BY EmissionInvInductive, PTL DEF EmissionInv
=============================================================================

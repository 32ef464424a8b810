--------------------------- MODULE AccountProofs ---------------------------
(***************************************************************************)
(* Whose subscription, entitlement and grant is whose, and what a          *)
(* transaction leaves behind: the whole of a plan or nothing, one live     *)
(* entitlement per feature, the first grants of one plan at a time.        *)
(***************************************************************************)
EXTENDS EmissionProofs

----------------------------------------------------------------------------
(* The invariant.  An id names one row, and every copy of a row that a     *)
(* pass or a change holds is of the same customer's subscription, together *)
(* with an entitlement of that customer.                                   *)

Ids == \A s, t \in subs : s.id = t.id => s = t

SameAccount(c) == \E s \in subs : /\ s.id = c.id /\ s.customer = c.customer
                                  /\ s.starts = c.starts
OwnJob(j) ==
  /\ SameAccount(j.sub)
  /\ j.ent.customer = j.sub.customer
  /\ \E e \in ents : e.id = j.ent

OwnPass(p) ==
  /\ \A s \in p.listed : SameAccount(s)
  /\ \A j \in p.jobs : OwnJob(j)
  /\ p.pc = "insert" => OwnJob(p.job)

Held ==
  /\ \A w \in Workers : OwnPass(wrk[w])
  /\ \A r \in Requests :
       req[r].pc \in {"plan", "change"} => SameAccount(req[r].sub)

(* With ids that name one row, the unique index of active subscriptions.   *)
OneActivePerPlan ==
  \A s, t \in subs : /\ Active(s) /\ Active(t)
                     /\ s.customer = t.customer /\ s.plan = t.plan
                     => s = t

(* A subscription was granted, voided since or not, each feature that the  *)
(* plan it is on grants.                                                   *)
InitialGranted ==
  \A s \in subs : \A i \in GrantEntries(s.plan) :
    \E g \in grants : /\ g.sub = s.id /\ g.via = "materialize"
                      /\ g.ent.customer = s.customer
                      /\ g.ent.feature = Entries[s.plan][i].feature

(* The grants G that agree with g in (subscription, entitlement,           *)
(* effective_at), and their generation numbers: these tell them apart and  *)
(* are below their number, so that the next one is free.                   *)
Peers(g, G) == {h \in G : SameKey(h, g.sub, g.ent, g.at)}

Numbered(G) ==
  \A g \in G :
    /\ g.gen \in Nat /\ g.gen < Cardinality(Peers(g, G))
    /\ \A h \in Peers(g, G) : h.gen = g.gen => h = g

AccountInv ==
  /\ EmissionInv
  /\ Ids /\ Held
  /\ OneActivePerPlan /\ OwnCustomer /\ SingleEpoch /\ InitialGranted
  /\ Numbered(grants)

----------------------------------------------------------------------------
(* Kinds of step by what they do to a table.                               *)

(* Steps that write subscriptions.                                         *)
LEMMA SubStepKinds ==
  ASSUME [Next]_vars
  PROVE  \/ \E r \in Requests :
              CreateSubscriptionCommit(r) \/ ChangeSubscriptionCommit(r)
         \/ \E s \in subs, at \in AtInputs \cup {now} : CancelSubscription(s, at)
         \/ UNCHANGED subs
BY DEF Next, Tick, RequestBegin, RequestStep, StatementStep, WorkerStep,
       WorkerFault, vars, tables, CreateSubscriptionBegin,
       ChangeSubscriptionBegin, CreateSubscriptionCheck,
       ChangeSubscriptionPlan, RequestFails, ArchivePlan, CreateEntitlement,
       DeleteEntitlement, CreateGrant, VoidGrant, ListRecurringSubscriptions,
       ExpandSubscription, StartLoop, ReadLatest, ReadLatestFails,
       InsertGrant, SkipEntry, PassAborts

(* Steps that write entitlements.                                          *)
LEMMA EntStepKinds ==
  ASSUME [Next]_vars
  PROVE  \/ \E r \in Requests :
              CreateSubscriptionCommit(r) \/ ChangeSubscriptionCommit(r)
         \/ \E c \in Customers, f \in Features :
              CreateEntitlement(c, f) \/ DeleteEntitlement(c, f)
         \/ UNCHANGED ents
BY DEF Next, Tick, RequestBegin, RequestStep, StatementStep, WorkerStep,
       WorkerFault, vars, tables, CreateSubscriptionBegin,
       ChangeSubscriptionBegin, CreateSubscriptionCheck,
       ChangeSubscriptionPlan, RequestFails, ArchivePlan, CancelSubscription,
       CreateGrant, VoidGrant, ListRecurringSubscriptions,
       ExpandSubscription, StartLoop, ReadLatest, ReadLatestFails,
       InsertGrant, SkipEntry, PassAborts

(* The transactions' subscriptions are of known shape.                     *)
LEMMA CommitArgs ==
  ASSUME TypeInv, NEW r \in Requests
  PROVE  /\ req[r].pc = "create" =>
              /\ req[r].customer \in Customers /\ req[r].plan \in Plans
              /\ req[r].at \in Time
         /\ req[r].pc = "change" =>
              /\ req[r].sub \in SubRow /\ req[r].plan \in Plans
              /\ req[r].at \in Time
<1>1. req[r] \in RequestState
  BY DEF TypeInv, TypeOK
<1> QED
  BY <1>1 DEF RequestState, CreateArgs, ChangeArgs, Idle

(* What an UPDATE of one column leaves of a row.                           *)
LEMMA SubUpdates ==
  ASSUME NEW s \in SubRow, NEW p, NEW at, NEW e
  PROVE  LET a == [s EXCEPT !.plan = p]
             b == [s EXCEPT !.canceled = at, !.ends = e]
         IN  /\ a.id = s.id /\ a.customer = s.customer /\ a.starts = s.starts
             /\ a.canceled = s.canceled /\ a.plan = p
             /\ b.id = s.id /\ b.customer = s.customer /\ b.starts = s.starts
             /\ b.plan = s.plan /\ b.canceled = at
BY DEF SubRow

----------------------------------------------------------------------------
(* Subscriptions.                                                          *)

(* The rows after a change: the same, but for the plan of the one changed. *)
LEMMA ChangeRows ==
  ASSUME TypeInv, NEW r \in Requests, ChangeSubscriptionCommit(r), NEW x \in subs'
  PROVE  \E s \in subs :
           /\ x.id = s.id /\ x.customer = s.customer /\ x.starts = s.starts
           /\ x.canceled = s.canceled
           /\ x = IF s.id = req[r].sub.id THEN [s EXCEPT !.plan = req[r].plan]
                                          ELSE s
           /\ x.plan = IF s.id = req[r].sub.id THEN req[r].plan ELSE s.plan
<1>1. PICK s \in subs :
        x = IF s.id = req[r].sub.id THEN [s EXCEPT !.plan = req[r].plan] ELSE s
  BY DEF ChangeSubscriptionCommit
<1>2. s \in SubRow
  BY DEF TypeInv, TypeOK
<1> DEFINE y == [s EXCEPT !.plan = req[r].plan]
<1>3. /\ y.id = s.id /\ y.customer = s.customer /\ y.starts = s.starts
      /\ y.canceled = s.canceled /\ y.plan = req[r].plan
  BY <1>2, SubUpdates
<1>4. x = IF s.id = req[r].sub.id THEN y ELSE s
  BY <1>1
<1> HIDE DEF y
<1> QED
  BY <1>3, <1>4 DEF y

(* What cancelling c at `at' makes of a row.                               *)
AfterCancel(s, c, at) ==
  IF s = c /\ Active(s)
    THEN [s EXCEPT !.canceled = at, !.ends = IF @ = None THEN at ELSE @]
    ELSE s

(* The rows after a cancellation: the same, but for the one cancelled,     *)
(* which is not active any more.                                           *)
LEMMA CancelRows ==
  ASSUME TypeInv, NEW c \in subs, NEW at \in AtInputs \cup {now},
         CancelSubscription(c, at), NEW x \in subs'
  PROVE  \E s \in subs :
           /\ x.id = s.id /\ x.customer = s.customer /\ x.starts = s.starts
           /\ x.plan = s.plan
           /\ Active(x) => x = s
           /\ x = AfterCancel(s, c, at)
<1>1. PICK s \in subs : x = AfterCancel(s, c, at)
  BY DEF CancelSubscription, AfterCancel
<1>2. s \in SubRow /\ at # None
  BY TimeAssumption DEF TypeInv, TypeOK, Time, None
<1>3. CASE s = c /\ Active(s)
  <2> DEFINE y == [s EXCEPT !.canceled = at,
                            !.ends = IF s.ends = None THEN at ELSE s.ends]
  <2>1. x = y
    BY <1>1, <1>3 DEF AfterCancel
  <2>2. /\ y.id = s.id /\ y.customer = s.customer /\ y.starts = s.starts
        /\ y.plan = s.plan /\ y.canceled = at
    BY <1>2, SubUpdates
  <2>3. ~Active(x)
    BY <1>2, <2>1, <2>2 DEF Active
  <2> QED
    BY <1>1, <2>1, <2>2, <2>3
<1>4. CASE ~(s = c /\ Active(s))
  BY <1>1, <1>4 DEF AfterCancel
<1> QED
  BY <1>3, <1>4

(* An id still names one row, and a customer still has one active          *)
(* subscription to a plan: the insert and the update go through the unique *)
(* index, and a cancellation activates nothing.                            *)
LEMMA SubscriptionsStep ==
  ASSUME AccountInv, [Next]_vars
  PROVE  Ids' /\ OneActivePerPlan'
<1> USE DEF AccountInv, EmissionInv
<1>1. ASSUME NEW r \in Requests, CreateSubscriptionCommit(r)
      PROVE  Ids' /\ ActivePlanUniq(subs')
  <2>1. PICK i \in SubIds \ {s.id : s \in subs} :
          /\ subs' = subs \cup
               {[id |-> i, customer |-> req[r].customer, plan |-> req[r].plan,
                 starts |-> req[r].at, ends |-> req[r].ends, canceled |-> None]}
          /\ ActivePlanUniq(subs')
    BY <1>1 DEF CreateSubscriptionCommit
  <2> QED
    BY <2>1 DEF Ids
<1>2. ASSUME NEW r \in Requests, ChangeSubscriptionCommit(r)
      PROVE  Ids' /\ ActivePlanUniq(subs')
  <2>1. Ids'
    BY <1>2, ChangeRows DEF Ids
  <2> QED
    BY <1>2, <2>1 DEF ChangeSubscriptionCommit
<1>3. ASSUME NEW s \in subs, NEW at \in AtInputs \cup {now},
             CancelSubscription(s, at)
      PROVE  Ids' /\ OneActivePerPlan'
  <2>0. \A y \in subs' : \E x \in subs :
          y.id = x.id /\ (Active(y) => y = x) /\ y = AfterCancel(x, s, at)
    BY <1>3, CancelRows
  <2>1. Ids'
    BY <2>0 DEF Ids
  <2>2. \A x \in subs' : Active(x) => x \in subs
    BY <2>0
  <2> QED
    BY <2>1, <2>2 DEF OneActivePerPlan
<1>4. CASE UNCHANGED subs
  BY <1>4 DEF Ids, OneActivePerPlan
<1>5. ASSUME Ids', ActivePlanUniq(subs')
      PROVE  OneActivePerPlan'
  BY <1>5 DEF Ids, ActivePlanUniq, OneActivePerPlan, Active
<1> QED
  BY <1>1, <1>2, <1>3, <1>4, <1>5, SubStepKinds

----------------------------------------------------------------------------
(* Entitlements, and what grants sit on.                                   *)

(* A copied row stays a copy of a row with its customer and start.         *)
LEMMA AccountKept ==
  ASSUME SubsKept, NEW c, SameAccount(c)
  PROVE  \E s \in subs' : /\ s.id = c.id /\ s.customer = c.customer
                          /\ s.starts = c.starts
BY DEF SubsKept, SameAccount

(* An entitlement that exists keeps existing.                              *)
LEMMA EntIdKept ==
  ASSUME EntsKept, NEW i, \E e \in ents : e.id = i
  PROVE  \E e \in ents' : e.id = i
BY DEF EntsKept

(* The rows a transaction adds to the entitlements.                        *)
LEMMA MissingRows ==
  ASSUME NEW s, NEW c, NEW p, NEW x \in MissingEnts(s, c, p)
  PROVE  /\ x.id.customer = c /\ x.sub = s
         /\ EntitlementFree(c, x.id.feature)
         /\ \A y \in MissingEnts(s, c, p) :
              y.id.feature = x.id.feature => y = x
<1> DEFINE row(f) == [id |-> [customer |-> c, feature |-> f,
                              gen |-> NextEntGen(c, f)],
                      sub |-> s, deleted |-> FALSE]
<1>1. \A y \in MissingEnts(s, c, p) : \E f : EntitlementFree(c, f) /\ y = row(f)
  BY DEF MissingEnts
<1>2. \A f : row(f).id.customer = c /\ row(f).id.feature = f /\ row(f).sub = s
  OBVIOUS
<1> HIDE DEF row
<1> QED
  BY <1>1, <1>2

(* The grants a transaction adds sit on the customer's entitlements.       *)
LEMMA PlanGrantEnts ==
  ASSUME NEW s, NEW c, NEW p, NEW t, NEW E, NEW g \in PlanGrants(s, c, p, t, E)
  PROVE  \E e \in E : e.id = g.ent /\ e.id.customer = c
<1>1. PICK x \in EntryTargets(p, c, E) : g = NewGrant(s, x[2].id, t, "materialize")
  BY DEF PlanGrants
<1>2. g.ent = x[2].id /\ x[2] \in E /\ x[2].id.customer = c
  BY <1>1 DEF NewGrant, EntryTargets, Live
<1> QED
  BY <1>2

(* A new subscription's row is there after its transaction.                *)
LEMMA CreateRow ==
  ASSUME NEW r \in Requests, CreateSubscriptionCommit(r)
  PROVE  \E i \in SubIds \ {s.id : s \in subs} :
           /\ \E x \in subs' : /\ x.id = i /\ x.customer = req[r].customer
                               /\ x.starts = req[r].at /\ x.plan = req[r].plan
                               /\ subs' = subs \cup {x}
           /\ ~EntriesCollide(req[r].plan)
           /\ ents' = ents \cup MissingEnts(i, req[r].customer, req[r].plan)
           /\ grants' = grants \cup
                PlanGrants(i, req[r].customer, req[r].plan, req[r].at, ents')
<1>1. PICK i \in SubIds \ {s.id : s \in subs} :
        /\ subs' = subs \cup
             {[id |-> i, customer |-> req[r].customer, plan |-> req[r].plan,
               starts |-> req[r].at, ends |-> req[r].ends, canceled |-> None]}
        /\ ~EntriesCollide(req[r].plan)
        /\ ents' = ents \cup MissingEnts(i, req[r].customer, req[r].plan)
        /\ grants' = grants \cup
             PlanGrants(i, req[r].customer, req[r].plan, req[r].at, ents')
  BY DEF CreateSubscriptionCommit, MaterializeEntries
<1> DEFINE x == [id |-> i, customer |-> req[r].customer, plan |-> req[r].plan,
                 starts |-> req[r].at, ends |-> req[r].ends, canceled |-> None]
<1>2. /\ x.id = i /\ x.customer = req[r].customer
      /\ x.starts = req[r].at /\ x.plan = req[r].plan
  OBVIOUS
<1>3. x \in subs' /\ subs' = subs \cup {x}
  BY <1>1
<1> HIDE DEF x
<1> QED
  BY <1>1, <1>2, <1>3

(* Where a grant of the next state comes from.                             *)
LEMMA GrantSource ==
  ASSUME AccountInv, [Next]_vars, NEW g \in grants'
  PROVE  \/ \E h \in grants : /\ h.sub = g.sub /\ h.ent = g.ent /\ h.at = g.at
                               /\ h.via = g.via
         \/ g.sub = NoSub /\ g.via = "api" /\ \E e \in ents : e.id = g.ent
         \/ \E w \in Workers :
              /\ InsertGrant(w) /\ wrk[w].pc = "insert" /\ g.via = "worker"
              /\ g.sub = wrk[w].job.sub.id /\ g.ent = wrk[w].job.ent
         \/ /\ \E r \in Requests :
                 CreateSubscriptionCommit(r) \/ ChangeSubscriptionCommit(r)
            /\ \E e \in ents' : e.id = g.ent
            /\ \E s \in subs' : s.id = g.sub /\ s.customer = g.ent.customer
            /\ g.via = "materialize"
<1> USE DEF AccountInv, EmissionInv
<1>1. SubsKept
  BY KeepStep
<1>2. ASSUME NEW r \in Requests, CreateSubscriptionCommit(r), g \notin grants
      PROVE  /\ \E e \in ents' : e.id = g.ent
             /\ \E s \in subs' : s.id = g.sub /\ s.customer = g.ent.customer
             /\ g.via = "materialize"
  <2>1. PICK i \in SubIds :
          /\ \E x \in subs' : x.id = i /\ x.customer = req[r].customer
          /\ grants' = grants \cup
               PlanGrants(i, req[r].customer, req[r].plan, req[r].at, ents')
    BY <1>2, CreateRow
  <2>2. g \in PlanGrants(i, req[r].customer, req[r].plan, req[r].at, ents')
    BY <1>2, <2>1
  <2>3. g.sub = i /\ g.via = "materialize"
    BY <2>2, PlanGrantRows
  <2>4. \E e \in ents' : e.id = g.ent /\ e.id.customer = req[r].customer
    BY <2>2, PlanGrantEnts
  <2> QED
    BY <2>1, <2>3, <2>4
<1>3. ASSUME NEW r \in Requests, ChangeSubscriptionCommit(r),
             g \notin VoidAll(req[r].sub.id)
      PROVE  /\ \E e \in ents' : e.id = g.ent
             /\ \E s \in subs' : s.id = g.sub /\ s.customer = g.ent.customer
             /\ g.via = "materialize"
  <2> DEFINE q == req[r].sub
  <2>1. grants' = VoidAll(q.id) \cup
          PlanGrants(q.id, q.customer, req[r].plan, req[r].at, ents')
    BY <1>3 DEF ChangeSubscriptionCommit, MaterializeEntries
  <2>2. g \in PlanGrants(q.id, q.customer, req[r].plan, req[r].at, ents')
    BY <1>3, <2>1
  <2>3. SameAccount(q)
    BY <1>3 DEF Held, ChangeSubscriptionCommit
  <2>4. \E s \in subs' : s.id = q.id /\ s.customer = q.customer
    BY <1>1, <2>3, AccountKept
  <2>5. g.sub = q.id /\ g.via = "materialize"
    BY <2>2, PlanGrantRows
  <2>6. \E e \in ents' : e.id = g.ent /\ e.id.customer = q.customer
    BY <2>2, PlanGrantEnts
  <2> QED
    BY <2>4, <2>5, <2>6
<1>4. ASSUME NEW s \in subs, NEW at, CancelSubscription(s, at)
      PROVE  g \in VoidAll(s.id)
  BY <1>4 DEF CancelSubscription
<1>5. ASSUME NEW e \in ents, NEW t, CreateGrant(e, t), g \notin grants
      PROVE  g.sub = NoSub /\ g.via = "api" /\ g.ent = e.id
  BY <1>5 DEF CreateGrant, NewGrant
<1>6. ASSUME NEW h \in grants, VoidGrant(h), g \notin grants
      PROVE  /\ h.sub = g.sub /\ h.ent = g.ent /\ h.at = g.at /\ h.via = g.via
  BY <1>6 DEF VoidGrant, TypeInv, TypeOK, GrantRow
<1>7. ASSUME NEW w \in Workers, InsertGrant(w), g \notin grants
      PROVE  /\ wrk[w].pc = "insert" /\ g.via = "worker"
             /\ g.sub = wrk[w].job.sub.id /\ g.ent = wrk[w].job.ent
  BY <1>7 DEF InsertGrant, NewGrant
<1> QED
  BY <1>2, <1>3, <1>4, <1>5, <1>6, <1>7, VoidAllRows, StepKinds

(* Every step keeps each grant on an entitlement of the customer its       *)
(* subscription belongs to.                                                *)
LEMMA GrantsStep ==
  ASSUME AccountInv, [Next]_vars, NEW g \in grants'
  PROVE  /\ \E e \in ents' : e.id = g.ent
         /\ g.sub # NoSub => \E s \in subs' : /\ s.id = g.sub
                                             /\ s.customer = g.ent.customer
<1>0. \/ \E h \in grants : h.sub = g.sub /\ h.ent = g.ent
      \/ g.sub = NoSub /\ \E e \in ents : e.id = g.ent
      \/ \E w \in Workers : /\ wrk[w].pc = "insert" /\ g.ent = wrk[w].job.ent
                            /\ g.sub = wrk[w].job.sub.id
      \/ /\ \E e \in ents' : e.id = g.ent
         /\ \E s \in subs' : s.id = g.sub /\ s.customer = g.ent.customer
  BY GrantSource
<1>1. SubsKept /\ EntsKept
  BY KeepStep DEF AccountInv, EmissionInv
<1>2. ASSUME NEW i, NEW e, \E x \in ents : x.id = e,
             i # NoSub => \E s \in subs : s.id = i /\ s.customer = e.customer
      PROVE  /\ \E x \in ents' : x.id = e
             /\ i # NoSub => \E s \in subs' : s.id = i /\ s.customer = e.customer
  BY <1>1, <1>2 DEF SubsKept, EntsKept
<1>3. \A h \in grants :
        /\ \E x \in ents : x.id = h.ent
        /\ h.sub # NoSub => \E s \in subs : s.id = h.sub /\ s.customer = h.ent.customer
  BY DEF OwnCustomer, AccountInv
<1>4. CASE \E h \in grants : h.sub = g.sub /\ h.ent = g.ent
  BY <1>2, <1>3, <1>4
<1>5. CASE g.sub = NoSub /\ \E e \in ents : e.id = g.ent
  BY <1>2, <1>5
<1>6. ASSUME NEW w \in Workers, wrk[w].pc = "insert",
             g.sub = wrk[w].job.sub.id, g.ent = wrk[w].job.ent
      PROVE  /\ \E x \in ents : x.id = g.ent
             /\ \E s \in subs : s.id = g.sub /\ s.customer = g.ent.customer
  <2>1. OwnJob(wrk[w].job)
    BY <1>6 DEF AccountInv, Held, OwnPass
  <2> QED
    BY <1>6, <2>1 DEF OwnJob, SameAccount
<1> QED
  BY <1>0, <1>2, <1>4, <1>5, <1>6

(* Every step keeps one live entitlement to a feature, and plan-created    *)
(* ones with the subscription's own customer.                              *)
LEMMA EntitlementsStep ==
  ASSUME AccountInv, [Next]_vars
  PROVE  /\ \A e \in ents' : e.sub # NoSub =>
              \E s \in subs' : s.id = e.sub /\ s.customer = e.id.customer
         /\ \A e, f \in ents' :
              /\ ~e.deleted /\ ~f.deleted
              /\ e.id.customer = f.id.customer /\ e.id.feature = f.id.feature
              => e = f
<1> USE DEF AccountInv, EmissionInv
<1> DEFINE Mine(e) == e.sub # NoSub =>
             \E s \in subs' : s.id = e.sub /\ s.customer = e.id.customer
           Alike(e, f) == /\ ~e.deleted /\ ~f.deleted
                          /\ e.id.customer = f.id.customer
                          /\ e.id.feature = f.id.feature
           One(E) == \A e, f \in E : Alike(e, f) => e = f
<1>1. SubsKept
  BY KeepStep
<1>2. One(ents)
  BY DEF OwnCustomer, Live
<1>3. \A e \in ents : Mine(e)
  BY <1>1 DEF OwnCustomer, SubsKept
<1>4. ASSUME NEW s, NEW c, NEW p, ents' = ents \cup MissingEnts(s, c, p),
             \E x \in subs' : x.id = s /\ x.customer = c
      PROVE  One(ents') /\ \A e \in ents' : Mine(e)
  <2>1. \A e \in ents, f \in MissingEnts(s, c, p) : ~Alike(e, f)
    BY MissingRows DEF EntitlementFree, Live
  <2>2. \A e, f \in MissingEnts(s, c, p) : Alike(e, f) => e = f
    BY MissingRows
  <2>3. One(ents')
    BY <1>2, <1>4, <2>1, <2>2
  <2>4. \A e \in MissingEnts(s, c, p) : Mine(e)
    BY <1>4, MissingRows
  <2> QED
    BY <1>3, <1>4, <2>3, <2>4
<1>5. ASSUME NEW r \in Requests, CreateSubscriptionCommit(r)
      PROVE  One(ents') /\ \A e \in ents' : Mine(e)
  <2>1. PICK i \in SubIds :
          /\ \E x \in subs' : x.id = i /\ x.customer = req[r].customer
          /\ ents' = ents \cup MissingEnts(i, req[r].customer, req[r].plan)
    BY <1>5, CreateRow
  <2> HIDE DEF Mine, One
  <2> QED
    BY <1>4, <2>1
<1>6. ASSUME NEW r \in Requests, ChangeSubscriptionCommit(r)
      PROVE  One(ents') /\ \A e \in ents' : Mine(e)
  <2>1. ents' = ents \cup MissingEnts(req[r].sub.id, req[r].sub.customer,
                                      req[r].plan)
    BY <1>6 DEF ChangeSubscriptionCommit, MaterializeEntries
  <2>2. SameAccount(req[r].sub)
    BY <1>6 DEF Held, ChangeSubscriptionCommit
  <2>3. \E x \in subs' : x.id = req[r].sub.id /\ x.customer = req[r].sub.customer
    BY <1>1, <2>2, AccountKept
  <2> HIDE DEF Mine, One
  <2> QED
    BY <1>4, <2>1, <2>3
<1>7. ASSUME NEW c \in Customers, NEW f \in Features, CreateEntitlement(c, f)
      PROVE  One(ents') /\ \A e \in ents' : Mine(e)
  <2> DEFINE new == [id |-> [customer |-> c, feature |-> f,
                             gen |-> NextEntGen(c, f)],
                     sub |-> NoSub, deleted |-> FALSE]
  <2>1. ents' = ents \cup {new} /\ EntitlementFree(c, f)
    BY <1>7 DEF CreateEntitlement
  <2>2. new.id.customer = c /\ new.id.feature = f /\ new.sub = NoSub
    OBVIOUS
  <2>3. \A e \in ents : ~Alike(e, new) /\ ~Alike(new, e)
    BY <2>1, <2>2 DEF EntitlementFree, Live
  <2>4. Mine(new)
    BY <2>2
  <2> HIDE DEF new
  <2> QED
    BY <1>2, <1>3, <2>1, <2>3, <2>4
<1>8. ASSUME NEW c \in Customers, NEW f \in Features, DeleteEntitlement(c, f)
      PROVE  One(ents') /\ \A e \in ents' : Mine(e)
  <2>1. \A e \in ents' : \E d \in ents :
          e = IF Live(d, c, f) THEN [d EXCEPT !.deleted = TRUE] ELSE d
    BY <1>8 DEF DeleteEntitlement
  <2>2. \A d \in ents : LET x == [d EXCEPT !.deleted = TRUE]
                       IN  x.id = d.id /\ x.sub = d.sub /\ x.deleted
    BY DEF TypeInv, TypeOK, EntRow
  <2>3. \A e \in ents' : \E d \in ents :
          /\ e.id = d.id /\ e.sub = d.sub
          /\ ~e.deleted => e = d
    BY <2>1, <2>2
  <2>4. One(ents')
    BY <1>2, <2>3
  <2>5. \A e \in ents' : Mine(e)
    BY <1>3, <2>3
  <2> QED
    BY <2>4, <2>5
<1>9. CASE UNCHANGED ents
  BY <1>2, <1>3, <1>9
<1> DEFINE Goal == One(ents') /\ \A e \in ents' : Mine(e)
<1>10. Goal
  <2>1. ASSUME NEW r \in Requests,
               CreateSubscriptionCommit(r) \/ ChangeSubscriptionCommit(r)
        PROVE  Goal
    BY <1>5, <1>6, <2>1
  <2>2. ASSUME NEW c \in Customers, NEW f \in Features,
               CreateEntitlement(c, f) \/ DeleteEntitlement(c, f)
        PROVE  Goal
    BY <1>7, <1>8, <2>2
  <2>3. CASE UNCHANGED ents
    BY <1>9, <2>3
  <2> HIDE DEF Goal
  <2> QED
    BY <2>1, <2>2, <2>3, EntStepKinds
<1> QED
  BY <1>10

(* Every step keeps customers apart.                                       *)
LEMMA OwnCustomerStep ==
  ASSUME AccountInv, [Next]_vars
  PROVE  OwnCustomer'
BY GrantsStep, EntitlementsStep DEF OwnCustomer, Live

----------------------------------------------------------------------------
(* The copies requests and passes hold.                                    *)

(* A pass pairs a listed subscription with entitlements of its customer,   *)
(* and hands on to the insert one of its pairs.                            *)
LEMMA PassOwns ==
  ASSUME AccountInv, [Next]_vars, NEW w \in Workers
  PROVE  OwnPass(wrk'[w])
<1> USE DEF AccountInv, EmissionInv
<1>1. OwnPass(wrk[w])
  BY DEF Held
<1>2. OwnPass(Resting)
  BY DEF OwnPass, Resting
<1>3. ASSUME NEW jobs, jobs \subseteq wrk[w].jobs, NEW t
      PROVE  OwnPass(Loop(jobs, t))
  BY <1>1, <1>2, <1>3 DEF Loop, OwnPass
<1>4. wrk[w] \in PassState /\ wrk \in [Workers -> PassState]
  BY DEF TypeInv, TypeOK
<1>5. CASE ListRecurringSubscriptions(w)
  <2> DEFINE n == [pc |-> "expand", listed |-> {s \in subs : Recurring(s)},
                   jobs |-> {}, now |-> 0]
  <2>1. wrk'[w] = Resting \/ wrk'[w] = n
    BY <1>4, <1>5 DEF ListRecurringSubscriptions
  <2>2. OwnPass(n)
    BY DEF OwnPass, SameAccount
  <2> HIDE DEF n
  <2> QED
    BY <1>2, <2>1, <2>2
<1>6. CASE ExpandSubscription(w)
  <2>1. PICK s \in wrk[w].listed :
          wrk' = [wrk EXCEPT
            ![w].listed = @ \ {s},
            ![w].jobs = @ \cup {[sub |-> s, entry |-> x[1], ent |-> x[2].id] :
                                  x \in EntryTargets(s.plan, s.customer, ents)}]
    BY <1>6 DEF ExpandSubscription
  <2> DEFINE new == {[sub |-> s, entry |-> x[1], ent |-> x[2].id] :
                       x \in EntryTargets(s.plan, s.customer, ents)}
  <2>2. wrk[w] \in ReadingPass /\ wrk[w].pc = "expand"
    BY <1>4, <1>6 DEF ExpandSubscription, PassState, InsertingPass
  <2>3. /\ wrk'[w].listed = wrk[w].listed \ {s}
        /\ wrk'[w].jobs = wrk[w].jobs \cup new /\ wrk'[w].pc = "expand"
    BY <1>4, <2>1, <2>2 DEF ReadingPass
  <2>4. \A j \in new : /\ j.sub = s /\ j.ent.customer = s.customer
                       /\ \E e \in ents : e.id = j.ent
    BY DEF EntryTargets, Live
  <2>5. SameAccount(s)
    BY <1>1 DEF OwnPass
  <2>6. \A j \in new : OwnJob(j)
    BY <2>4, <2>5 DEF OwnJob
  <2> HIDE DEF new
  <2> QED
    BY <1>1, <2>3, <2>6 DEF OwnPass
<1>7. CASE StartLoop(w)
  <2>1. wrk'[w] = Loop(wrk[w].jobs, now)
    BY <1>4, <1>7 DEF StartLoop
  <2> QED
    BY <1>3, <2>1
<1>8. ASSUME NEW j \in wrk[w].jobs, NEW b, Weigh(w, j, b)
      PROVE  OwnPass(wrk'[w])
  <2> DEFINE n == [pc |-> "insert", listed |-> {}, jobs |-> wrk[w].jobs \ {j},
                   now |-> wrk[w].now, job |-> j, next |-> NextCycle(j.sub, b)]
  <2>1. wrk'[w] = Loop(wrk[w].jobs \ {j}, wrk[w].now) \/ wrk'[w] = n
    BY <1>4, <1>8 DEF Weigh
  <2>2. OwnPass(n)
    BY <1>1 DEF OwnPass
  <2> HIDE DEF n
  <2> QED
    BY <1>3, <2>1, <2>2
<1>9. CASE ReadLatest(w) \/ ReadLatestFails(w)
  BY <1>8, <1>9 DEF ReadLatest, ReadLatestFails
<1>10. CASE InsertGrant(w) \/ SkipEntry(w)
  <2>1. PICK jobs \in SUBSET wrk[w].jobs : wrk'[w] = Loop(jobs, wrk[w].now)
    BY <1>4, <1>10 DEF InsertGrant, SkipEntry
  <2> QED
    BY <1>3, <2>1
<1>11. CASE PassAborts(w)
  <2>1. wrk'[w] = Resting
    BY <1>4, <1>11 DEF PassAborts
  <2> QED
    BY <1>2, <2>1
<1>12. ASSUME NEW v \in Workers, v # w, WorkerStep(v) \/ WorkerFault(v)
       PROVE  wrk'[w] = wrk[w]
  BY <1>4, <1>12
  DEF WorkerStep, WorkerFault, ListRecurringSubscriptions, ExpandSubscription,
      StartLoop, ReadLatest, ReadLatestFails, Weigh, InsertGrant, SkipEntry,
      PassAborts
<1>13. \/ WorkerStep(w) \/ WorkerFault(w)
       \/ \E v \in Workers : v # w /\ (WorkerStep(v) \/ WorkerFault(v))
       \/ UNCHANGED wrk
  BY DEF Next, Tick, RequestBegin, RequestStep, StatementStep, vars,
         CreateSubscriptionBegin, ChangeSubscriptionBegin,
         CreateSubscriptionCheck, CreateSubscriptionCommit,
         ChangeSubscriptionPlan, ChangeSubscriptionCommit, RequestFails,
         CancelSubscription, CreateGrant, VoidGrant, ArchivePlan,
         CreateEntitlement, DeleteEntitlement
<1> QED
  BY <1>1, <1>5, <1>6, <1>7, <1>9, <1>10, <1>11, <1>12, <1>13
  DEF WorkerStep, WorkerFault

(* A change holds a row it just read: its copy is of a row still there or  *)
(* was already held.                                                       *)
LEMMA RequestOwns ==
  ASSUME AccountInv, [Next]_vars, NEW r \in Requests,
         req'[r].pc \in {"plan", "change"}
  PROVE  SameAccount(req'[r].sub)
<1> USE DEF AccountInv, EmissionInv
<1>1. req \in [Requests -> RequestState] /\ req[r] \in RequestState
  BY DEF TypeInv, TypeOK
<1>2. CASE req'[r] = req[r]
  BY <1>2 DEF Held
<1>3. CASE ChangeSubscriptionBegin(r)
  <2>1. PICK s \in subs, p \in Plans, t \in AtInputs \cup {None} :
          req' = [req EXCEPT ![r] =
            [pc |-> "plan", sub |-> s, plan |-> p, at |-> t]]
    BY <1>3 DEF ChangeSubscriptionBegin
  <2>2. req'[r].sub = s
    BY <1>1, <2>1
  <2> QED
    BY <2>2 DEF SameAccount
<1>4. CASE ChangeSubscriptionPlan(r)
  <2>1. req[r] \in ChangeArgs("plan", Time \cup {None})
    BY <1>1, <1>4
    DEF ChangeSubscriptionPlan, RequestState, CreateArgs, ChangeArgs, Idle
  <2>2. req'[r].sub = req[r].sub /\ req[r].pc = "plan"
    BY <1>1, <1>4, <2>1 DEF ChangeSubscriptionPlan, ChangeArgs, Idle
  <2> QED
    BY <2>2 DEF Held
<1>5. CASE CreateSubscriptionCheck(r)
  <2>1. req[r] \in CreateArgs("dup", Time \cup {None})
    BY <1>1, <1>5
    DEF CreateSubscriptionCheck, RequestState, CreateArgs, ChangeArgs, Idle
  <2> DEFINE n == [req[r] EXCEPT !.pc = "create",
                     !.at = IF req[r].at = None THEN now ELSE req[r].at]
  <2>2. n.pc = "create"
    BY <2>1 DEF CreateArgs
  <2>3. req'[r] = Idle \/ req'[r] = n
    BY <1>1, <1>5 DEF CreateSubscriptionCheck
  <2> HIDE DEF n
  <2> QED
    BY <2>2, <2>3 DEF Idle
<1>6. CASE \/ CreateSubscriptionBegin(r) \/ CreateSubscriptionCommit(r)
           \/ ChangeSubscriptionCommit(r) \/ RequestFails(r)
  BY <1>1, <1>6
  DEF CreateSubscriptionBegin, CreateSubscriptionCommit,
      ChangeSubscriptionCommit, RequestFails, Idle
<1>7. ASSUME NEW q \in Requests, q # r, RequestBegin(q) \/ RequestStep(q)
      PROVE  req'[r] = req[r]
  BY <1>1, <1>7
  DEF RequestBegin, RequestStep, CreateSubscriptionBegin,
      ChangeSubscriptionBegin, CreateSubscriptionCheck,
      CreateSubscriptionCommit, ChangeSubscriptionPlan,
      ChangeSubscriptionCommit, RequestFails
<1>8. \/ RequestBegin(r) \/ RequestStep(r)
      \/ \E q \in Requests : q # r /\ (RequestBegin(q) \/ RequestStep(q))
      \/ UNCHANGED req
  BY DEF Next, Tick, StatementStep, WorkerStep, WorkerFault, vars,
         CancelSubscription, CreateGrant, VoidGrant, ArchivePlan,
         CreateEntitlement, DeleteEntitlement, ListRecurringSubscriptions,
         ExpandSubscription, StartLoop, ReadLatest, ReadLatestFails,
         InsertGrant, SkipEntry, PassAborts
<1> QED
  BY <1>2, <1>3, <1>4, <1>5, <1>6, <1>7, <1>8 DEF RequestBegin, RequestStep

(* Every step keeps what is held true of the tables it leaves.             *)
LEMMA HeldStep ==
  ASSUME AccountInv, [Next]_vars
  PROVE  Held'
<1>1. SubsKept /\ EntsKept
  BY KeepStep DEF AccountInv, EmissionInv
<1>2. ASSUME NEW c, SameAccount(c)
      PROVE  SameAccount(c)'
  BY <1>1, <1>2, AccountKept DEF SameAccount
<1>3. ASSUME NEW j, OwnJob(j)
      PROVE  OwnJob(j)'
  BY <1>1, <1>2, <1>3, EntIdKept DEF OwnJob
<1>4. ASSUME NEW w \in Workers
      PROVE  OwnPass(wrk[w])'
  BY <1>2, <1>3, PassOwns DEF OwnPass
<1>5. ASSUME NEW r \in Requests, req'[r].pc \in {"plan", "change"}
      PROVE  SameAccount(req[r].sub)'
  BY <1>2, <1>5, RequestOwns
<1> QED
  BY <1>4, <1>5 DEF Held

----------------------------------------------------------------------------
(* What a transaction leaves in force.                                     *)

(* What a transaction grants: features of its plan, and each only once,    *)
(* since the customer has one live entitlement to it.                      *)
OnPlan(f, p) == \E i \in GrantEntries(p) : f = Entries[p][i].feature

OneLive(E) ==
  \A e, f \in E : Live(e, f.id.customer, f.id.feature) /\ ~f.deleted => e = f

LEMMA PlanGrantFeatures ==
  ASSUME NEW s, NEW c, NEW p, NEW t, NEW E,
         NEW g \in PlanGrants(s, c, p, t, E)
  PROVE  /\ OnPlan(g.ent.feature, p) /\ ~g.voided
         /\ OneLive(E) => \A h \in PlanGrants(s, c, p, t, E) :
              h.ent.feature = g.ent.feature => h = g
<1>1. ASSUME NEW h \in PlanGrants(s, c, p, t, E)
      PROVE  \E i \in GrantEntries(p), e \in E :
               /\ Live(e, c, Entries[p][i].feature) /\ h.ent = e.id
               /\ h = NewGrant(s, e.id, t, "materialize")
  <2>1. PICK x \in EntryTargets(p, c, E) : h = NewGrant(s, x[2].id, t, "materialize")
    BY DEF PlanGrants
  <2>2. /\ x[1] \in GrantEntries(p) /\ x[2] \in E
        /\ Live(x[2], c, Entries[p][x[1]].feature)
    BY DEF EntryTargets
  <2>3. h.ent = x[2].id
    BY <2>1 DEF NewGrant
  <2> QED
    BY <2>1, <2>2, <2>3
<1>2. PICK i \in GrantEntries(p), e \in E :
        /\ Live(e, c, Entries[p][i].feature) /\ g.ent = e.id
        /\ g = NewGrant(s, e.id, t, "materialize")
  BY <1>1
<1>3. OnPlan(g.ent.feature, p)
  BY <1>2 DEF OnPlan, Live
<1>4. ~g.voided
  BY <1>2 DEF NewGrant
<1>5. ASSUME OneLive(E), NEW h \in PlanGrants(s, c, p, t, E),
             h.ent.feature = g.ent.feature
      PROVE  h = g
  <2>1. PICK j \in GrantEntries(p), f \in E :
          /\ Live(f, c, Entries[p][j].feature) /\ h.ent = f.id
          /\ h = NewGrant(s, f.id, t, "materialize")
    BY <1>1
  <2>2. e = f
    BY <1>2, <1>5, <2>1 DEF OneLive, Live
  <2> QED
    BY <1>2, <2>1, <2>2
<1> QED
  BY <1>3, <1>4, <1>5

(* The parts of SingleEpoch.                                               *)
First(g) == g.sub # NoSub /\ g.via = "materialize" /\ ~g.voided
Current(g, S) == \A s \in S : s.id = g.sub => OnPlan(g.ent.feature, s.plan)
Together(g, h) == h.at = g.at /\ (h.ent.feature = g.ent.feature => h = g)
EpochOf(G, S) ==
  \A g \in G : First(g) =>
    /\ Current(g, S)
    /\ \A h \in G : First(h) /\ h.sub = g.sub => Together(g, h)

LEMMA EpochParts == SingleEpoch <=> EpochOf(grants, subs)
BY DEF SingleEpoch, EpochOf, First, Current, Together, OnPlan

(* Grants N of subscription i, of one time and one to a feature of plan p, *)
(* go into a table G in which no first grant of i stays in force, and each *)
(* row of T is one of i on plan p or stands as it did in S.                *)
Replaced(G, S, H, T, N, i, p, t) ==
  /\ \A g \in H : First(g) => (g \in G /\ g.sub # i) \/ g \in N
  /\ \A g \in N : /\ g.sub = i /\ g.at = t /\ OnPlan(g.ent.feature, p)
                  /\ \A h \in N : h.ent.feature = g.ent.feature => h = g
  /\ \A x \in T : \/ x.id = i /\ x.plan = p
                  \/ x.id # i /\ \E s \in S : x.id = s.id /\ x.plan = s.plan

(* The epoch is one after that.                                            *)
LEMMA EpochAfter ==
  ASSUME NEW G, NEW S, EpochOf(G, S), NEW H, NEW T, NEW N, NEW i, NEW p, NEW t,
         Replaced(G, S, H, T, N, i, p, t)
  PROVE  EpochOf(H, T)
<1> USE DEF Replaced
<1> SUFFICES ASSUME NEW g \in H, First(g)
             PROVE  /\ Current(g, T)
                    /\ \A h \in H : First(h) /\ h.sub = g.sub => Together(g, h)
  BY DEF EpochOf
<1>1. CASE g \in N
  <2>1. Current(g, T)
    BY <1>1 DEF Current
  <2>2. ASSUME NEW h \in H, First(h), h.sub = g.sub
        PROVE  Together(g, h)
    BY <1>1, <2>2 DEF Together
  <2> QED
    BY <2>1, <2>2
<1>2. CASE g \in G /\ g.sub # i
  <2>1. Current(g, S) /\ \A h \in G : First(h) /\ h.sub = g.sub => Together(g, h)
    BY <1>2 DEF EpochOf
  <2>2. Current(g, T)
    BY <1>2, <2>1 DEF Current
  <2> QED
    BY <1>2, <2>1, <2>2
<1> QED
  BY <1>1, <1>2

(* A new subscription has only the grants of its transaction, a changed    *)
(* one only those of the change among the first grants not voided.         *)
LEMMA EpochStep ==
  ASSUME AccountInv, [Next]_vars
  PROVE  SingleEpoch'
<1>0. TypeInv /\ Owners /\ SingleEpoch
  BY DEF AccountInv, EmissionInv
<1>1. EpochOf(grants, subs) /\ (SingleEpoch' <=> EpochOf(grants', subs'))
  <2>1. SingleEpoch' <=> EpochOf(grants', subs')
    BY DEF SingleEpoch, EpochOf, First, Current, Together, OnPlan
  <2> QED
    BY <1>0, <2>1, EpochParts
<1>2. OneLive(ents')
  BY OwnCustomerStep DEF OwnCustomer, OneLive, Live
<1>3. ASSUME NEW r \in Requests, CreateSubscriptionCommit(r)
      PROVE  EpochOf(grants', subs')
  <2>1. PICK p, t : p = req[r].plan /\ t = req[r].at
    OBVIOUS
  <2>2. PICK i \in SubIds \ {s.id : s \in subs} :
          /\ \E x \in subs' : x.id = i /\ x.plan = p /\ subs' = subs \cup {x}
          /\ grants' = grants \cup PlanGrants(i, req[r].customer, p, t, ents')
    BY <1>3, <2>1, CreateRow
  <2>3. PICK N : N = PlanGrants(i, req[r].customer, p, t, ents')
    OBVIOUS
  <2>4. \A g \in grants : g.sub # i
    BY <1>0, <2>2, IdAssumption DEF Owners
  <2>5. \A g \in N : /\ g.sub = i /\ g.at = t /\ OnPlan(g.ent.feature, p)
                     /\ \A h \in N : h.ent.feature = g.ent.feature => h = g
    BY <1>2, <2>3, PlanGrantRows, PlanGrantFeatures
  <2>6. \A x \in subs' :
          \/ x.id = i /\ x.plan = p
          \/ x.id # i /\ \E s \in subs : x.id = s.id /\ x.plan = s.plan
    BY <2>2
  <2>7. \A g \in grants' : First(g) => (g \in grants /\ g.sub # i) \/ g \in N
    BY <2>2, <2>3, <2>4
  <2>8. Replaced(grants, subs, grants', subs', N, i, p, t)
    BY <2>5, <2>6, <2>7 DEF Replaced
  <2> QED
    BY <1>1, <2>8, EpochAfter
<1>4. ASSUME NEW r \in Requests, ChangeSubscriptionCommit(r)
      PROVE  EpochOf(grants', subs')
  <2>1. PICK i, p, t, N :
          /\ i = req[r].sub.id /\ p = req[r].plan /\ t = req[r].at
          /\ N = PlanGrants(i, req[r].sub.customer, p, t, ents')
    OBVIOUS
  <2>2. grants' = VoidAll(i) \cup N
    BY <1>4, <2>1 DEF ChangeSubscriptionCommit, MaterializeEntries
  <2>3. \A g \in N : /\ g.sub = i /\ g.at = t /\ OnPlan(g.ent.feature, p)
                     /\ \A h \in N : h.ent.feature = g.ent.feature => h = g
    BY <1>2, <2>1, PlanGrantRows, PlanGrantFeatures
  <2>4. \A x \in subs' :
          \/ x.id = i /\ x.plan = p
          \/ x.id # i /\ \E s \in subs : x.id = s.id /\ x.plan = s.plan
    BY <1>0, <1>4, <2>1, ChangeRows
  <2>5. \A g \in grants' : First(g) => (g \in grants /\ g.sub # i) \/ g \in N
    BY <1>0, <2>2, VoidAllRows DEF First
  <2>6. Replaced(grants, subs, grants', subs', N, i, p, t)
    BY <2>3, <2>4, <2>5 DEF Replaced
  <2> QED
    BY <1>1, <2>6, EpochAfter
<1>5. ASSUME \A g \in grants' : First(g) => g \in grants,
             \A x \in subs' : \E s \in subs : x.id = s.id /\ x.plan = s.plan
      PROVE  EpochOf(grants', subs')
  BY <1>1, <1>5 DEF EpochOf, Current
<1>6. ASSUME NEW s \in subs, NEW at \in AtInputs \cup {now},
             CancelSubscription(s, at)
      PROVE  EpochOf(grants', subs')
  <2>1. \A g \in grants' : First(g) => g \in grants
    BY <1>0, <1>6, VoidAllRows DEF CancelSubscription, First
  <2>2. \A x \in subs' : \E o \in subs : x.id = o.id /\ x.plan = o.plan
    BY <1>0, <1>6, CancelRows
  <2> QED
    BY <1>5, <2>1, <2>2
<1>7. ASSUME NEW e \in ents, NEW t, CreateGrant(e, t)
      PROVE  \A g \in grants' : First(g) => g \in grants
  <2>1. \A g \in grants' : g \in grants \/ g.sub = NoSub
    BY <1>7 DEF CreateGrant, NewGrant
  <2> QED
    BY <2>1 DEF First
<1>8. ASSUME NEW g \in grants, VoidGrant(g)
      PROVE  \A h \in grants' : First(h) => h \in grants
  <2>1. [g EXCEPT !.voided = TRUE].voided = TRUE
    BY <1>0 DEF TypeInv, TypeOK, GrantRow
  <2>2. \A h \in grants' : ~h.voided => h \in grants
    BY <1>8, <2>1 DEF VoidGrant
  <2> QED
    BY <2>2 DEF First
<1>9. ASSUME NEW w \in Workers, InsertGrant(w)
      PROVE  \A g \in grants' : First(g) => g \in grants
  <2>1. \A g \in grants' : g \in grants \/ g.via = "worker"
    BY <1>9 DEF InsertGrant, NewGrant
  <2> QED
    BY <2>1 DEF First
<1>10. CASE UNCHANGED subs
  <2>1. \/ \A g \in grants' : First(g) => g \in grants
        \/ \E r \in Requests :
             CreateSubscriptionCommit(r) \/ ChangeSubscriptionCommit(r)
        \/ \E s \in subs, at \in AtInputs \cup {now} : CancelSubscription(s, at)
    BY <1>7, <1>8, <1>9, StepKinds
  <2>2. (\A g \in grants' : First(g) => g \in grants) => EpochOf(grants', subs')
    BY <1>5, <1>10
  <2> QED
    BY <1>1, <1>3, <1>4, <1>6, <2>1, <2>2
<1> QED
  BY <1>1, <1>3, <1>4, <1>6, <1>10, SubStepKinds

(* Materialising plan p leaves a grant for every grant entry of p.         *)
LEMMA MaterializeCovers ==
  ASSUME TypeInv, NEW s, NEW c, NEW p \in Plans, NEW t,
         NEW i \in GrantEntries(p), NEW E,
         E = ents \cup MissingEnts(s, c, p)
  PROVE  \E g \in PlanGrants(s, c, p, t, E) :
           /\ g.sub = s /\ g.via = "materialize"
           /\ g.ent.customer = c /\ g.ent.feature = Entries[p][i].feature
<1> DEFINE f == Entries[p][i].feature
<1>1. f \in PlanFeatures(p)
  BY DEF GrantEntries, PlanFeatures
<1>2. \E e \in E : Live(e, c, f)
  <2>1. CASE EntitlementFree(c, f)
    <3> DEFINE new == [id |-> [customer |-> c, feature |-> f,
                               gen |-> NextEntGen(c, f)],
                       sub |-> s, deleted |-> FALSE]
    <3>1. new \in MissingEnts(s, c, p)
      BY <1>1, <2>1 DEF MissingEnts
    <3>2. Live(new, c, f)
      BY DEF Live
    <3> QED
      BY <3>1, <3>2
  <2>2. CASE ~EntitlementFree(c, f)
    BY <2>2 DEF EntitlementFree
  <2> QED
    BY <2>1, <2>2
<1>3. PICK e \in E : Live(e, c, f)
  BY <1>2
<1> DEFINE x == <<i, e>>
           g == NewGrant(s, e.id, t, "materialize")
<1>4. x \in EntryTargets(p, c, E) /\ x[2] = e
  BY <1>3 DEF EntryTargets
<1>5. g \in PlanGrants(s, c, p, t, E)
  BY <1>4 DEF PlanGrants
<1>6. /\ g.sub = s /\ g.via = "materialize"
      /\ g.ent.customer = c /\ g.ent.feature = f
  BY <1>3 DEF NewGrant, Live
<1> QED
  BY <1>5, <1>6

(* Every step leaves each subscription granted what its plan grants.       *)
LEMMA InitialStep ==
  ASSUME AccountInv, [Next]_vars
  PROVE  InitialGranted'
<1> USE DEF AccountInv, EmissionInv
<1> DEFINE Has(G, k, p, c) ==
             \A i \in GrantEntries(p) : \E g \in G :
               /\ g.sub = k /\ g.via = "materialize" /\ g.ent.customer = c
               /\ g.ent.feature = Entries[p][i].feature
<1>1. SubsKept /\ GrantsKept
  BY KeepStep
<1>2. \A s \in subs : Has(grants, s.id, s.plan, s.customer)
  BY DEF InitialGranted
<1>3. ASSUME NEW k, NEW p, NEW c, Has(grants, k, p, c)
      PROVE  Has(grants', k, p, c)
  BY <1>1, <1>3, GrantKept
<1>4. ASSUME NEW r \in Requests, CreateSubscriptionCommit(r), NEW s \in subs'
      PROVE  Has(grants', s.id, s.plan, s.customer)
  <2>1. PICK i \in SubIds :
          /\ \E x \in subs' : /\ x.id = i /\ x.customer = req[r].customer
                              /\ x.plan = req[r].plan /\ subs' = subs \cup {x}
          /\ ents' = ents \cup MissingEnts(i, req[r].customer, req[r].plan)
          /\ grants' = grants \cup
               PlanGrants(i, req[r].customer, req[r].plan, req[r].at, ents')
    BY <1>4, CreateRow
  <2>2. req[r].plan \in Plans
    BY <1>4, CommitArgs DEF CreateSubscriptionCommit
  <2>3. Has(grants', i, req[r].plan, req[r].customer)
    BY <2>1, <2>2, MaterializeCovers
  <2> HIDE DEF Has
  <2> QED
    BY <1>2, <1>3, <2>1, <2>3
<1>5. ASSUME NEW r \in Requests, ChangeSubscriptionCommit(r), NEW s \in subs'
      PROVE  Has(grants', s.id, s.plan, s.customer)
  <2> DEFINE q == req[r].sub
             p == req[r].plan
  <2>1. /\ ents' = ents \cup MissingEnts(q.id, q.customer, p)
        /\ grants' = VoidAll(q.id) \cup PlanGrants(q.id, q.customer, p, req[r].at, ents')
    BY <1>5 DEF ChangeSubscriptionCommit, MaterializeEntries
  <2>2. p \in Plans /\ SameAccount(q)
    BY <1>5, CommitArgs DEF ChangeSubscriptionCommit, Held
  <2>3. Has(grants', q.id, p, q.customer)
    BY <2>1, <2>2, MaterializeCovers
  <2>4. PICK o \in subs : /\ s.id = o.id /\ s.customer = o.customer
                          /\ s.plan = IF o.id = q.id THEN p ELSE o.plan
    BY <1>5, ChangeRows
  <2>5. o.id = q.id => o.customer = q.customer
    BY <2>2 DEF SameAccount, Ids
  <2> HIDE DEF Has, q, p
  <2> QED
    BY <1>2, <1>3, <2>3, <2>4, <2>5
<1>6. ASSUME NEW c \in subs, NEW at \in AtInputs \cup {now},
             CancelSubscription(c, at), NEW s \in subs'
      PROVE  Has(grants', s.id, s.plan, s.customer)
  <2>1. PICK o \in subs : s.id = o.id /\ s.customer = o.customer /\ s.plan = o.plan
    BY <1>6, CancelRows
  <2> HIDE DEF Has
  <2> QED
    BY <1>2, <1>3, <2>1
<1>7. CASE UNCHANGED subs
  <2> HIDE DEF Has
  <2>1. \A s \in subs' : Has(grants', s.id, s.plan, s.customer)
    BY <1>2, <1>3, <1>7
  <2> QED
    BY <2>1 DEF Has, InitialGranted
<1>8. ASSUME \A s \in subs' : Has(grants', s.id, s.plan, s.customer)
      PROVE  InitialGranted'
  BY <1>8 DEF InitialGranted
<1> HIDE DEF Has
<1> QED
  BY <1>4, <1>5, <1>6, <1>7, <1>8, SubStepKinds

----------------------------------------------------------------------------
(* Generation numbers.                                                     *)

(* H is the image of G under an f that leaves key and number alone.        *)
Renewed(G, H, f) ==
  /\ \A g \in G : /\ f[g].sub = g.sub /\ f[g].ent = g.ent
                  /\ f[g].at = g.at /\ f[g].gen = g.gen
  /\ \A x : x \in H <=> \E g \in G : x = f[g]

(* That neither merges rows nor changes how many there are of a key.       *)
LEMMA NumberedImage ==
  ASSUME NEW G, IsFiniteSet(G), Numbered(G), NEW f, NEW H, Renewed(G, H, f)
  PROVE  /\ Numbered(H)
         /\ \A n : Cardinality(Peers(n, H)) = Cardinality(Peers(n, G))
<1> USE DEF Renewed
<1>1. ASSUME NEW n
      PROVE  Cardinality(Peers(n, H)) = Cardinality(Peers(n, G))
  <2> DEFINE P == Peers(n, G)
             v == [g \in P |-> f[g]]
  <2>1. Peers(n, H) = {f[g] : g \in P}
    BY DEF Peers, SameKey
  <2>2. v \in Surjection(P, Peers(n, H))
    BY <2>1 DEF Surjection
  <2>3. ASSUME NEW g \in P, NEW h \in P, f[g] = f[h]
        PROVE  g = h
    <3>1. g \in G /\ h \in Peers(g, G)
      BY DEF Peers, SameKey
    <3>2. h.gen = g.gen
      BY <2>3, <3>1 DEF Peers
    <3> QED
      BY <3>1, <3>2 DEF Numbered
  <2>4. v \in Injection(P, Peers(n, H))
    BY <2>1, <2>3 DEF Injection, IsInjective
  <2>5. P \in SUBSET G
    BY DEF Peers
  <2>6. IsFiniteSet(P)
    BY <2>5, FS_Subset
  <2> QED
    BY <2>2, <2>4, <2>6, FS_Surjection
<1>2. Numbered(H)
  <2> SUFFICES ASSUME NEW x \in H
               PROVE  /\ x.gen \in Nat /\ x.gen < Cardinality(Peers(x, H))
                      /\ \A y \in Peers(x, H) : y.gen = x.gen => y = x
    BY DEF Numbered
  <2>1. PICK g \in G : x = f[g]
    OBVIOUS
  <2>2. Peers(x, G) = Peers(g, G) /\ x.gen = g.gen
    BY <2>1 DEF Peers
  <2>3. ASSUME NEW y \in Peers(x, H), y.gen = x.gen
        PROVE  y = x
    <3>1. PICK h \in G : y = f[h]
      BY DEF Peers
    <3>2. h \in Peers(g, G) /\ h.gen = g.gen
      BY <2>1, <2>3, <3>1 DEF Peers, SameKey
    <3> QED
      BY <2>1, <3>1, <3>2 DEF Numbered
  <2>4. g.gen \in Nat /\ g.gen < Cardinality(Peers(g, G))
    BY DEF Numbered
  <2> QED
    BY <1>1, <2>2, <2>3, <2>4
<1> QED
  BY <1>1, <1>2

(* Rows numbered after how many there are of their key, one to a key, may  *)
(* be added.                                                               *)
LEMMA NumberedAdd ==
  ASSUME NEW G, Numbered(G), NEW N, IsFiniteSet(G \cup N),
         \A n \in N : n.gen = Cardinality(Peers(n, G)),
         \A m, n \in N : SameKey(m, n.sub, n.ent, n.at) => m = n
  PROVE  /\ Numbered(G \cup N)
         /\ \A n \in N : n \notin G
<1> DEFINE H == G \cup N
<1>1. ASSUME NEW g
      PROVE  /\ IsFiniteSet(Peers(g, G)) /\ IsFiniteSet(Peers(g, H))
             /\ Cardinality(Peers(g, G)) \in Nat
             /\ Cardinality(Peers(g, H)) \in Nat
             /\ Cardinality(Peers(g, G)) <= Cardinality(Peers(g, H))
  <2>1. Peers(g, H) \in SUBSET H /\ Peers(g, G) \in SUBSET Peers(g, H)
    BY DEF Peers
  <2>2. IsFiniteSet(Peers(g, H))
    BY <2>1, FS_Subset
  <2> QED
    BY <2>1, <2>2, FS_Subset, FS_CardinalityType
<1>2. ASSUME NEW g \in G
      PROVE  /\ g.gen \in Nat /\ g.gen < Cardinality(Peers(g, G))
             /\ \A h \in Peers(g, G) : h.gen = g.gen => h = g
  BY DEF Numbered
<1>3. ASSUME NEW n \in N
      PROVE  n \notin G
  BY <1>1, <1>2
<1>4. ASSUME NEW n \in N
      PROVE  n.gen \in Nat /\ n.gen < Cardinality(Peers(n, H))
  <2>1. n \notin Peers(n, G)
    BY <1>3 DEF Peers
  <2>2. Peers(n, G) \cup {n} \in SUBSET Peers(n, H)
    BY DEF Peers, SameKey
  <2>3. Cardinality(Peers(n, G) \cup {n}) = Cardinality(Peers(n, G)) + 1
    BY <1>1, <2>1, FS_AddElement
  <2>4. Cardinality(Peers(n, G) \cup {n}) <= Cardinality(Peers(n, H))
    BY <1>1, <2>2, FS_Subset
  <2> QED
    BY <1>1, <2>3, <2>4
<1>5. ASSUME NEW g \in G, NEW n \in N, SameKey(n, g.sub, g.ent, g.at)
      PROVE  g.gen < n.gen /\ g.gen \in Nat /\ n.gen \in Nat
  <2>1. Peers(n, G) = Peers(g, G)
    BY <1>5 DEF Peers, SameKey
  <2> QED
    BY <1>1, <1>2, <2>1
<1>6. ASSUME NEW g \in H, NEW h \in Peers(g, H), h.gen = g.gen
      PROVE  h = g
  <2>1. SameKey(h, g.sub, g.ent, g.at) /\ SameKey(g, h.sub, h.ent, h.at) /\ h \in H
    BY <1>6 DEF Peers, SameKey
  <2>2. CASE g \in G /\ h \in G
    <3>1. h \in Peers(g, G)
      BY <2>1, <2>2 DEF Peers
    <3> QED
      BY <1>2, <1>6, <2>2, <3>1
  <2>3. CASE g \in G /\ h \in N
    BY <1>5, <1>6, <2>1, <2>3
  <2>4. CASE g \in N /\ h \in G
    BY <1>5, <1>6, <2>1, <2>4
  <2>5. CASE g \in N /\ h \in N
    BY <2>1, <2>5
  <2> QED
    BY <2>1, <2>2, <2>3, <2>4, <2>5
<1>7. ASSUME NEW g \in H
      PROVE  g.gen \in Nat /\ g.gen < Cardinality(Peers(g, H))
  <2>1. /\ Cardinality(Peers(g, G)) \in Nat /\ Cardinality(Peers(g, H)) \in Nat
        /\ Cardinality(Peers(g, G)) <= Cardinality(Peers(g, H))
    BY <1>1
  <2>2. CASE g \in G
    <3>1. g.gen \in Nat /\ g.gen < Cardinality(Peers(g, G))
      BY <1>2, <2>2
    <3> QED
      BY <2>1, <3>1
  <2> QED
    BY <1>4, <2>2
<1> QED
  BY <1>3, <1>6, <1>7 DEF Numbered

(* A grant a handler or a pass makes has the number of rows of its key.    *)
LEMMA NewGrantNumber ==
  ASSUME NEW s, NEW e, NEW t, NEW path
  PROVE  LET n == NewGrant(s, e, t, path)
         IN  /\ n.sub = s /\ n.ent = e /\ n.at = t
             /\ n.gen = Cardinality(Peers(n, grants))
BY DEF NewGrant, NextGrantGen, Peers, SameKey

(* So has each that a transaction makes, and it makes one to a key.        *)
LEMMA PlanGrantNumbers ==
  ASSUME NEW s, NEW c, NEW p, NEW t, NEW E, NEW N, N = PlanGrants(s, c, p, t, E)
  PROVE  /\ \A n \in N : n.gen = Cardinality(Peers(n, grants))
         /\ \A m, n \in N : SameKey(m, n.sub, n.ent, n.at) => m = n
<1>1. \A n \in N : n = NewGrant(s, n.ent, t, "materialize")
  BY PlanGrantRows
<1>2. \A n \in N : n.gen = Cardinality(Peers(n, grants))
  BY <1>1, NewGrantNumber
<1> QED
  BY <1>1, <1>2 DEF SameKey

(* Voiding the grants of s moves no row to another key or number.          *)
LEMMA VoidAllNumbers ==
  ASSUME TypeInv, Numbered(grants), NEW s
  PROVE  /\ Numbered(VoidAll(s))
         /\ \A n : Cardinality(Peers(n, VoidAll(s))) = Cardinality(Peers(n, grants))
<1> DEFINE v == [g \in grants |->
                   IF g.sub = s THEN [g EXCEPT !.voided = TRUE] ELSE g]
<1>1. /\ \A x : x \in VoidAll(s) <=> \E g \in grants : x = v[g]
      /\ IsFiniteSet(grants)
  BY DEF VoidAll, TypeInv, FiniteTables
<1>2. \A g \in grants : /\ v[g].sub = g.sub /\ v[g].ent = g.ent
                        /\ v[g].at = g.at /\ v[g].gen = g.gen
  BY DEF TypeInv, TypeOK, GrantRow
<1>3. PICK f, V : f = v /\ V = VoidAll(s)
  OBVIOUS
<1> HIDE DEF v
<1>4. Renewed(grants, V, f)
  BY <1>1, <1>2, <1>3 DEF Renewed
<1>5. /\ Numbered(V)
      /\ \A n : Cardinality(Peers(n, V)) = Cardinality(Peers(n, grants))
  BY <1>1, <1>4, NumberedImage
<1> QED
  BY <1>3, <1>5

(* What materialising adds is new.                                         *)
LEMMA PlanGrantsNew ==
  ASSUME Numbered(grants), NEW i, NEW c, NEW p, NEW t, NEW E,
         NEW n \in PlanGrants(i, c, p, t, E)
  PROVE  n \notin grants
<1>1. n.gen = Cardinality(Peers(n, grants))
  BY PlanGrantNumbers
<1>2. n \in grants => n.gen \in Nat /\ n.gen < Cardinality(Peers(n, grants))
  BY DEF Numbered
<1> QED
  BY <1>1, <1>2

(* What it leaves is numbered with what was there.                         *)
LEMMA NumberedCommit ==
  ASSUME TypeInv, TypeInv', Numbered(grants), NEW r \in Requests,
         CreateSubscriptionCommit(r) \/ ChangeSubscriptionCommit(r)
  PROVE  Numbered(grants')
<1>1. IsFiniteSet(grants')
  BY DEF TypeInv, FiniteTables
<1>2. CASE CreateSubscriptionCommit(r)
  <2>1. PICK i : grants' = grants \cup
                   PlanGrants(i, req[r].customer, req[r].plan, req[r].at, ents')
    BY <1>2, CreateRow
  <2>2. PICK N : N = PlanGrants(i, req[r].customer, req[r].plan, req[r].at, ents')
    OBVIOUS
  <2>3. /\ \A n \in N : n.gen = Cardinality(Peers(n, grants))
        /\ \A m, n \in N : SameKey(m, n.sub, n.ent, n.at) => m = n
    BY <2>2, PlanGrantNumbers
  <2>4. grants' = grants \cup N
    BY <2>1, <2>2
  <2> QED
    BY <1>1, <2>3, <2>4, NumberedAdd
<1>3. CASE ChangeSubscriptionCommit(r)
  <2>1. PICK N : N = PlanGrants(req[r].sub.id, req[r].sub.customer, req[r].plan,
                                req[r].at, ents')
    OBVIOUS
  <2>2. PICK V : V = VoidAll(req[r].sub.id)
    OBVIOUS
  <2>3. grants' = V \cup N
    BY <1>3, <2>1, <2>2 DEF ChangeSubscriptionCommit, MaterializeEntries
  <2>4. /\ \A n \in N : n.gen = Cardinality(Peers(n, grants))
        /\ \A m, n \in N : SameKey(m, n.sub, n.ent, n.at) => m = n
    BY <2>1, PlanGrantNumbers
  <2>5. /\ Numbered(V)
        /\ \A n : Cardinality(Peers(n, V)) = Cardinality(Peers(n, grants))
    BY <2>2, VoidAllNumbers
  <2> QED
    BY <1>1, <2>3, <2>4, <2>5, NumberedAdd
<1> QED
  BY <1>2, <1>3

(* Every step keeps the rows of a key numbered apart, voided or not.       *)
LEMMA NumberedStep ==
  ASSUME AccountInv, [Next]_vars
  PROVE  Numbered(grants')
<1>0. TypeInv /\ TypeInv' /\ Numbered(grants)
  BY TypeStep DEF AccountInv, EmissionInv
<1>1. IsFiniteSet(grants') /\ IsFiniteSet(grants)
  BY <1>0 DEF TypeInv, FiniteTables
<1>2. ASSUME NEW s, NEW e, NEW t, NEW path,
             grants' = grants \cup {NewGrant(s, e, t, path)}
      PROVE  Numbered(grants')
  <2>1. PICK n : n = NewGrant(s, e, t, path)
    OBVIOUS
  <2>2. n.gen = Cardinality(Peers(n, grants))
    BY <2>1, NewGrantNumber
  <2>3. /\ \A m \in {n} : m.gen = Cardinality(Peers(m, grants))
        /\ \A m, x \in {n} : SameKey(m, x.sub, x.ent, x.at) => m = x
        /\ grants' = grants \cup {n}
    BY <1>2, <2>1, <2>2
  <2> QED
    BY <1>0, <1>1, <2>3, NumberedAdd
<1>3. ASSUME NEW g \in grants, VoidGrant(g)
      PROVE  Numbered(grants')
  <2> DEFINE v == [h \in grants |->
                     IF h = g THEN [h EXCEPT !.voided = TRUE] ELSE h]
  <2>1. \A x : x \in grants' <=> \E h \in grants : x = v[h]
    BY <1>3 DEF VoidGrant
  <2>2. \A h \in grants : /\ v[h].sub = h.sub /\ v[h].ent = h.ent
                          /\ v[h].at = h.at /\ v[h].gen = h.gen
    BY <1>0 DEF TypeInv, TypeOK, GrantRow
  <2> HIDE DEF v
  <2>3. Renewed(grants, grants', v)
    BY <2>1, <2>2 DEF Renewed
  <2> QED
    BY <1>0, <1>1, <2>3, NumberedImage
<1>4. ASSUME NEW s \in subs, NEW at, CancelSubscription(s, at)
      PROVE  Numbered(grants')
  BY <1>0, <1>4, VoidAllNumbers DEF CancelSubscription
<1>5. ASSUME NEW e \in ents, NEW t, CreateGrant(e, t)
      PROVE  Numbered(grants')
  BY <1>2, <1>5 DEF CreateGrant
<1>6. ASSUME NEW w \in Workers, InsertGrant(w)
      PROVE  Numbered(grants')
  <2>1. \/ grants' = grants \cup {NewGrant(wrk[w].job.sub.id, wrk[w].job.ent,
                                         wrk[w].next, "worker")}
        \/ grants' = grants
    BY <1>6 DEF InsertGrant
  <2> QED
    BY <1>0, <1>2, <2>1
<1>7. CASE UNCHANGED grants
  BY <1>0, <1>7
<1> QED
  BY <1>0, <1>3, <1>4, <1>5, <1>6, <1>7, NumberedCommit, StepKinds

----------------------------------------------------------------------------
(* What a transaction leaves.                                              *)

(* The grants of s in force after a step, and what MaterializedWhole asks  *)
(* of the step that signs s up for its plan.                               *)
Left(s) == {g \in grants' : g.sub = s.id /\ ~g.voided}

WholeAfter(s) ==
  /\ \A i \in DOMAIN Entries[s.plan] :
       FeatureWhole(s, Entries[s.plan][i].feature, i \in GrantEntries(s.plan))
  /\ \A g \in Left(s) : /\ g \notin grants /\ OnPlan(g.ent.feature, s.plan)
                        /\ \A h \in Left(s) : h.at = g.at

(* Customer c has a live entitlement in E to f and, if granted, one of N.  *)
Provided(c, f, granted, E, N) ==
  \E e \in E :
    /\ Live(e, c, f)
    /\ granted => \E g \in N : \A h \in N : h.ent = e.id <=> h = g

(* Materialising plan p leaves a live entitlement to each of its features, *)
(* and on the features it grants one new grant.                            *)
LEMMA MaterializeFeature ==
  ASSUME NEW s, NEW c, NEW p, NEW t, NEW E, NEW N,
         N = PlanGrants(s, c, p, t, E),
         E = ents \cup MissingEnts(s, c, p), NEW i \in DOMAIN Entries[p]
  PROVE  Provided(c, Entries[p][i].feature, i \in GrantEntries(p), E, N)
<1> DEFINE f == Entries[p][i].feature
<1>1. \E e \in E : Live(e, c, f)
  <2>1. CASE EntitlementFree(c, f)
    <3> DEFINE new == [id |-> [customer |-> c, feature |-> f,
                               gen |-> NextEntGen(c, f)],
                       sub |-> s, deleted |-> FALSE]
    <3>1. new \in MissingEnts(s, c, p)
      BY <2>1 DEF MissingEnts, PlanFeatures
    <3>2. Live(new, c, f)
      BY DEF Live
    <3> QED
      BY <3>1, <3>2
  <2>2. CASE ~EntitlementFree(c, f)
    BY <2>2 DEF EntitlementFree
  <2> QED
    BY <2>1, <2>2
<1>2. PICK e \in E : Live(e, c, f)
  BY <1>1
<1>3. ASSUME i \in GrantEntries(p)
      PROVE  \E g \in N : \A h \in N : h.ent = e.id <=> h = g
  <2> DEFINE x == <<i, e>>
             g == NewGrant(s, e.id, t, "materialize")
  <2>1. x \in EntryTargets(p, c, E) /\ x[2] = e
    BY <1>2, <1>3 DEF EntryTargets
  <2>2. g \in N
    BY <2>1 DEF PlanGrants
  <2>3. g.ent = e.id
    BY DEF NewGrant
  <2>4. \A h \in N : h.ent = e.id => h = g
    BY PlanGrantRows
  <2> HIDE DEF g
  <2> QED
    BY <2>2, <2>3, <2>4
<1> QED
  BY <1>2, <1>3 DEF Provided

(* A step after which the grants of s in force are the new ones that       *)
(* materialising its plan made leaves it whole.                            *)
LEMMA WholeFrom ==
  ASSUME NEW s, NEW c, NEW p, NEW t, NEW E, E = ents', c = s.customer, p = s.plan,
         NEW k, k = s.id, E = ents \cup MissingEnts(k, c, p),
         NEW N, N = PlanGrants(k, c, p, t, E), Left(s) = N,
         \A g \in N : g \notin grants
  PROVE  WholeAfter(s)
<1>0. Added(s) = N
  BY DEF Added, InForce, Left
<1>1. ASSUME NEW i \in DOMAIN Entries[p]
      PROVE  FeatureWhole(s, Entries[p][i].feature, i \in GrantEntries(p))
  <2>1. Provided(c, Entries[p][i].feature, i \in GrantEntries(p), E, N)
    BY MaterializeFeature
  <2>2. PICK e \in E :
          /\ Live(e, c, Entries[p][i].feature)
          /\ i \in GrantEntries(p) =>
               \E g \in N : \A h \in N : h.ent = e.id <=> h = g
    BY <2>1 DEF Provided
  <2>3. e \in ents' /\ Live(e, s.customer, Entries[p][i].feature)
    BY <2>2
  <2>4. ASSUME i \in GrantEntries(p)
        PROVE  \E g \in Added(s) : \A h \in Added(s) : h.ent = e.id <=> h = g
    BY <1>0, <2>2, <2>4
  <2> QED
    BY <2>3, <2>4 DEF FeatureWhole
<1>2. \A g \in N : OnPlan(g.ent.feature, p) /\ g.at = t
  BY PlanGrantFeatures, PlanGrantRows
<1> QED
  BY <1>1, <1>2 DEF WholeAfter

(* Every step that signs a subscription up leaves it whole.                *)
LEMMA WholeStep ==
  ASSUME AccountInv, [Next]_vars
  PROVE  \A s \in subs' : Signed(s) => WholeAfter(s)
<1> USE DEF AccountInv, EmissionInv
<1>2. ASSUME NEW s \in subs, s \in subs',
             \A g \in grants' \ grants : g.sub = s.id =>
               g.voided \/ g.via # "materialize"
      PROVE  ~Signed(s)
  BY <1>2 DEF Signed
<1>3. ASSUME NEW r \in Requests, CreateSubscriptionCommit(r), NEW s \in subs'
      PROVE  Signed(s) => WholeAfter(s)
  <2>1. PICK i \in SubIds \ {x.id : x \in subs} :
          /\ \E x \in subs' : /\ x.id = i /\ x.customer = req[r].customer
                              /\ x.plan = req[r].plan /\ subs' = subs \cup {x}
          /\ ents' = ents \cup MissingEnts(i, req[r].customer, req[r].plan)
          /\ grants' = grants \cup
               PlanGrants(i, req[r].customer, req[r].plan, req[r].at, ents')
    BY <1>3, CreateRow
  <2>2. PICK p, c, t, N : /\ p = req[r].plan /\ c = req[r].customer /\ t = req[r].at
                          /\ N = PlanGrants(i, c, p, t, ents')
    OBVIOUS
  <2>3. grants' = grants \cup N /\ \A g \in grants : g.sub # i
    BY <2>1, <2>2, IdAssumption DEF Owners
  <2>4. \A g \in N : g.sub = i /\ ~g.voided
    BY <2>2, PlanGrantRows, PlanGrantFeatures
  <2>5. CASE s \in subs
    <3>1. s.id # i
      BY <2>1, <2>5
    <3>2. \A g \in grants' \ grants : g.sub # s.id
      BY <2>3, <2>4, <3>1
    <3> QED
      BY <1>2, <2>5, <3>2
  <2>6. CASE s \notin subs
    <3>1. s.id = i /\ s.customer = c /\ s.plan = p
      BY <2>1, <2>2, <2>6
    <3>2. Left(s) = N
      BY <2>3, <2>4, <3>1 DEF Left
    <3>3. \A g \in N : g \notin grants
      BY <2>3, <2>4
    <3>4. ents' = ents \cup MissingEnts(i, c, p)
      BY <2>1, <2>2
    <3> QED
      BY <2>2, <3>1, <3>2, <3>3, <3>4, WholeFrom
  <2> QED
    BY <2>5, <2>6
<1>4. ASSUME NEW r \in Requests, ChangeSubscriptionCommit(r), NEW s \in subs'
      PROVE  Signed(s) => WholeAfter(s)
  <2>1. PICK i, p, c, t, N :
          /\ i = req[r].sub.id /\ p = req[r].plan /\ c = req[r].sub.customer
          /\ t = req[r].at /\ N = PlanGrants(i, c, p, t, ents')
    OBVIOUS
  <2>2. /\ ents' = ents \cup MissingEnts(i, c, p)
        /\ grants' = VoidAll(i) \cup N
    BY <1>4, <2>1 DEF ChangeSubscriptionCommit, MaterializeEntries
  <2>3. SameAccount(req[r].sub)
    BY <1>4 DEF ChangeSubscriptionCommit, Held
  <2>4. \A g \in N : g.sub = i /\ ~g.voided
    BY <2>1, PlanGrantRows, PlanGrantFeatures
  <2>5. \A g \in N : g \notin grants
    BY <2>1, PlanGrantsNew
  <2>6. PICK o \in subs :
          /\ s.id = o.id /\ s.customer = o.customer
          /\ s = IF o.id = i THEN [o EXCEPT !.plan = p] ELSE o
          /\ s.plan = IF o.id = i THEN p ELSE o.plan
    BY <1>4, <2>1, ChangeRows
  <2>7. CASE o.id = i
    <3>1. s.id = i /\ s.plan = p /\ s.customer = c
      BY <2>1, <2>3, <2>6, <2>7 DEF SameAccount, Ids
    <3>2. Left(s) = N
      BY <2>2, <2>4, <3>1, VoidAllRows DEF Left
    <3> QED
      BY <2>1, <2>2, <2>5, <3>1, <3>2, WholeFrom
  <2>8. CASE o.id # i
    <3>1. s = o
      BY <2>6, <2>8
    <3>2. \A g \in grants' \ grants : g.sub = s.id => g.voided
      BY <2>2, <2>4, <2>8, <3>1, VoidAllRows
    <3> QED
      BY <1>2, <3>1, <3>2
  <2> QED
    BY <2>7, <2>8
<1>5. ASSUME \A s \in subs' : \E o \in subs : o.id = s.id /\ o.plan = s.plan,
             \A g \in grants' \ grants :
               g.voided \/ g.via # "materialize" \/ g.sub = NoSub
      PROVE  \A s \in subs' : ~Signed(s)
  <2>1. NoSub \notin {s.id : s \in subs'}
    BY TypeStep, IdAssumption DEF TypeInv, TypeOK, SubRow
  <2> QED
    BY <1>5, <2>1 DEF Signed
<1>6. ASSUME NEW c \in subs, NEW at \in AtInputs \cup {now},
             CancelSubscription(c, at)
      PROVE  \A s \in subs' : ~Signed(s)
  <2>1. \A s \in subs' : \E o \in subs : o.id = s.id /\ o.plan = s.plan
    BY <1>6, CancelRows
  <2>2. \A g \in grants' \ grants : g.voided
    BY <1>6, VoidAllRows DEF CancelSubscription
  <2> QED
    BY <1>5, <2>1, <2>2
<1>7. CASE UNCHANGED subs /\ ~\E r \in Requests :
             CreateSubscriptionCommit(r) \/ ChangeSubscriptionCommit(r)
  <2>1. ASSUME NEW e \in ents, NEW t, CreateGrant(e, t)
        PROVE  \A g \in grants' \ grants : g.sub = NoSub
    BY <2>1 DEF CreateGrant, NewGrant
  <2>2. ASSUME NEW g \in grants, VoidGrant(g)
        PROVE  \A h \in grants' \ grants : h.voided
    <3>1. [g EXCEPT !.voided = TRUE].voided = TRUE
      BY DEF TypeInv, TypeOK, GrantRow
    <3> QED
      BY <2>2, <3>1 DEF VoidGrant
  <2>3. ASSUME NEW w \in Workers, InsertGrant(w)
        PROVE  \A g \in grants' \ grants : g.via # "materialize"
    BY <2>3 DEF InsertGrant, NewGrant
  <2>4. ASSUME NEW c \in subs, NEW at, CancelSubscription(c, at)
        PROVE  \A g \in grants' \ grants : g.voided
    BY <2>4, VoidAllRows DEF CancelSubscription
  <2>5. \A g \in grants' \ grants :
          g.voided \/ g.via # "materialize" \/ g.sub = NoSub
    BY <1>7, <2>1, <2>2, <2>3, <2>4, StepKinds
  <2> QED
    BY <1>5, <1>7, <2>5
<1> QED
  BY <1>3, <1>4, <1>6, <1>7, SubStepKinds

----------------------------------------------------------------------------
(* The theorems.                                                           *)

LEMMA AccountInvInductive == Spec => []AccountInv
<1>1. Init => /\ Ids /\ Held /\ OneActivePerPlan /\ OwnCustomer
              /\ SingleEpoch /\ InitialGranted /\ Numbered(grants)
  BY DEF Init, Ids, Held, OwnPass, Resting, Idle, OneActivePerPlan,
         OwnCustomer, SingleEpoch, InitialGranted, Numbered
<1>2. EmissionInv /\ Init => AccountInv
  BY <1>1 DEF AccountInv
<1>3. AccountInv /\ [Next]_vars => AccountInv'
  <2> SUFFICES ASSUME AccountInv, [Next]_vars
               PROVE  AccountInv'
    OBVIOUS
  <2>1. EmissionInv'
    BY TypeStep, OwnersStep, CopiesStep, UniqueStep, CadenceStep
    DEF AccountInv, EmissionInv
  <2> QED
    BY <2>1, SubscriptionsStep, HeldStep, OwnCustomerStep, EpochStep,
       InitialStep, NumberedStep
    DEF AccountInv
<1> QED
  BY <1>2, <1>3, EmissionInvInductive, PTL DEF Spec

(* Grants, entitlements and subscriptions never cross customers, and a     *)
(* customer has one live entitlement to a feature, whatever is deleted and *)
(* recreated between the reads of a handler or a pass.                     *)
THEOREM CustomersApart == Spec => []OwnCustomer
BY AccountInvInductive, PTL DEF AccountInv

(* The first grants in force are of the plan the subscription is on, of    *)
(* one transaction and one to a feature, whatever was changed, voided and  *)
(* emitted in between.                                                     *)
THEOREM OnePlanInForce == Spec => []SingleEpoch
BY AccountInvInductive, PTL DEF AccountInv

(* The step that subscribes or changes leaves a live entitlement to each   *)
(* feature of the plan, one new grant for each of its grant entries, and   *)
(* no other grant of the subscription in force.                            *)
THEOREM AllOrNothing == Spec => MaterializedWhole
<1>1. AccountInv /\ [Next]_vars =>
        [\A s \in subs' : Signed(s) =>
           /\ \A i \in DOMAIN Entries[s.plan] :
                FeatureWhole(s, Entries[s.plan][i].feature,
                             i \in GrantEntries(s.plan))
           /\ \A g \in InForce(s)' :
                /\ g \in Added(s)
                /\ \E i \in GrantEntries(s.plan) :
                     g.ent.feature = Entries[s.plan][i].feature
                /\ \A h \in InForce(s)' : h.at = g.at]_vars
  BY WholeStep DEF WholeAfter, Left, Added, InForce, OnPlan
<1> QED
  BY <1>1, AccountInvInductive, PTL DEF Spec, MaterializedWhole

----------------------------------------------------------------------------
(* Nobody else's rows.                                                     *)

(* Voiding the grants of i leaves the others as they are.                  *)
LEMMA VoidAllOthers ==
  ASSUME TypeInv, NEW i
  PROVE  {g \in VoidAll(i) : g.sub # i} = {g \in grants : g.sub # i}
<1>1. \A g \in grants : [g EXCEPT !.voided = TRUE].sub = g.sub
  BY DEF TypeInv, TypeOK, GrantRow
<1> QED
  BY <1>1 DEF VoidAll

(* A step that writes subscriptions writes the rows of one, and of the     *)
(* grants its own: cancelled, changed or created, and no other.            *)
LEMMA IsolationStep ==
  ASSUME AccountInv, [Next]_vars, subs' # subs
  PROVE  \E i \in SubIds :
           /\ {x \in subs : x.id # i} = {x \in subs' : x.id # i}
           /\ {g \in grants : g.sub # i} = {g \in grants' : g.sub # i}
<1> USE DEF AccountInv, EmissionInv
<1> DEFINE Isolated(i) ==
             /\ {x \in subs : x.id # i} = {x \in subs' : x.id # i}
             /\ {g \in grants : g.sub # i} = {g \in grants' : g.sub # i}
<1>1. \A s \in subs : s \in SubRow /\ s.id \in SubIds
  BY DEF TypeInv, TypeOK, SubRow
<1>2. ASSUME NEW r \in Requests, CreateSubscriptionCommit(r)
      PROVE  \E i \in SubIds : Isolated(i)
  <2>1. PICK i \in SubIds :
          /\ \E x \in subs' : x.id = i /\ subs' = subs \cup {x}
          /\ grants' = grants \cup
               PlanGrants(i, req[r].customer, req[r].plan, req[r].at, ents')
    BY <1>2, CreateRow
  <2>2. {x \in subs : x.id # i} = {x \in subs' : x.id # i}
    BY <2>1
  <2>3. {g \in grants : g.sub # i} = {g \in grants' : g.sub # i}
    BY <2>1, PlanGrantRows
  <2> QED
    BY <2>2, <2>3
<1>3. ASSUME NEW r \in Requests, ChangeSubscriptionCommit(r)
      PROVE  \E i \in SubIds : Isolated(i)
  <2> DEFINE i == req[r].sub.id
             p == req[r].plan
  <2>1. /\ subs' = {IF s.id = i THEN [s EXCEPT !.plan = p] ELSE s : s \in subs}
        /\ grants' = VoidAll(i) \cup
             PlanGrants(i, req[r].sub.customer, p, req[r].at, ents')
    BY <1>3 DEF ChangeSubscriptionCommit, MaterializeEntries
  <2>2. i \in SubIds
    BY <1>1, <1>3 DEF ChangeSubscriptionCommit, Held, SameAccount
  <2>3. \A s \in subs : [s EXCEPT !.plan = p].id = s.id
    BY <1>1, SubUpdates
  <2> HIDE DEF i, p
  <2>4. {x \in subs : x.id # i} = {x \in subs' : x.id # i}
    BY <2>1, <2>3
  <2>5. {g \in grants : g.sub # i} = {g \in grants' : g.sub # i}
    BY <2>1, PlanGrantRows, VoidAllOthers
  <2> QED
    BY <2>2, <2>4, <2>5
<1>4. ASSUME NEW c \in subs, NEW at \in AtInputs \cup {now},
             CancelSubscription(c, at)
      PROVE  \E i \in SubIds : Isolated(i)
  <2> DEFINE i == c.id
  <2>1. /\ subs' = {AfterCancel(s, c, at) : s \in subs}
        /\ grants' = VoidAll(i)
    BY <1>4 DEF CancelSubscription, AfterCancel
  <2>2. i \in SubIds
    BY <1>1
  <2>3. \A s \in subs : /\ AfterCancel(s, c, at).id = s.id
                        /\ s.id # i => AfterCancel(s, c, at) = s
    BY <1>1, SubUpdates DEF AfterCancel
  <2> HIDE DEF i
  <2>4. {x \in subs : x.id # i} = {x \in subs' : x.id # i}
    BY <2>1, <2>3
  <2>5. {g \in grants : g.sub # i} = {g \in grants' : g.sub # i}
    BY <2>1, VoidAllOthers
  <2> QED
    BY <2>2, <2>4, <2>5
<1>5. \E i \in SubIds : Isolated(i)
  <2> HIDE DEF Isolated
  <2> QED
    BY <1>2, <1>3, <1>4, SubStepKinds
<1> QED
  BY <1>5

(* Creating, changing or cancelling a subscription leaves every other one, *)
(* and every grant that is not its own, as it was.                         *)
THEOREM OthersUntouched == Spec => RowIsolation
<1>1. AccountInv /\ [Next]_vars =>
        [subs' # subs =>
           \E s \in SubIds :
             /\ {x \in subs : x.id # s} = {x \in subs' : x.id # s}
             /\ {g \in grants : g.sub # s} = {g \in grants' : g.sub # s}]_vars
  BY IsolationStep
<1> QED
  BY <1>1, AccountInvInductive, PTL DEF Spec, RowIsolation

=============================================================================

--------------------------- MODULE Subscriptions ---------------------------
(***************************************************************************)
(* Plan-driven credit issuing in metery: the subscription handlers         *)
(* (service/subscription.go), the transactions they run (store/store.go),  *)
(* and the recurrence worker (worker/recurrence.go), all sharing the       *)
(* tables subscriptions, plans, entitlements and grants.                   *)
(*                                                                         *)
(* A table is a set of rows, so an UPDATE ... WHERE is a map over the set. *)
(* A SQL transaction is one step: SQLite serialises writers.  A handler is *)
(* as many steps as it makes queries outside a transaction, and between    *)
(* any two of them every other handler, worker and the clock may move.     *)
(***************************************************************************)
EXTENDS Integers, FiniteSets, Sequences

CONSTANTS
  Customers, Plans, Features, \* rows of the catalogue; none is ever removed
  SubIds,                     \* pool of subscription ids (bounds the rows)
  Requests,                   \* concurrent API calls of two or more queries
  Workers,                    \* concurrent recurrence passes
  Entries,      \* Entries[p]: the plan's entries, [feature, grant: BOOLEAN]
  Interval,     \* Interval[p]: recurrence_interval in ticks; 0 is NULL
  Metered,      \* the features that have a meter
  MaxTime,      \* the clock stops here
  AtInputs,     \* timestamps clients pass for starts_at, effective_at and at
  EndInputs,    \* values clients pass for ends_at
  MaxCalls      \* bound on the API calls of a behaviour

None == -1      \* SQL NULL, or an absent timestamp of a request
NoSub == "manual" \* a NULL subscription_id: the row was created by hand
Time == 0 .. MaxTime

ASSUME TimeAssumption ==
  /\ MaxTime \in Nat
  /\ AtInputs \subseteq Time
  /\ EndInputs \subseteq Time \cup {None}

ASSUME PlanAssumption ==
  /\ Entries \in [Plans -> Seq([feature : Features, grant : BOOLEAN])]
  /\ Interval \in [Plans -> Nat]
  /\ Metered \subseteq Features

ASSUME IdAssumption == NoSub \notin SubIds /\ MaxCalls \in Nat

VARIABLES
  now,       \* the database host's clock
  archived,  \* plans with archived_at set
  subs,      \* table subscriptions
  ents,      \* table entitlements
  grants,    \* table grants
  req,       \* req[r]: what the handler serving call r has read so far
  wrk,       \* wrk[w]: what recurrence pass w has read so far
  calls      \* API calls begun so far; no code reads it

tables == <<archived, subs, ents, grants>>
vars == <<now, tables, req, wrk, calls>>

(***************************************************************************)
(* Rows.  An entitlement's id is its (customer, feature) and a generation  *)
(* number; a grant's key likewise ends in one, so that two rows equal in   *)
(* all else stay two.  `via' is not a column: it remembers for properties  *)
(* which code path inserted the grant.                                     *)
(***************************************************************************)
SubRow == [id : SubIds, customer : Customers, plan : Plans, starts : Time,
           ends : Time \cup {None}, canceled : Time \cup {None}]
EntId == [customer : Customers, feature : Features, gen : Nat]
EntRow == [id : EntId, sub : SubIds \cup {NoSub}, deleted : BOOLEAN]
GrantRow == [sub : SubIds \cup {NoSub}, ent : EntId, at : Time, gen : Nat,
             via : {"api", "materialize", "worker"}, voided : BOOLEAN]

Active(s) == s.canceled = None
Live(e, c, f) == e.id.customer = c /\ e.id.feature = f /\ ~e.deleted
GrantEntries(p) == {i \in DOMAIN Entries[p] : Entries[p][i].grant}
PlanFeatures(p) == {Entries[p][i].feature : i \in DOMAIN Entries[p]}
NextEntGen(c, f) ==
  Cardinality({e \in ents : e.id.customer = c /\ e.id.feature = f})
SameKey(g, s, e, t) == g.sub = s /\ g.ent = e /\ g.at = t
NextGrantGen(s, e, t) == Cardinality({g \in grants : SameKey(g, s, e, t)})

NewGrant(s, e, t, path) ==
  [sub |-> s, ent |-> e, at |-> t, gen |-> NextGrantGen(s, e, t),
   via |-> path, voided |-> FALSE]

(* The plan's grant entries paired with the customer's live entitlement on *)
(* the entry's feature, among the entitlement rows E.                      *)
EntryTargets(p, c, E) ==
  {x \in GrantEntries(p) \X E : Live(x[2], c, Entries[p][x[1]].feature)}

(* Slip: the migration that adds the index is missing.                     *)
ActivePlanUniq_NoIndex(S) == TRUE

(* Unique index subscriptions_active_plan_uniq on a table S.               *)
ActivePlanUniq(S) ==
  \A s, t \in S : /\ Active(s) /\ Active(t)
                  /\ s.customer = t.customer /\ s.plan = t.plan
                  => s.id = t.id

(* Slip: the migration that adds the index is missing.                     *)
EmissionFree_NoIndex(s, e, t) == TRUE

(* Unique index grants_subscription_emission_uniq: may this row go in?     *)
EmissionFree(s, e, t) == \A g \in grants : SameKey(g, s, e, t) => g.voided

(* Slip: a duplicate is looked for among the manual entitlements only.     *)
EntitlementFree_Manual(c, f) ==
  \A e \in ents : Live(e, c, f) => e.sub # NoSub

(* Unique index entitlements_active_uniq: may this row go in?              *)
EntitlementFree(c, f) == \A e \in ents : ~Live(e, c, f)

(* Slip: only the worker's grants count as the subscription's recurring    *)
(* ones.                                                                   *)
VoidAll_WorkerOnly(s) ==
  {IF g.sub = s /\ g.via = "worker" THEN [g EXCEPT !.voided = TRUE] ELSE g :
     g \in grants}

(* Slip: the UPDATE selects by the subscription's entitlements.            *)
VoidAll_ByEntitlement(s) ==
  {IF \E h \in grants : h.sub = s /\ h.ent = g.ent
     THEN [g EXCEPT !.voided = TRUE] ELSE g : g \in grants}

(* UPDATE grants SET voided_at ... WHERE subscription_id = s.              *)
VoidAll(s) ==
  {IF g.sub = s THEN [g EXCEPT !.voided = TRUE] ELSE g : g \in grants}

Call == calls < MaxCalls /\ calls' = calls + 1

Idle == [pc |-> "idle"]
Resting == [pc |-> "idle", listed |-> {}, jobs |-> {}, now |-> 0]

Init ==
  /\ now = 0
  /\ archived = {}
  /\ subs = {} /\ ents = {} /\ grants = {}
  /\ req = [r \in Requests |-> Idle]
  /\ wrk = [w \in Workers |-> Resting]
  /\ calls = 0

----------------------------------------------------------------------------
(* Transactions and single statements of the store.                        *)

(* buildSubscriptionEntries: a grant template needs a metered feature.     *)
Buildable(p) == \A i \in GrantEntries(p) : Entries[p][i].feature \in Metered

(* The rows materializeEntries adds for subscription s of customer c: an   *)
(* entitlement for each feature of plan p that has no live one, and one    *)
(* grant per grant entry, effective at t.                                  *)
MissingEnts(s, c, p) ==
  {[id |-> [customer |-> c, feature |-> f, gen |-> NextEntGen(c, f)],
    sub |-> s, deleted |-> FALSE] :
      f \in {f \in PlanFeatures(p) : EntitlementFree(c, f)}}

PlanGrants(s, c, p, t, E) ==
  {NewGrant(s, x[2].id, t, "materialize") : x \in EntryTargets(p, c, E)}

(* Two grant entries on one feature collide in the emission index, and     *)
(* the whole transaction rolls back.                                       *)
EntriesCollide(p) ==
  \E i, j \in GrantEntries(p) :
    i # j /\ Entries[p][i].feature = Entries[p][j].feature

(* Slip: each entry's statements commit on their own, and the loop may be  *)
(* cut short after any of them.                                            *)
MaterializeEntries_NoTx(s, c, p, t, kept) ==
  \E n \in 0 .. Len(Entries[p]) :
    LET done == {Entries[p][i].feature : i \in 1 .. n}
        newEnts == {e \in MissingEnts(s, c, p) : e.id.feature \in done}
        newGrants == PlanGrants(s, c, p, t, ents \cup newEnts)
    IN  /\ ~EntriesCollide(p)
        /\ ents' = ents \cup newEnts
        /\ grants' = kept \cup {g \in newGrants : g.ent.feature \in done}

(* materializeEntries run on a grants table in which `kept' is what the    *)
(* transaction has left of the rows.                                       *)
MaterializeEntries(s, c, p, t, kept) ==
  LET newEnts == MissingEnts(s, c, p)
      newGrants == PlanGrants(s, c, p, t, ents \cup newEnts)
  IN  /\ ~EntriesCollide(p)
      /\ ents' = ents \cup newEnts
      /\ grants' = kept \cup newGrants

----------------------------------------------------------------------------
(* CreateSubscription: plan lookup; duplicate check; one transaction.      *)

CreateSubscriptionBegin(r) ==
  /\ req[r].pc = "idle"
  /\ \E c \in Customers, p \in Plans \ archived,
        t \in AtInputs \cup {None}, e \in EndInputs :
       req' = [req EXCEPT ![r] =
                 [pc |-> "dup", customer |-> c, plan |-> p, at |-> t, ends |-> e]]
  /\ Call
  /\ UNCHANGED <<now, tables, wrk>>

(* HasActiveSubscriptionForPlan, then starts_at defaults to the clock.     *)
CreateSubscriptionCheck(r) ==
  LET q == req[r] IN
  /\ q.pc = "dup"
  /\ req' = [req EXCEPT ![r] =
       IF \/ \E s \in subs : /\ s.customer = q.customer /\ s.plan = q.plan
                             /\ Active(s)
          \/ ~Buildable(q.plan)
         THEN Idle
         ELSE [q EXCEPT !.pc = "create",
                        !.at = IF q.at = None THEN now ELSE q.at]]
  /\ UNCHANGED <<now, tables, wrk, calls>>

CreateSubscriptionCommit(r) ==
  LET q == req[r] IN
  /\ q.pc = "create"
  /\ \E i \in SubIds \ {s.id : s \in subs} :
       /\ subs' = subs \cup
            {[id |-> i, customer |-> q.customer, plan |-> q.plan,
              starts |-> q.at, ends |-> q.ends, canceled |-> None]}
       /\ ActivePlanUniq(subs')
       /\ MaterializeEntries(i, q.customer, q.plan, q.at, grants)
  /\ req' = [req EXCEPT ![r] = Idle]
  /\ UNCHANGED <<now, archived, wrk, calls>>

(* ChangeSubscription: read the row; read the plan; one transaction.       *)
ChangeSubscriptionBegin(r) ==
  /\ req[r].pc = "idle"
  /\ \E s \in subs, p \in Plans, t \in AtInputs \cup {None} :
       /\ Active(s)
       /\ req' = [req EXCEPT ![r] =
                    [pc |-> "plan", sub |-> s, plan |-> p, at |-> t]]
  /\ Call
  /\ UNCHANGED <<now, tables, wrk>>

ChangeSubscriptionPlan(r) ==
  LET q == req[r] IN
  /\ q.pc = "plan"
  /\ req' = [req EXCEPT ![r] =
       IF q.plan \in archived \/ ~Buildable(q.plan)
         THEN Idle
         ELSE [q EXCEPT !.pc = "change",
                        !.at = IF q.at = None THEN now ELSE q.at]]
  /\ UNCHANGED <<now, tables, wrk, calls>>

(* The UPDATE names the row by id only: it does not look at canceled_at.   *)
ChangeSubscriptionCommit(r) ==
  LET q == req[r] IN
  /\ q.pc = "change"
  /\ subs' = {IF s.id = q.sub.id THEN [s EXCEPT !.plan = q.plan] ELSE s :
                s \in subs}
  /\ ActivePlanUniq(subs')
  /\ MaterializeEntries(q.sub.id, q.sub.customer, q.plan, q.at,
                        VoidAll(q.sub.id))
  /\ req' = [req EXCEPT ![r] = Idle]
  /\ UNCHANGED <<now, archived, wrk, calls>>

(* The caller goes away, a query fails, or the transaction rolls back.     *)
RequestFails(r) ==
  /\ req[r].pc # "idle"
  /\ req' = [req EXCEPT ![r] = Idle]
  /\ UNCHANGED <<now, tables, wrk, calls>>

(* Slip: a repeated cancellation is not turned away by canceled_at.        *)
CancelSubscription_Again(s, at) ==
  /\ subs' = {IF x = s THEN [x EXCEPT !.canceled = at,
                                      !.ends = IF @ = None THEN at ELSE @]
                       ELSE x : x \in subs}
  /\ grants' = VoidAll(s.id)
  /\ Call
  /\ UNCHANGED <<now, archived, ents, req, wrk>>

(* CancelSubscription: `at' is the clock or whatever the client asks for.  *)
CancelSubscription(s, at) ==
  /\ subs' = {IF x = s /\ Active(x)
                THEN [x EXCEPT !.canceled = at,
                               !.ends = IF @ = None THEN at ELSE @]
                ELSE x : x \in subs}
  /\ grants' = VoidAll(s.id)
  /\ Call
  /\ UNCHANGED <<now, archived, ents, req, wrk>>

----------------------------------------------------------------------------
(* One-statement handlers on the same tables.                              *)

ArchivePlan(p) ==
  /\ p \notin archived
  /\ archived' = archived \cup {p}
  /\ Call
  /\ UNCHANGED <<now, subs, ents, grants, req, wrk>>

CreateEntitlement(c, f) ==
  LET row == [id |-> [customer |-> c, feature |-> f, gen |-> NextEntGen(c, f)],
              sub |-> NoSub, deleted |-> FALSE]
  IN  /\ EntitlementFree(c, f)
      /\ ents' = ents \cup {row}
      /\ Call
      /\ UNCHANGED <<now, archived, subs, grants, req, wrk>>

DeleteEntitlement(c, f) ==
  /\ ~EntitlementFree(c, f)
  /\ ents' = {IF Live(e, c, f) THEN [e EXCEPT !.deleted = TRUE] ELSE e :
                e \in ents}
  /\ Call
  /\ UNCHANGED <<now, archived, subs, grants, req, wrk>>

(* The handler looks the entitlement up first, so by the time it inserts   *)
(* the row may be deleted: any entitlement that ever was live will do, the *)
(* ones on features without a meter included.                              *)
CreateGrant(e, t) ==
  /\ grants' = grants \cup {NewGrant(NoSub, e.id, t, "api")}
  /\ Call
  /\ UNCHANGED <<now, archived, subs, ents, req, wrk>>

VoidGrant(g) ==
  /\ ~g.voided
  /\ grants' = (grants \ {g}) \cup {[g EXCEPT !.voided = TRUE]}
  /\ Call
  /\ UNCHANGED <<now, archived, subs, ents, req, wrk>>

----------------------------------------------------------------------------
(* processRecurrence: a pass lists, expands each listed subscription with  *)
(* the customer's entitlements, takes the time, then for every entry reads *)
(* the latest grant and inserts the next one when it is due.               *)

(* Slip: the WHERE clause forgets canceled_at.                             *)
Recurring_Canceled(s) == Interval[s.plan] > 0 /\ s.plan \notin archived

(* The WHERE clause of ListRecurringSubscriptions; it does not ask ends_at.*)
Recurring(s) == Active(s) /\ Interval[s.plan] > 0 /\ s.plan \notin archived

(* A pass that finds nothing to list is over at once.                      *)
ListRecurringSubscriptions(w) ==
  LET due == {s \in subs : Recurring(s)}
  IN  /\ wrk[w].pc = "idle"
      /\ wrk' = [wrk EXCEPT ![w] =
           IF due = {} THEN Resting
           ELSE [pc |-> "expand", listed |-> due, jobs |-> {}, now |-> 0]]
      /\ UNCHANGED <<now, tables, req, calls>>

(* The rows of the listing are copies: the loop never reads them again.    *)
ExpandSubscription(w) ==
  /\ wrk[w].pc = "expand"
  /\ \E s \in wrk[w].listed :
       wrk' = [wrk EXCEPT
         ![w].listed = @ \ {s},
         ![w].jobs = @ \cup {[sub |-> s, entry |-> x[1], ent |-> x[2].id] :
                               x \in EntryTargets(s.plan, s.customer, ents)}]
  /\ UNCHANGED <<now, tables, req, calls>>

(* The pass with these entries left to do at its time t.                   *)
Loop(jobs, t) ==
  IF jobs = {} THEN Resting
  ELSE [pc |-> "read", listed |-> {}, jobs |-> jobs, now |-> t]

StartLoop(w) ==
  /\ wrk[w].pc = "expand" /\ wrk[w].listed = {}
  /\ wrk' = [wrk EXCEPT ![w] = Loop(wrk[w].jobs, now)]
  /\ UNCHANGED <<now, tables, req, calls>>

(* Entries of one subscription go in plan order; the listing has no order. *)
NextJob(w, j) ==
  /\ wrk[w].pc = "read"
  /\ j \in wrk[w].jobs
  /\ \A k \in wrk[w].jobs : k.sub.id = j.sub.id => j.entry <= k.entry

(* GetLatestSubscriptionGrant, voided rows included; starts_at if none.    *)
LatestBase(j) ==
  LET rows == {g \in grants : g.sub = j.sub.id /\ g.ent = j.ent}
  IN  IF rows = {} THEN {j.sub.starts}
      ELSE {g.at : g \in {h \in rows : \A k \in rows : k.at <= h.at}}

(* Slip: cycles missed while no worker ran are folded into one, at once.   *)
NextCycle_SkipMissed(s, base) ==
  IF base + Interval[s.plan] < now THEN now ELSE base + Interval[s.plan]

(* The cycle after the base.                                               *)
NextCycle(s, base) == base + Interval[s.plan]

(* Slip: the next cycle is emitted one ahead of its time.                  *)
Due_Ahead(next, t) == TRUE

(* Slip: off by one at the boundary.                                       *)
Due_Late(next, t) == next < t

Due(next, t) == next <= t

(* The next cycle goes on to the insert unless it is not due.              *)
Weigh(w, j, base) ==
  LET next == NextCycle(j.sub, base)
      rest == wrk[w].jobs \ {j}
  IN  wrk' = [wrk EXCEPT ![w] =
        IF ~Due(next, wrk[w].now) THEN Loop(rest, wrk[w].now)
        ELSE [pc |-> "insert", listed |-> {}, jobs |-> rest,
              now |-> wrk[w].now, job |-> j, next |-> next]]

ReadLatest(w) ==
  /\ \E j \in wrk[w].jobs :
       NextJob(w, j) /\ \E b \in LatestBase(j) : Weigh(w, j, b)
  /\ UNCHANGED <<now, tables, req, calls>>

(* A failed read of the latest grant is taken for "no grant yet".          *)
ReadLatestFails(w) ==
  /\ \E j \in wrk[w].jobs : NextJob(w, j) /\ Weigh(w, j, j.sub.starts)
  /\ UNCHANGED <<now, tables, req, calls>>

(* The worker's CreateGrant; the emission index turns a repeat away.       *)
InsertGrant(w) ==
  LET p == wrk[w] IN
  /\ p.pc = "insert"
  /\ IF EmissionFree(p.job.sub.id, p.job.ent, p.next)
       THEN grants' = grants \cup
              {NewGrant(p.job.sub.id, p.job.ent, p.next, "worker")}
       ELSE UNCHANGED grants
  /\ wrk' = [wrk EXCEPT ![w] = Loop(p.jobs, p.now)]
  /\ UNCHANGED <<now, archived, subs, ents, req, calls>>

(* A feature lookup or an insert that fails costs its entry this pass.     *)
SkipEntry(w) ==
  /\ \/ \E j \in wrk[w].jobs :
          /\ NextJob(w, j)
          /\ wrk' = [wrk EXCEPT ![w] = Loop(@.jobs \ {j}, @.now)]
     \/ /\ wrk[w].pc = "insert"
        /\ wrk' = [wrk EXCEPT ![w] = Loop(@.jobs, @.now)]
  /\ UNCHANGED <<now, tables, req, calls>>

(* The process is stopped, or the listing fails half way.                  *)
PassAborts(w) ==
  /\ wrk[w].pc # "idle"
  /\ wrk' = [wrk EXCEPT ![w] = Resting]
  /\ UNCHANGED <<now, tables, req, calls>>

----------------------------------------------------------------------------
Tick ==
  /\ now < MaxTime
  /\ now' = now + 1
  /\ UNCHANGED <<tables, req, wrk, calls>>

RequestBegin(r) == CreateSubscriptionBegin(r) \/ ChangeSubscriptionBegin(r)

RequestStep(r) ==
  \/ CreateSubscriptionCheck(r) \/ CreateSubscriptionCommit(r)
  \/ ChangeSubscriptionPlan(r) \/ ChangeSubscriptionCommit(r)
  \/ RequestFails(r)

StatementStep ==
  \/ \E s \in subs, at \in AtInputs \cup {now} : CancelSubscription(s, at)
  \/ \E p \in Plans : ArchivePlan(p)
  \/ \E c \in Customers, f \in Features :
       CreateEntitlement(c, f) \/ DeleteEntitlement(c, f)
  \/ \E e \in ents, t \in AtInputs \cup {now} : CreateGrant(e, t)
  \/ \E g \in grants : VoidGrant(g)

WorkerStep(w) ==
  \/ ListRecurringSubscriptions(w) \/ ExpandSubscription(w) \/ StartLoop(w)
  \/ ReadLatest(w) \/ InsertGrant(w)

WorkerFault(w) == ReadLatestFails(w) \/ SkipEntry(w) \/ PassAborts(w)

Next ==
  \/ Tick
  \/ \E r \in Requests : RequestBegin(r) \/ RequestStep(r)
  \/ StatementStep
  \/ \E w \in Workers : WorkerStep(w) \/ WorkerFault(w)

Spec == Init /\ [][Next]_vars

(* A handler that started returns, and a worker keeps ticking: its process *)
(* is restarted when it stops.  Neither calls nor faults are owed.         *)
Fairness ==
  /\ \A r \in Requests : WF_vars(RequestStep(r))
  /\ \A w \in Workers : WF_vars(WorkerStep(w))

(* Passes may fail for as long as they like, but not for ever: from some   *)
(* time on every step of a pass is one the code takes without a failure.   *)
FaultsEnd == <>[][\A w \in Workers : WorkerFault(w) => WorkerStep(w)]_vars

FairSpec == Spec /\ Fairness /\ FaultsEnd

----------------------------------------------------------------------------
(* Properties.                                                             *)

(* A request has its time once it has passed its last check.               *)
CreateArgs(pc, times) ==
  [pc : {pc}, customer : Customers, plan : Plans, at : times,
   ends : Time \cup {None}]
ChangeArgs(pc, times) == [pc : {pc}, sub : SubRow, plan : Plans, at : times]
RequestState ==
  {Idle} \cup CreateArgs("dup", Time \cup {None}) \cup CreateArgs("create", Time)
         \cup ChangeArgs("plan", Time \cup {None}) \cup ChangeArgs("change", Time)

Job == [sub : SubRow, entry : Nat, ent : EntId]
ReadingPass == [pc : {"idle", "expand", "read"}, listed : SUBSET SubRow,
                jobs : SUBSET Job, now : Time]
InsertingPass == [pc : {"insert"}, listed : SUBSET SubRow, jobs : SUBSET Job,
                  now : Time, job : Job, next : Time]
PassState == ReadingPass \cup InsertingPass

(* Every variable keeps its type: rows keep the columns their tables give  *)
(* them and a handler's or pass's local state the shape its code gives it. *)
TypeOK ==
  /\ now \in Time
  /\ archived \subseteq Plans
  /\ subs \subseteq SubRow
  /\ ents \subseteq EntRow
  /\ grants \subseteq GrantRow
  /\ req \in [Requests -> RequestState]
  /\ wrk \in [Workers -> PassState]
  /\ calls \in 0 .. MaxCalls

(* No cycle of a subscription is credited twice on one entitlement: of the *)
(* grants that agree on (subscription, entitlement, effective_at) at most  *)
(* one is not voided, however many passes work from the same reads.        *)
EmissionUnique ==
  \A g, h \in grants :
    /\ g.sub # NoSub /\ ~g.voided /\ ~h.voided
    /\ SameKey(h, g.sub, g.ent, g.at)
    => g = h

(* Where a grant the worker emits may sit: one interval of some recurring  *)
(* plan after another grant of the same subscription and entitlement, or   *)
(* after the subscription's start.                                         *)
OnCadence(s, e, t, starts) ==
  \E p \in Plans :
    /\ Interval[p] > 0
    /\ \/ t = starts + Interval[p]
       \/ \E h \in grants :
            h.sub = s /\ h.ent = e /\ t = h.at + Interval[p]

(* Emissions form a chain from the start of the subscription in whole      *)
(* cycles, none ahead of its time, whatever was cancelled, changed, voided,*)
(* emitted by another pass or lost to a crash in between.                  *)
EmissionCadence ==
  \A g \in grants : g.via = "worker" =>
    /\ g.at <= now
    /\ \E s \in subs : s.id = g.sub /\ OnCadence(g.sub, g.ent, g.at, s.starts)

(* A step signs subscription s up for the plan it is on now: it inserts    *)
(* the row, puts it on another plan, or materialises a plan for it.        *)
Signed(s) ==
  \/ \A t \in subs : t.id = s.id => t.plan # s.plan
  \/ \E g \in grants' \ grants : /\ g.sub = s.id /\ g.via = "materialize"
                                 /\ ~g.voided

(* The grants of subscription s in force, and those of them a step adds.   *)
InForce(s) == {g \in grants : g.sub = s.id /\ ~g.voided}
Added(s) == InForce(s)' \ grants

(* Feature f of a plan is whole for s after a step: the customer has a     *)
(* live entitlement to it and, if an entry grants it, one new grant there. *)
FeatureWhole(s, f, granted) ==
  \E e \in ents' :
    /\ Live(e, s.customer, f)
    /\ granted => \E g \in Added(s) :
                    \A h \in Added(s) : h.ent = e.id <=> h = g

(* Subscribing and changing are all or nothing: the step that signs a      *)
(* subscription up for a plan leaves the customer a live entitlement to    *)
(* each of the plan's features, exactly one new grant for each of its      *)
(* grant entries, all effective together, and no other grant of the        *)
(* subscription in force, whichever entitlements were there before.        *)
MaterializedWhole ==
  [][\A s \in subs' : Signed(s) =>
       /\ \A i \in DOMAIN Entries[s.plan] :
            FeatureWhole(s, Entries[s.plan][i].feature,
                         i \in GrantEntries(s.plan))
       /\ \A g \in InForce(s)' :
            /\ g \in Added(s)
            /\ \E i \in GrantEntries(s.plan) :
                 g.ent.feature = Entries[s.plan][i].feature
            /\ \A h \in InForce(s)' : h.at = g.at]_vars

(* The first grants of at most one plan are in force: those a change       *)
(* leaves unvoided come from one transaction, one to a feature, and each   *)
(* stands for a grant entry of the plan the subscription is on now.        *)
SingleEpoch ==
  \A g \in grants : g.sub # NoSub /\ g.via = "materialize" /\ ~g.voided =>
    /\ \A s \in subs : s.id = g.sub =>
         \E i \in GrantEntries(s.plan) :
           g.ent.feature = Entries[s.plan][i].feature
    /\ \A h \in grants :
         h.sub = g.sub /\ h.via = "materialize" /\ ~h.voided =>
           h.at = g.at /\ (h.ent.feature = g.ent.feature => h = g)

(* Foreign keys meet: what a subscription grants or creates belongs to its *)
(* own customer, on an entitlement that exists, and a customer never has   *)
(* two live entitlements to a feature between which balances could split.  *)
OwnCustomer ==
  /\ \A g \in grants :
       /\ \E e \in ents : e.id = g.ent
       /\ g.sub # NoSub => \E s \in subs : /\ s.id = g.sub
                                           /\ s.customer = g.ent.customer
  /\ \A e \in ents : e.sub # NoSub =>
       \E s \in subs : s.id = e.sub /\ s.customer = e.id.customer
  /\ \A e, f \in ents :
       /\ Live(e, f.id.customer, f.id.feature) /\ ~f.deleted => e = f

(* The grants of s show no change of plan: each first grant, voided or     *)
(* not, is effective at the start, for a feature that the plan s is on     *)
(* grants, and the only one for that feature.                              *)
NeverChanged(s) ==
  \A g \in grants : g.sub = s.id /\ g.via = "materialize" =>
    /\ g.at = s.starts
    /\ \E i \in GrantEntries(s.plan) :
         g.ent.feature = Entries[s.plan][i].feature
    /\ \A h \in grants :
         /\ h.sub = s.id /\ h.via = "materialize"
         /\ h.ent.feature = g.ent.feature
         => h = g

(* The subscriptions whose credits would stack with those of s.            *)
Stacked(s) ==
  {t \in subs : \/ t = s
                \/ /\ Active(s) /\ Active(t)
                   /\ t.customer = s.customer /\ t.plan = s.plan}

(* Credit in force is bounded by elapsed time: a customer has from a plan  *)
(* it did not change at most one grant per whole cycle since the start,    *)
(* and the first one, on any one entitlement, however often passes         *)
(* overlap, crash, fail a read or run late, whatever is voided in between  *)
(* and however many calls subscribe the customer at the same time.         *)
NoOverCredit ==
  \A s \in subs, e \in ents :
    LET counted == {g \in grants : /\ g.ent = e.id /\ ~g.voided
                                  /\ \E t \in Stacked(s) : g.sub = t.id}
        elapsed == IF now < s.starts THEN 0 ELSE now - s.starts
    IN  (\A t \in Stacked(s) : NeverChanged(t)) /\ Interval[s.plan] > 0 =>
          Cardinality(counted) <= 1 + elapsed \div Interval[s.plan]

(* A step that touches one subscription leaves what others own alone: when *)
(* a subscription's row is inserted, cancelled or moved to another plan,   *)
(* every grant of another owner, manual ones first, stays as it was.       *)
RowIsolation ==
  [][subs' # subs =>
       \E s \in SubIds :
         /\ {x \in subs : x.id # s} = {x \in subs' : x.id # s}
         /\ {g \in grants : g.sub # s} = {g \in grants' : g.sub # s}]_vars

(* Rows are never lost and marks are for good: what was cancelled keeps    *)
(* its cancellation and end, what was voided or deleted stays so, and no   *)
(* grant moves to another owner, entitlement or effective time.            *)
SubsKept ==
  \A s \in subs : \E t \in subs' :
    /\ t.id = s.id /\ t.customer = s.customer /\ t.starts = s.starts
    /\ ~Active(s) => t.canceled = s.canceled
    /\ s.ends # None => t.ends = s.ends
EntsKept ==
  \A e \in ents : \E f \in ents' :
    f.id = e.id /\ f.sub = e.sub /\ (e.deleted => f.deleted)
GrantsKept ==
  \A g \in grants :
    \/ g \in grants'
    \/ ~g.voided /\ [g EXCEPT !.voided = TRUE] \in grants'

Tombstones == [][SubsKept /\ EntsKept /\ GrantsKept]_vars

(* A cycle of plan p is due for subscription i on feature f: its latest    *)
(* grant on a live entitlement, or its start, is at t, an interval ago.    *)
CycleDue(i, p, f, t) ==
  \E s \in subs, e \in ents :
    /\ s.id = i /\ s.plan = p /\ Active(s)
    /\ Interval[p] > 0 /\ t + Interval[p] <= now
    /\ \E n \in GrantEntries(p) : Entries[p][n].feature = f
    /\ Live(e, s.customer, f)
    /\ t \in LatestBase([sub |-> s, ent |-> e.id])

(* No subscription is stuck on a cycle: while the plan is not archived,    *)
(* every due cycle is emitted in the end, unless the subscription or its   *)
(* entitlement goes first, so overdue cycles go out one after the other,   *)
(* after crashes, failed reads, lost inserts and changes of plan.          *)
CycleEmitted ==
  \A i \in SubIds, p \in Plans, f \in Features, t \in Time :
    CycleDue(i, p, f, t) /\ p \notin archived
      ~> ~CycleDue(i, p, f, t) \/ p \in archived

(* Does a pass or a change still hold a copy of subscription i?            *)
InFlight(i) ==
  \/ \E w \in Workers :
       \/ \E s \in wrk[w].listed : s.id = i
       \/ \E j \in wrk[w].jobs : j.sub.id = i
       \/ wrk[w].pc = "insert" /\ wrk[w].job.sub.id = i
  \/ \E r \in Requests : req[r].pc \in {"plan", "change"} /\ req[r].sub.id = i

(* A cancellation takes hold: copies of the row read before it drain, and  *)
(* from then on no pass and no change can credit the subscription again.   *)
CancelDrains ==
  \A i \in SubIds :
    (\E s \in subs : s.id = i /\ ~Active(s)) ~> []~InFlight(i)

----------------------------------------------------------------------------
(* The abstract specification.                                             *)

Account(s) == [sub |-> s.id, customer |-> s.customer, starts |-> s.starts]
Credit(g) == [sub |-> g.sub, ent |-> g.ent, at |-> g.at, n |-> g.gen]
Issued == {g \in grants : g.sub # NoSub}
Unvoided == {g \in Issued : ~g.voided}
Cycles == {Interval[p] : p \in Plans} \ {0}

Issuing == INSTANCE CreditIssuing WITH
  LastTime <- MaxTime,
  opened <- {Account(s) : s \in subs},
  issued <- {Credit(g) : g \in Issued},
  inForce <- {Credit(g) : g \in Unvoided}

(* The handlers and passes together implement the ledger of credits of     *)
(* CreditIssuing, whatever they read before and whatever runs in between:  *)
(* each of their steps is one of its steps on the rows of subscriptions,   *)
(* or changes nothing there.                                               *)
IssuesCredit == Issuing!Spec

=============================================================================

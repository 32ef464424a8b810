---------------------------- MODULE CreditProofs ----------------------------
(***************************************************************************)
(* What the recurrence passes and the handlers promise of a subscription's *)
(* credits.  First: they implement CreditIssuing, every step that writes a *)
(* subscription or a grant of one being a step of the abstract ledger, and *)
(* every other step leaving the ledger as it is.  Second: the credits are  *)
(* bounded by the time elapsed since the start.  While the plan was not    *)
(* changed, all of them sit on one grid, whole intervals from the start,   *)
(* although a pass works from copies made before a change and may take a   *)
(* failed read for no grant at all; and the emission index lets one that   *)
(* is not voided in per point.                                             *)
(***************************************************************************)
EXTENDS AccountProofs


(* The ledger as the tables show it.                                       *)
Accounts == {Account(s) : s \in subs}
IssuedCredits == {Credit(g) : g \in Issued}
CreditsInForce == {Credit(g) : g \in Unvoided}

----------------------------------------------------------------------------
(* Rows and credits.                                                       *)

(* A grant's credit is its key.                                            *)
LEMMA CreditFields ==
  ASSUME NEW g
  PROVE  /\ Credit(g).sub = g.sub /\ Credit(g).ent = g.ent
         /\ Credit(g).at = g.at /\ Credit(g).n = g.gen
BY DEF Credit

(* Voiding a row changes nothing of its credit.                            *)
LEMMA VoidedRow ==
  ASSUME NEW g \in GrantRow
  PROVE  LET v == [g EXCEPT !.voided = TRUE]
         IN  Credit(v) = Credit(g) /\ v.sub = g.sub /\ v.voided
BY DEF Credit, GrantRow

(* Voiding a subscription's rows takes its credits back, and no other's.   *)
LEMMA VoidAllCredits ==
  ASSUME TypeInv, NEW s \in SubIds
  PROVE  /\ {Credit(g) : g \in {h \in VoidAll(s) : h.sub # NoSub}} = IssuedCredits
         /\ {Credit(g) : g \in {h \in VoidAll(s) : h.sub # NoSub /\ ~h.voided}}
              = {c \in CreditsInForce : c.sub # s}
<1> DEFINE v(g) == IF g.sub = s THEN [g EXCEPT !.voided = TRUE] ELSE g
<1>1. \A g \in grants : /\ Credit(v(g)) = Credit(g) /\ v(g).sub = g.sub
                        /\ v(g).voided = (g.voided \/ g.sub = s)
  BY VoidedRow DEF TypeInv, TypeOK, GrantRow
<1>2. VoidAll(s) = {v(g) : g \in grants}
  BY DEF VoidAll
<1> HIDE DEF v
<1>3. {Credit(g) : g \in {h \in VoidAll(s) : h.sub # NoSub}} = IssuedCredits
  BY <1>1, <1>2 DEF IssuedCredits, Issued
<1>4. {Credit(g) : g \in {h \in VoidAll(s) : h.sub # NoSub /\ ~h.voided}}
        = {c \in CreditsInForce : c.sub # s}
  <2>1. ASSUME NEW c, NEW h \in VoidAll(s), h.sub # NoSub, ~h.voided, c = Credit(h)
        PROVE  c \in CreditsInForce /\ c.sub # s
    <3>1. h \in grants /\ h.sub # s
      BY <2>1, VoidAllRows
    <3> QED
      BY <2>1, <3>1, CreditFields DEF CreditsInForce, Issued, Unvoided
  <2>2. ASSUME NEW c, NEW g \in grants, g.sub # NoSub, ~g.voided,
               c = Credit(g), c.sub # s
        PROVE  \E h \in VoidAll(s) : h.sub # NoSub /\ ~h.voided /\ c = Credit(h)
    <3>1. g.sub # s
      BY <2>2, CreditFields
    <3>2. v(g) \in VoidAll(s)
      BY <1>2
    <3> QED
      BY <1>1, <2>2, <3>1, <3>2
  <2> QED
    BY <2>1, <2>2 DEF CreditsInForce, Issued, Unvoided
<1> QED
  BY <1>3, <1>4

(* Steps that leave subscriptions, grants and the clock alone.             *)
LEMMA OtherSteps ==
  ASSUME [Next]_vars
  PROVE  \/ Tick
         \/ \E r \in Requests :
              CreateSubscriptionCommit(r) \/ ChangeSubscriptionCommit(r)
         \/ \E s \in subs, at \in AtInputs \cup {now} : CancelSubscription(s, at)
         \/ \E e \in ents, t \in AtInputs \cup {now} : CreateGrant(e, t)
         \/ \E g \in grants : VoidGrant(g)
         \/ \E w \in Workers : InsertGrant(w)
         \/ UNCHANGED <<now, subs, grants>>
BY DEF Next, RequestBegin, RequestStep, StatementStep, WorkerStep,
       WorkerFault, vars, tables, CreateSubscriptionBegin,
       ChangeSubscriptionBegin, CreateSubscriptionCheck,
       ChangeSubscriptionPlan, RequestFails, ArchivePlan, CreateEntitlement,
       DeleteEntitlement, ListRecurringSubscriptions, ExpandSubscription,
       StartLoop, ReadLatest, ReadLatestFails, SkipEntry, PassAborts

----------------------------------------------------------------------------
(* The steps of the ledger, seen from the tables.                          *)

(* Nothing happens to it.                                                  *)
LEMMA Stutters ==
  ASSUME now' = now, Accounts' = Accounts, IssuedCredits' = IssuedCredits,
         CreditsInForce' = CreditsInForce
  PROVE  [Issuing!Next]_<<now, Issuing!ledger>>
BY DEF Issuing!ledger, Accounts, IssuedCredits, CreditsInForce

(* One subscription's credits are taken back.                              *)
LEMMA TakesBack ==
  ASSUME now' = now, Accounts' = Accounts, IssuedCredits' = IssuedCredits,
         CreditsInForce' \subseteq CreditsInForce, NEW s,
         \A c \in CreditsInForce \ CreditsInForce' : c.sub = s
  PROVE  Issuing!Next
BY DEF Issuing!Next, Issuing!TakeBack, Accounts, IssuedCredits, CreditsInForce

(* The grants of a transaction that starts at t are credits of one         *)
(* subscription and customer, each the only one of its cycle.              *)
LEMMA PlanCredits ==
  ASSUME NEW s, NEW c, NEW p, NEW t, NEW E
  PROVE  LET G == PlanGrants(s, c, p, t, E) IN
         /\ \A g \in G : /\ g.sub = s /\ g.at = t /\ ~g.voided
                         /\ g.ent.customer = c
         /\ \A g, h \in G : g.ent = h.ent => g = h
<1>1. ASSUME NEW g \in PlanGrants(s, c, p, t, E)
      PROVE  /\ g.sub = s /\ g.at = t /\ g.ent.customer = c
             /\ g = NewGrant(s, g.ent, t, "materialize")
  BY PlanGrantRows, PlanGrantEnts
<1>2. \A e : NewGrant(s, e, t, "materialize").voided = FALSE
  BY DEF NewGrant
<1> QED
  BY <1>1, <1>2

(* A new subscription opens an account with its first credits.             *)
LEMMA Opens ==
  ASSUME AccountInv, NEW r \in Requests, CreateSubscriptionCommit(r)
  PROVE  Issuing!Next
<1> USE DEF AccountInv, EmissionInv
<1> DEFINE q == req[r]
<1>1. PICK i \in SubIds \ {s.id : s \in subs}, x \in subs' :
        /\ x.id = i /\ x.customer = q.customer /\ x.starts = q.at
        /\ subs' = subs \cup {x}
        /\ grants' = grants \cup PlanGrants(i, q.customer, q.plan, q.at, ents')
  BY CreateRow
<1> DEFINE G == PlanGrants(i, q.customer, q.plan, q.at, ents')
           o == Account(x)
           C == {Credit(g) : g \in G}
<1>2. i # NoSub /\ now' = now
  BY IdAssumption DEF CreateSubscriptionCommit
<1>3. /\ o.sub = i /\ o.customer = q.customer /\ o.starts = q.at
      /\ \A s \in subs : Account(s).sub # i
  BY <1>1 DEF Account
<1>4. \A c \in IssuedCredits : c.sub # i
  BY <1>1, CreditFields DEF IssuedCredits, Issued, Owners
<1>5. /\ \A g \in G : g.sub = i /\ g.at = q.at /\ ~g.voided /\ g.ent.customer = q.customer
      /\ \A g, h \in G : g.ent = h.ent => g = h
  BY PlanCredits
<1>6. grants' = grants \cup G
  BY <1>1
<1> HIDE DEF G, o, q
<1>7. /\ Accounts' = Accounts \cup {o} /\ o \notin Accounts
      /\ \A a \in Accounts : a.sub # o.sub
  BY <1>1, <1>3 DEF Accounts, o
<1>8. /\ IssuedCredits' = IssuedCredits \cup C
      /\ CreditsInForce' = CreditsInForce \cup C
      /\ CreditsInForce \subseteq IssuedCredits
  BY <1>2, <1>5, <1>6 DEF IssuedCredits, CreditsInForce, Issued, Unvoided
<1>9. /\ \A c \in C : c.sub = i /\ c.at = q.at /\ c.ent.customer = q.customer
      /\ \A c, d \in C : c.ent = d.ent => c = d
  BY <1>5, CreditFields
<1> HIDE DEF C
<1>10. IssuedCredits' \ IssuedCredits = C
  BY <1>4, <1>8, <1>9
<1>11. Issuing!Open(o, C)
  BY <1>2, <1>3, <1>4, <1>7, <1>8, <1>9
  DEF Issuing!Open, Issuing!OwnedBy, Issuing!Fresh, Issuing!SameCycle,
      Accounts, IssuedCredits, CreditsInForce
<1> QED
  BY <1>7, <1>10, <1>11 DEF Issuing!Next, Accounts, IssuedCredits

(* A changed subscription trades its credits for those of the new plan.    *)
LEMMA Replaces ==
  ASSUME AccountInv, NEW r \in Requests, ChangeSubscriptionCommit(r)
  PROVE  Issuing!Next
<1>0. ASSUME NEW i, NEW c, NEW p, NEW at, NEW E
      PROVE  /\ \A g \in PlanGrants(i, c, p, at, E) :
                  g.sub = i /\ g.at = at /\ ~g.voided /\ g.ent.customer = c
             /\ \A g, h \in PlanGrants(i, c, p, at, E) : g.ent = h.ent => g = h
  BY PlanCredits
<1> USE DEF AccountInv, EmissionInv
<1> DEFINE q == req[r].sub
           E == ents \cup MissingEnts(q.id, q.customer, req[r].plan)
           G == PlanGrants(q.id, q.customer, req[r].plan, req[r].at, E)
           C == {Credit(g) : g \in G}
           kept == {d \in CreditsInForce : d.sub # q.id}
<1>1. /\ grants' = VoidAll(q.id) \cup G /\ now' = now
      /\ req[r].pc = "change"
  BY DEF ChangeSubscriptionCommit, MaterializeEntries
<1>2. SameAccount(q) /\ q.id \in SubIds /\ q.id # NoSub
  BY <1>1, CommitArgs, IdAssumption DEF Held, SubRow
<1>3. PICK s \in subs : s.id = q.id /\ s.customer = q.customer
  BY <1>2 DEF SameAccount
<1> DEFINE o == Account(s)
<1>4. o.sub = q.id /\ o.customer = q.customer /\ o \in Accounts
  BY <1>3 DEF Account, Accounts
<1>5. Accounts' = Accounts
  <2>1. \A x \in subs' : Account(x) \in Accounts
    <3>1. \A x \in subs' : \E y \in subs :
            x.id = y.id /\ x.customer = y.customer /\ x.starts = y.starts
      BY ChangeRows
    <3> QED
      BY <3>1 DEF Account, Accounts
  <2>2. ASSUME NEW y \in subs
        PROVE  \E x \in subs' : Account(x) = Account(y)
    <3> DEFINE x == IF y.id = q.id THEN [y EXCEPT !.plan = req[r].plan] ELSE y
    <3>1. x \in subs'
      BY DEF ChangeSubscriptionCommit
    <3>2. Account(x) = Account(y)
      BY SubUpdates DEF Account, TypeInv, TypeOK
    <3> QED
      BY <3>1, <3>2
  <2> QED
    BY <2>1, <2>2 DEF Accounts
<1>6. /\ \A g \in G : /\ g.sub = q.id /\ g.at = req[r].at /\ ~g.voided
                      /\ g.ent.customer = q.customer
      /\ \A g, h \in G : g.ent = h.ent => g = h
  <2> HIDE DEF E, q
  <2> QED
    BY <1>0
<1>7. /\ {Credit(g) : g \in {h \in VoidAll(q.id) : h.sub # NoSub}} = IssuedCredits
      /\ {Credit(g) : g \in {h \in VoidAll(q.id) : h.sub # NoSub /\ ~h.voided}} = kept
  BY <1>2, VoidAllCredits
<1> HIDE DEF G, o, q
<1>8. IssuedCredits' = IssuedCredits \cup C /\ CreditsInForce' = kept \cup C
  <2> HIDE DEF kept
  <2>1. Issued' = {h \in VoidAll(q.id) : h.sub # NoSub} \cup G
    BY <1>1, <1>2, <1>6 DEF Issued
  <2>2. Unvoided' = {h \in VoidAll(q.id) : h.sub # NoSub /\ ~h.voided} \cup G
    BY <1>6, <2>1 DEF Unvoided
  <2> QED
    BY <1>7, <2>1, <2>2 DEF IssuedCredits, CreditsInForce
<1>9. /\ \A c \in C : c.sub = q.id /\ c.at = req[r].at /\ c.ent.customer = q.customer
      /\ \A c, d \in C : c.ent = d.ent => c = d
  BY <1>6, CreditFields
<1> HIDE DEF C
<1>10. {c \in CreditsInForce' : c.sub = o.sub} = C
  BY <1>4, <1>8, <1>9
<1>11. Issuing!Replace(o, C)
  BY <1>1, <1>4, <1>5, <1>8, <1>9
  DEF Issuing!Replace, Issuing!OwnedBy, Issuing!Fresh, Issuing!SameCycle,
      Accounts, IssuedCredits, CreditsInForce
<1> QED
  BY <1>4, <1>10, <1>11 DEF Issuing!Next, Accounts, CreditsInForce

(* A cancelled subscription's credits are taken back.                      *)
LEMMA Cancels ==
  ASSUME TypeInv, NEW s \in subs, NEW at \in AtInputs \cup {now},
         CancelSubscription(s, at)
  PROVE  Issuing!Next
<1>1. Accounts' = Accounts
  <2>1. \A x \in subs' : Account(x) \in Accounts
    <3>1. \A x \in subs' : \E y \in subs :
            x.id = y.id /\ x.customer = y.customer /\ x.starts = y.starts
      BY CancelRows
    <3> QED
      BY <3>1 DEF Account, Accounts
  <2>2. ASSUME NEW y \in subs
        PROVE  \E x \in subs' : Account(x) = Account(y)
    <3>1. AfterCancel(y, s, at) \in subs'
      BY DEF CancelSubscription, AfterCancel
    <3>2. Account(AfterCancel(y, s, at)) = Account(y)
      BY SubUpdates DEF Account, AfterCancel, TypeInv, TypeOK
    <3> QED
      BY <3>1, <3>2
  <2> QED
    BY <2>1, <2>2 DEF Accounts
<1>2. grants' = VoidAll(s.id) /\ now' = now /\ s.id \in SubIds
  BY DEF CancelSubscription, TypeInv, TypeOK, SubRow
<1>3. /\ IssuedCredits' = IssuedCredits
      /\ CreditsInForce' = {c \in CreditsInForce : c.sub # s.id}
  <2>1. /\ Issued' = {h \in VoidAll(s.id) : h.sub # NoSub}
        /\ Unvoided' = {h \in VoidAll(s.id) : h.sub # NoSub /\ ~h.voided}
    BY <1>2 DEF Issued, Unvoided
  <2>2. /\ {Credit(g) : g \in {h \in VoidAll(s.id) : h.sub # NoSub}} = IssuedCredits
        /\ {Credit(g) : g \in {h \in VoidAll(s.id) : h.sub # NoSub /\ ~h.voided}}
             = {c \in CreditsInForce : c.sub # s.id}
    BY <1>2, VoidAllCredits
  <2> QED
    BY <2>1, <2>2 DEF IssuedCredits, CreditsInForce
<1> QED
  BY <1>1, <1>2, <1>3, TakesBack

(* So is the credit of a grant that is voided.                             *)
LEMMA Voids ==
  ASSUME TypeInv, NEW g \in grants, VoidGrant(g)
  PROVE  [Issuing!Next]_<<now, Issuing!ledger>>
<1> DEFINE v == [g EXCEPT !.voided = TRUE]
<1>1. /\ grants' = (grants \ {g}) \cup {v} /\ now' = now /\ subs' = subs
  BY DEF VoidGrant
<1>2. Credit(v) = Credit(g) /\ v.sub = g.sub /\ v.voided
  BY VoidedRow DEF TypeInv, TypeOK
<1> HIDE DEF v
<1>3. Accounts' = Accounts
  BY <1>1 DEF Accounts
<1>4. IssuedCredits' = IssuedCredits
  BY <1>1, <1>2 DEF IssuedCredits, Issued
<1>5. /\ CreditsInForce' \subseteq CreditsInForce
      /\ \A c \in CreditsInForce \ CreditsInForce' : c = Credit(g)
  BY <1>1, <1>2 DEF CreditsInForce, Issued, Unvoided
<1> QED
  BY <1>1, <1>3, <1>4, <1>5, CreditFields, TakesBack

(* The next cycle the worker inserts, if the index lets it in.             *)
LEMMA Recurs ==
  ASSUME AccountInv, NEW w \in Workers, InsertGrant(w)
  PROVE  [Issuing!Next]_<<now, Issuing!ledger>>
<1> USE DEF AccountInv, EmissionInv
<1> DEFINE p == wrk[w]
           i == p.job.sub.id
           n == NewGrant(i, p.job.ent, p.next, "worker")
           c == Credit(n)
<1>1. /\ p.pc = "insert" /\ now' = now /\ subs' = subs
      /\ IF EmissionFree(i, p.job.ent, p.next)
           THEN grants' = grants \cup {n} ELSE grants' = grants
  BY DEF InsertGrant
<1>2. Accounts' = Accounts
  BY <1>1 DEF Accounts
<1>3. CASE grants' = grants
  BY <1>1, <1>2, <1>3, Stutters DEF IssuedCredits, CreditsInForce, Issued, Unvoided
<1>4. CASE EmissionFree(i, p.job.ent, p.next) /\ grants' = grants \cup {n}
  <2>1. PendingInsert(p) /\ OwnJob(p.job) /\ p.now <= now
    BY <1>1 DEF Pending, Copies, Held, OwnPass
  <2>2. PICK s \in subs : /\ s.id = i /\ s.customer = p.job.ent.customer
                          /\ s.starts = p.job.sub.starts
    BY <2>1 DEF OwnJob, SameAccount
  <2> DEFINE o == Account(s)
  <2>3. o \in Accounts /\ o.sub = i /\ o.customer = p.job.ent.customer
        /\ o.starts = p.job.sub.starts
    BY <2>2 DEF Account, Accounts
  <2>4. n.sub = i /\ n.ent = p.job.ent /\ n.at = p.next /\ ~n.voided
    BY DEF NewGrant
  <2>5. c.sub = i /\ c.ent = p.job.ent /\ c.at = p.next
    BY <2>4, CreditFields
  <2>6. i # NoSub
    BY <2>2, IdAssumption DEF TypeInv, TypeOK, SubRow
  <2>7. /\ IssuedCredits' = IssuedCredits \cup {c}
        /\ CreditsInForce' = CreditsInForce \cup {c}
    <3> HIDE DEF n, i, p
    <3> QED
      BY <1>4, <2>4, <2>6 DEF IssuedCredits, CreditsInForce, Issued, Unvoided
  <2>8. \A d \in CreditsInForce :
          ~(d.sub = i /\ d.ent = p.job.ent /\ d.at = p.next)
    BY <1>4, CreditFields DEF CreditsInForce, Issued, Unvoided, EmissionFree, SameKey
  <2>9. c.at <= now
    <3>1. p \in InsertingPass /\ now \in Time
      BY <1>1 DEF TypeInv, TypeOK, PassState, ReadingPass, InsertingPass
    <3>2. p.next \in Int /\ p.now \in Int /\ now \in Int
      BY <3>1, TimeAssumption DEF InsertingPass, Time
    <3>3. p.next <= p.now /\ p.now <= now
      BY <2>1 DEF PendingInsert
    <3> QED
      BY <2>5, <3>2, <3>3
  <2>10. \E k \in Cycles :
           \/ c.at = o.starts + k
           \/ \E d \in IssuedCredits : d.sub = c.sub /\ d.ent = c.ent /\ c.at = d.at + k
    <3>1. OnCadence(i, p.job.ent, p.next, p.job.sub.starts)
      BY <2>1 DEF PendingInsert
    <3>2. PICK x \in Plans :
            /\ Interval[x] > 0
            /\ \/ p.next = p.job.sub.starts + Interval[x]
               \/ \E h \in grants : h.sub = i /\ h.ent = p.job.ent
                                     /\ p.next = h.at + Interval[x]
      BY <3>1 DEF OnCadence
    <3>3. Interval[x] \in Cycles
      BY <3>2 DEF Cycles
    <3>4. \A h \in grants : h.sub = i => Credit(h) \in IssuedCredits
      BY <2>6 DEF IssuedCredits, Issued
    <3> HIDE DEF c, o, n
    <3> QED
      BY <2>3, <2>5, <3>2, <3>3, <3>4, CreditFields
  <2> HIDE DEF c, o, n, i, p
  <2>11. Issuing!Recur(o, c)
    BY <1>1, <1>2, <2>3, <2>5, <2>7, <2>8, <2>9, <2>10
    DEF Issuing!Recur, Issuing!OwnedBy, Issuing!Fresh, Issuing!SameCycle,
        Issuing!NextOf, Accounts, IssuedCredits, CreditsInForce
  <2>12. c \in CreditsInForce' \ CreditsInForce
    BY <2>5, <2>7, <2>8
  <2> QED
    BY <2>3, <2>11, <2>12 DEF Issuing!Next, Accounts, CreditsInForce
<1> QED
  BY <1>1, <1>3, <1>4

----------------------------------------------------------------------------
(* The handlers and passes implement CreditIssuing: whatever they read     *)
(* before, each step writes what the abstract ledger could.                *)
THEOREM ImplementsIssuing == Spec => IssuesCredit
<1>1. Init => Issuing!Init
  BY DEF Init, Issuing!Init, Issued, Unvoided
<1>2. AccountInv /\ [Next]_vars => [Issuing!Next]_<<now, Issuing!ledger>>
  <2> SUFFICES ASSUME AccountInv, [Next]_vars
               PROVE  [Issuing!Next]_<<now, Issuing!ledger>>
    OBVIOUS
  <2>1. TypeInv
    BY DEF AccountInv, EmissionInv
  <2>2. CASE Tick
    BY <2>2 DEF Tick, tables, Issuing!Next, Issuing!Tick, Issuing!ledger,
                Issued, Unvoided
  <2>3. ASSUME NEW e \in ents, NEW t, CreateGrant(e, t)
        PROVE  [Issuing!Next]_<<now, Issuing!ledger>>
    <3> DEFINE n == NewGrant(NoSub, e.id, t, "api")
    <3>1. n.sub = NoSub
      BY DEF NewGrant
    <3>2. grants' = grants \cup {n} /\ subs' = subs /\ now' = now
      BY <2>3 DEF CreateGrant
    <3> HIDE DEF n
    <3>3. Issued' = Issued /\ Unvoided' = Unvoided
      BY <3>1, <3>2 DEF Issued, Unvoided
    <3> QED
      BY <3>2, <3>3, Stutters DEF Accounts, IssuedCredits, CreditsInForce
  <2>4. CASE UNCHANGED <<now, subs, grants>>
    BY <2>4, Stutters DEF Accounts, IssuedCredits, CreditsInForce, Issued, Unvoided
  <2> QED
    BY <2>1, <2>2, <2>3, <2>4, OtherSteps, Opens, Replaces, Cancels, Voids, Recurs
<1> QED
  BY <1>1, <1>2, AccountInvInductive, PTL DEF Spec, IssuesCredit, Issuing!Spec


----------------------------------------------------------------------------
(* The invariant.  A change of plan leaves the first grants of the old     *)
(* plan beside those of the new one.  So a subscription whose grants show  *)
(* no change is on the plan that copies of it show, if that plan gives     *)
(* grants; the others expand into no job.                                  *)

HasInitial(i) == \E h \in grants : h.sub = i /\ h.via = "materialize"

OnGrid(b, i, t) == \E k \in Nat : t = b + k * i

PlanHeld(c) ==
  /\ \A s \in subs : s.id = c.id /\ NeverChanged(s) =>
       c.plan = s.plan \/ GrantEntries(c.plan) = {}
  /\ GrantEntries(c.plan) # {} => HasInitial(c.id)

JobHeld(j) == PlanHeld(j.sub) /\ GrantEntries(j.sub.plan) # {}

NextOnGrid(p) ==
  \A s \in subs : s.id = p.job.sub.id /\ NeverChanged(s) =>
    OnGrid(s.starts, Interval[s.plan], p.next)

PassOnGrid(p) ==
  /\ \A s \in p.listed : PlanHeld(s)
  /\ \A j \in p.jobs : JobHeld(j)
  /\ p.pc = "insert" => JobHeld(p.job) /\ NextOnGrid(p)

GrantsOnGrid ==
  \A s \in subs, g \in grants : NeverChanged(s) /\ g.sub = s.id =>
    OnGrid(s.starts, Interval[s.plan], g.at)

ByHand == \A g \in grants : g.via = "api" => g.sub = NoSub

(* A subscription that has grants at all has one of a transaction.         *)
Rooted == \A g \in grants : g.sub # NoSub => HasInitial(g.sub)

BoundInv ==
  /\ AccountInv
  /\ ByHand
  /\ Rooted
  /\ GrantsOnGrid
  /\ \A w \in Workers : PassOnGrid(wrk[w])

----------------------------------------------------------------------------
(* The grid.                                                               *)

LEMMA GridStart ==
  ASSUME NEW b \in Nat, NEW i \in Nat
  PROVE  OnGrid(b, i, b)
<1>1. b = b + 0 * i
  OBVIOUS
<1> QED
  BY <1>1 DEF OnGrid

LEMMA GridNext ==
  ASSUME NEW b \in Nat, NEW i \in Nat, NEW t, OnGrid(b, i, t)
  PROVE  OnGrid(b, i, t + i)
<1>1. PICK k \in Nat : t = b + k * i
  BY DEF OnGrid
<1>2. t + i = b + (k + 1) * i /\ k + 1 \in Nat
  BY <1>1
<1> QED
  BY <1>2 DEF OnGrid

(* A product that does not exceed n has no factor above the quotient.      *)
LEMMA QuotientBound ==
  ASSUME NEW k \in Nat, NEW i \in Nat, i > 0, NEW n \in Nat, k * i <= n
  PROVE  k <= n \div i
OBVIOUS

----------------------------------------------------------------------------
(* Steps.                                                                  *)

(* What was granted stays granted.                                         *)
LEMMA HasInitialKept ==
  ASSUME AccountInv, [Next]_vars, NEW i, HasInitial(i)
  PROVE  HasInitial(i)'
<1>1. GrantsKept /\ TypeInv
  BY KeepStep DEF AccountInv, EmissionInv
<1> QED
  BY <1>1, GrantKept DEF HasInitial

(* A subscription that shows no change after a step showed none before, if *)
(* its plan is the same.                                                   *)
LEMMA NeverChangedBefore ==
  ASSUME AccountInv, [Next]_vars, NEW x \in subs', NeverChanged(x)',
         NEW s \in subs, s.id = x.id, s.starts = x.starts, s.plan = x.plan
  PROVE  NeverChanged(s)
<1>1. GrantsKept /\ TypeInv /\ Numbered(grants)
  BY KeepStep DEF AccountInv, EmissionInv
<1> SUFFICES ASSUME NEW g \in grants, g.sub = s.id, g.via = "materialize"
             PROVE  /\ g.at = s.starts
                    /\ \E i \in GrantEntries(s.plan) :
                         g.ent.feature = Entries[s.plan][i].feature
                    /\ \A h \in grants :
                         /\ h.sub = s.id /\ h.via = "materialize"
                         /\ h.ent.feature = g.ent.feature
                         => h = g
  BY DEF NeverChanged
<1>2. PICK k \in grants' : /\ k.sub = g.sub /\ k.ent = g.ent /\ k.at = g.at
                           /\ k.via = g.via /\ k.gen = g.gen
  BY <1>1, GrantKept
<1>3. /\ k.at = x.starts
      /\ \E i \in GrantEntries(x.plan) : k.ent.feature = Entries[x.plan][i].feature
      /\ \A h \in grants' :
           /\ h.sub = x.id /\ h.via = "materialize"
           /\ h.ent.feature = k.ent.feature
           => h = k
  BY <1>2 DEF NeverChanged
<1>4. ASSUME NEW h \in grants, h.sub = s.id, h.via = "materialize",
             h.ent.feature = g.ent.feature
      PROVE  h = g
  <2>1. PICK l \in grants' : /\ l.sub = h.sub /\ l.ent = h.ent /\ l.at = h.at
                             /\ l.via = h.via /\ l.gen = h.gen
    BY <1>1, GrantKept
  <2>2. l = k
    BY <1>2, <1>3, <1>4, <2>1
  <2>3. h \in Peers(g, grants) /\ h.gen = g.gen
    BY <1>2, <2>1, <2>2 DEF Peers, SameKey
  <2> QED
    BY <1>1, <2>3 DEF Numbered
<1> QED
  BY <1>2, <1>3, <1>4

(* A change of plan shows: a subscription with a first grant has either a  *)
(* feature the new plan does not grant or two first grants for a feature.  *)
LEMMA ChangeShows ==
  ASSUME AccountInv, NEW r \in Requests, ChangeSubscriptionCommit(r),
         NEW x \in subs', x.id = req[r].sub.id, x.plan = req[r].plan,
         NeverChanged(x)'
  PROVE  ~HasInitial(x.id)
<1>0. TypeInv
  BY DEF AccountInv, EmissionInv
<1> SUFFICES ASSUME NEW h \in grants, h.sub = x.id, h.via = "materialize"
             PROVE  FALSE
  BY DEF HasInitial
<1>1. PICK i, c, p, t, N :
        /\ i = req[r].sub.id /\ c = req[r].sub.customer /\ p = req[r].plan
        /\ t = req[r].at /\ N = PlanGrants(i, c, p, t, ents')
  OBVIOUS
<1>2. /\ ents' = ents \cup MissingEnts(i, c, p)
      /\ grants' = VoidAll(i) \cup N
  BY <1>1 DEF ChangeSubscriptionCommit, MaterializeEntries
<1>3. p \in Plans
  BY <1>0, <1>1, CommitArgs DEF ChangeSubscriptionCommit
<1> DEFINE v == [h EXCEPT !.voided = TRUE]
<1>4. v \in VoidAll(i)
  BY <1>1 DEF VoidAll
<1>5. v.sub = x.id /\ v.via = "materialize" /\ v.voided = TRUE
  BY <1>0 DEF TypeInv, TypeOK, GrantRow
<1> HIDE DEF v
<1>6. v \in grants'
  BY <1>2, <1>4
<1>7. PICK n \in GrantEntries(x.plan) : v.ent.feature = Entries[x.plan][n].feature
  BY <1>5, <1>6 DEF NeverChanged
<1>8. PICK g \in N : /\ g.sub = i /\ g.via = "materialize"
                     /\ g.ent.feature = v.ent.feature
  BY <1>0, <1>1, <1>2, <1>3, <1>7, MaterializeCovers
<1>9. g = v
  <2>1. \A k \in grants' : /\ k.sub = x.id /\ k.via = "materialize"
                           /\ k.ent.feature = v.ent.feature
                           => k = v
    BY <1>5, <1>6 DEF NeverChanged
  <2>2. g \in grants' /\ g.sub = x.id
    BY <1>1, <1>2, <1>8
  <2> QED
    BY <1>8, <2>1, <2>2
<1>10. ~g.voided
  BY <1>1, PlanGrantFeatures
<1> QED
  BY <1>5, <1>9, <1>10

(* A subscription that shows no change after a step is new, or showed none *)
(* before it and kept its plan, unless it had no first grant.              *)
LEMMA NeverChangedFrom ==
  ASSUME AccountInv, [Next]_vars, NEW x \in subs', NeverChanged(x)'
  PROVE  \/ \A s \in subs : s.id # x.id
         \/ \E s \in subs :
              /\ s.id = x.id /\ s.starts = x.starts /\ NeverChanged(s)
              /\ s.plan = x.plan \/ ~HasInitial(s.id)
<1>0. TypeInv
  BY DEF AccountInv, EmissionInv
<1>1. ASSUME NEW s \in subs, s.id = x.id, s.starts = x.starts,
             s.plan = x.plan \/ ~HasInitial(s.id)
      PROVE  NeverChanged(s)
  <2>1. CASE s.plan = x.plan
    BY <1>1, <2>1, NeverChangedBefore
  <2>2. CASE ~HasInitial(s.id)
    BY <2>2 DEF HasInitial, NeverChanged
  <2> QED
    BY <1>1, <2>1, <2>2
<1>2. ASSUME NEW r \in Requests, CreateSubscriptionCommit(r)
      PROVE  x \in subs \/ \A s \in subs : s.id # x.id
  <2>1. PICK i \in SubIds \ {s.id : s \in subs} :
          \E y \in subs' : y.id = i /\ subs' = subs \cup {y}
    BY <1>2, CreateRow
  <2> QED
    BY <2>1
<1>3. ASSUME NEW r \in Requests, ChangeSubscriptionCommit(r)
      PROVE  \E s \in subs : /\ s.id = x.id /\ s.starts = x.starts
                             /\ s.plan = x.plan \/ ~HasInitial(s.id)
  <2>1. PICK s \in subs :
          /\ x.id = s.id /\ x.starts = s.starts
          /\ x.plan = IF s.id = req[r].sub.id THEN req[r].plan ELSE s.plan
    BY <1>0, <1>3, ChangeRows
  <2>2. s.id = req[r].sub.id => ~HasInitial(s.id)
    BY <1>3, <2>1, ChangeShows
  <2> QED
    BY <2>1, <2>2
<1>4. ASSUME NEW c \in subs, NEW at \in AtInputs \cup {now},
             CancelSubscription(c, at)
      PROVE  \E s \in subs : /\ s.id = x.id /\ s.starts = x.starts
                             /\ s.plan = x.plan
  BY <1>0, <1>4, CancelRows
<1>5. \/ \A s \in subs : s.id # x.id
      \/ \E s \in subs : /\ s.id = x.id /\ s.starts = x.starts
                         /\ s.plan = x.plan \/ ~HasInitial(s.id)
  BY <1>2, <1>3, <1>4, SubStepKinds
<1>6. CASE \A s \in subs : s.id # x.id
  BY <1>6
<1>7. CASE \E s \in subs : /\ s.id = x.id /\ s.starts = x.starts
                           /\ s.plan = x.plan \/ ~HasInitial(s.id)
  <2>1. PICK s \in subs : /\ s.id = x.id /\ s.starts = x.starts
                          /\ s.plan = x.plan \/ ~HasInitial(s.id)
    BY <1>7
  <2>2. NeverChanged(s)
    BY <1>1, <2>1
  <2> QED
    BY <2>1, <2>2
<1> QED
  BY <1>5, <1>6, <1>7

(* A grant of the next state that is neither initial nor a client's was    *)
(* there before or has just been inserted by a pass.                       *)
LEMMA WorkerGrant ==
  ASSUME AccountInv, [Next]_vars, NEW g \in grants', g.via = "worker"
  PROVE  \/ \E h \in grants : h.sub = g.sub /\ h.at = g.at
         \/ \E w \in Workers : /\ wrk[w].pc = "insert"
                               /\ g.sub = wrk[w].job.sub.id
                               /\ g.at = wrk[w].next
<1>1. ASSUME NEW w \in Workers, InsertGrant(w), g \notin grants
      PROVE  /\ wrk[w].pc = "insert" /\ g.sub = wrk[w].job.sub.id
             /\ g.at = wrk[w].next
  BY <1>1 DEF InsertGrant, NewGrant
<1>2. \/ \E h \in grants : h.sub = g.sub /\ h.at = g.at
      \/ \E w \in Workers : InsertGrant(w)
  BY GrantSource
<1> QED
  BY <1>1, <1>2

(* What a copy shows of its plan stays true of a row that is known.        *)
LEMMA PlanHeldKept ==
  ASSUME AccountInv, [Next]_vars, NEW c, \E s \in subs : s.id = c.id,
         PlanHeld(c)
  PROVE  PlanHeld(c)'
<1>1. ASSUME NEW x \in subs', x.id = c.id, NeverChanged(x)'
      PROVE  c.plan = x.plan \/ GrantEntries(c.plan) = {}
  <2>1. PICK s \in subs : /\ s.id = x.id /\ NeverChanged(s)
                          /\ s.plan = x.plan \/ ~HasInitial(s.id)
    BY <1>1, NeverChangedFrom
  <2> QED
    BY <1>1, <2>1 DEF PlanHeld
<1>2. GrantEntries(c.plan) # {} => HasInitial(c.id)'
  BY HasInitialKept DEF PlanHeld
<1> QED
  BY <1>1, <1>2 DEF PlanHeld

----------------------------------------------------------------------------
(* Passes, against the tables they read.                                   *)

(* The cycle after a base that was read, or after the start when reading   *)
(* failed, is on the grid.                                                 *)
LEMMA WeighedOnGrid ==
  ASSUME BoundInv, NEW w \in Workers, NEW j \in wrk[w].jobs, NextJob(w, j),
         NEW b, b = j.sub.starts \/ b \in LatestBase(j),
         NEW s \in subs, s.id = j.sub.id, NeverChanged(s)
  PROVE  OnGrid(s.starts, Interval[s.plan], NextCycle(j.sub, b))
<1> USE DEF BoundInv, AccountInv, EmissionInv
<1>1. JobHeld(j) /\ KnownSub(j.sub)
  BY DEF PassOnGrid, Copies
<1>2. j.sub.plan = s.plan /\ j.sub.starts = s.starts
  BY <1>1 DEF JobHeld, PlanHeld, KnownSub, Ids
<1>3. s.starts \in Nat /\ Interval[s.plan] \in Nat
  BY PlanAssumption, TimeAssumption DEF TypeInv, TypeOK, SubRow, Time
<1>4. OnGrid(s.starts, Interval[s.plan], b)
  <2>1. CASE b = j.sub.starts
    BY <1>2, <1>3, <2>1, GridStart
  <2>2. CASE b \in LatestBase(j) /\ b # j.sub.starts
    <3>1. PICK g \in grants : g.sub = j.sub.id /\ b = g.at
      BY <2>2 DEF LatestBase
    <3> QED
      BY <3>1 DEF GrantsOnGrid
  <2> QED
    BY <2>1, <2>2
<1> QED
  BY <1>2, <1>3, <1>4, GridNext DEF NextCycle

(* A pass holds copies just made or held before, and goes on to insert on  *)
(* the grid.                                                               *)
LEMMA PassStaysOnGrid ==
  ASSUME BoundInv, [Next]_vars, NEW w \in Workers
  PROVE  PassOnGrid(wrk'[w])
<1> USE DEF BoundInv, AccountInv, EmissionInv
<1>1. PassOnGrid(wrk[w])
  OBVIOUS
<1>2. PassOnGrid(Resting)
  BY DEF PassOnGrid, Resting
<1>3. ASSUME NEW jobs, jobs \subseteq wrk[w].jobs, NEW t
      PROVE  PassOnGrid(Loop(jobs, t))
  BY <1>1, <1>2, <1>3 DEF Loop, PassOnGrid
<1>4. wrk[w] \in PassState /\ wrk \in [Workers -> PassState]
  BY DEF TypeInv, TypeOK
<1>5. CASE ListRecurringSubscriptions(w)
  <2> DEFINE n == [pc |-> "expand", listed |-> {s \in subs : Recurring(s)},
                   jobs |-> {}, now |-> 0]
  <2>1. wrk'[w] = Resting \/ wrk'[w] = n
    BY <1>4, <1>5 DEF ListRecurringSubscriptions
  <2>2. \A s \in subs : PlanHeld(s)
    BY DEF PlanHeld, Ids, InitialGranted, HasInitial
  <2>3. PassOnGrid(n)
    BY <2>2 DEF PassOnGrid
  <2> HIDE DEF n
  <2> QED
    BY <1>2, <2>1, <2>3
<1>6. CASE ExpandSubscription(w)
  <2>1. PICK s \in wrk[w].listed :
          wrk' = [wrk EXCEPT
            ![w].listed = @ \ {s},
            ![w].jobs = @ \cup {[sub |-> s, entry |-> x[1], ent |-> x[2].id] :
                                  x \in EntryTargets(s.plan, s.customer, ents)}]
    BY <1>6 DEF ExpandSubscription
  <2> DEFINE new == {[sub |-> s, entry |-> x[1], ent |-> x[2].id] :
                       x \in EntryTargets(s.plan, s.customer, ents)}
  <2>2. wrk[w] \in ReadingPass /\ wrk[w].pc = "expand"
    BY <1>4, <1>6 DEF ExpandSubscription, PassState, InsertingPass
  <2>3. /\ wrk'[w].listed = wrk[w].listed \ {s}
        /\ wrk'[w].jobs = wrk[w].jobs \cup new /\ wrk'[w].pc = "expand"
    BY <1>4, <2>1, <2>2 DEF ReadingPass
  <2>4. \A j \in new : j.sub = s /\ GrantEntries(s.plan) # {}
    BY DEF EntryTargets
  <2>5. PlanHeld(s)
    BY <1>1 DEF PassOnGrid
  <2>6. \A j \in new : JobHeld(j)
    BY <2>4, <2>5 DEF JobHeld
  <2> HIDE DEF new
  <2> QED
    BY <1>1, <2>3, <2>6 DEF PassOnGrid
<1>7. CASE StartLoop(w)
  <2>1. wrk'[w] = Loop(wrk[w].jobs, now)
    BY <1>4, <1>7 DEF StartLoop
  <2> QED
    BY <1>3, <2>1
<1>8. ASSUME NEW j \in wrk[w].jobs, NextJob(w, j), NEW b, Weigh(w, j, b),
             b = j.sub.starts \/ b \in LatestBase(j)
      PROVE  PassOnGrid(wrk'[w])
  <2> DEFINE n == [pc |-> "insert", listed |-> {}, jobs |-> wrk[w].jobs \ {j},
                   now |-> wrk[w].now, job |-> j, next |-> NextCycle(j.sub, b)]
  <2>1. wrk'[w] = Loop(wrk[w].jobs \ {j}, wrk[w].now) \/ wrk'[w] = n
    BY <1>4, <1>8 DEF Weigh
  <2>2. \A s \in subs : s.id = j.sub.id /\ NeverChanged(s) =>
          OnGrid(s.starts, Interval[s.plan], NextCycle(j.sub, b))
    BY <1>8, WeighedOnGrid
  <2>3. PassOnGrid(n)
    BY <1>1, <2>2 DEF PassOnGrid, NextOnGrid
  <2> HIDE DEF n
  <2> QED
    BY <1>3, <2>1, <2>3
<1>9. CASE ReadLatest(w) \/ ReadLatestFails(w)
  BY <1>8, <1>9 DEF ReadLatest, ReadLatestFails
<1>10. CASE InsertGrant(w) \/ SkipEntry(w)
  <2>1. PICK jobs \in SUBSET wrk[w].jobs : wrk'[w] = Loop(jobs, wrk[w].now)
    BY <1>4, <1>10 DEF InsertGrant, SkipEntry
  <2> QED
    BY <1>3, <2>1
<1>11. CASE PassAborts(w)
  <2>1. wrk'[w] = Resting
    BY <1>4, <1>11 DEF PassAborts
  <2> QED
    BY <1>2, <2>1
<1>12. ASSUME NEW v \in Workers, v # w, WorkerStep(v) \/ WorkerFault(v)
       PROVE  wrk'[w] = wrk[w]
  BY <1>4, <1>12
  DEF WorkerStep, WorkerFault, ListRecurringSubscriptions, ExpandSubscription,
      StartLoop, ReadLatest, ReadLatestFails, Weigh, InsertGrant, SkipEntry,
      PassAborts
<1>13. \/ WorkerStep(w) \/ WorkerFault(w)
       \/ \E v \in Workers : v # w /\ (WorkerStep(v) \/ WorkerFault(v))
       \/ UNCHANGED wrk
  BY DEF Next, Tick, RequestBegin, RequestStep, StatementStep, vars,
         CreateSubscriptionBegin, ChangeSubscriptionBegin,
         CreateSubscriptionCheck, CreateSubscriptionCommit,
         ChangeSubscriptionPlan, ChangeSubscriptionCommit, RequestFails,
         CancelSubscription, CreateGrant, VoidGrant, ArchivePlan,
         CreateEntitlement, DeleteEntitlement
<1> QED
  BY <1>1, <1>5, <1>6, <1>7, <1>9, <1>10, <1>11, <1>12, <1>13
  DEF WorkerStep, WorkerFault

(* What a pass holds stays true of the tables the step leaves.             *)
LEMMA PassStep ==
  ASSUME BoundInv, [Next]_vars, NEW w \in Workers
  PROVE  PassOnGrid(wrk[w])'
<1> USE DEF BoundInv, AccountInv, EmissionInv
<1>1. PassOnGrid(wrk'[w])
  BY PassStaysOnGrid
<1>2. /\ \A s \in wrk'[w].listed : KnownSub(s)
      /\ \A j \in wrk'[w].jobs : KnownSub(j.sub)
      /\ wrk'[w].pc = "insert" => KnownSub(wrk'[w].job.sub)
  BY PassCopies DEF PendingInsert
<1>3. ASSUME NEW c, KnownSub(c), PlanHeld(c)
      PROVE  PlanHeld(c)'
  BY <1>3, PlanHeldKept DEF KnownSub
<1>4. ASSUME NEW j, KnownSub(j.sub), JobHeld(j)
      PROVE  JobHeld(j)'
  BY <1>3, <1>4 DEF JobHeld
<1>5. ASSUME NEW p, KnownSub(p.job.sub), JobHeld(p.job), NextOnGrid(p)
      PROVE  NextOnGrid(p)'
  <2> SUFFICES ASSUME NEW x \in subs', x.id = p.job.sub.id, NeverChanged(x)'
               PROVE  OnGrid(x.starts, Interval[x.plan], p.next)
    BY DEF NextOnGrid
  <2>1. PICK s \in subs : /\ s.id = x.id /\ s.starts = x.starts /\ NeverChanged(s)
                          /\ s.plan = x.plan \/ ~HasInitial(s.id)
    BY <1>5, NeverChangedFrom DEF KnownSub
  <2>2. HasInitial(s.id)
    BY <1>5, <2>1 DEF JobHeld, PlanHeld
  <2> QED
    BY <1>5, <2>1, <2>2 DEF NextOnGrid
<1>6. /\ \A s \in wrk'[w].listed : PlanHeld(s)'
      /\ \A j \in wrk'[w].jobs : JobHeld(j)'
  BY <1>1, <1>2, <1>3, <1>4 DEF PassOnGrid
<1>7. ASSUME wrk'[w].pc = "insert"
      PROVE  JobHeld(wrk[w].job)' /\ NextOnGrid(wrk[w])'
  BY <1>1, <1>2, <1>4, <1>5, <1>7 DEF PassOnGrid
<1> QED
  BY <1>6, <1>7 DEF PassOnGrid

(* Grants made by hand name no subscription.                               *)
LEMMA ByHandStep ==
  ASSUME BoundInv, [Next]_vars
  PROVE  ByHand'
BY GrantSource DEF BoundInv, ByHand

(* What a pass inserts is for a subscription with a first grant.           *)
LEMMA RootedStep ==
  ASSUME BoundInv, [Next]_vars
  PROVE  Rooted'
<1> SUFFICES ASSUME NEW g \in grants', g.sub # NoSub
             PROVE  HasInitial(g.sub)'
  BY DEF Rooted
<1>0. AccountInv /\ Rooted /\ \A w \in Workers : PassOnGrid(wrk[w])
  BY DEF BoundInv
<1>1. CASE \E h \in grants : h.sub = g.sub
  BY <1>0, <1>1, HasInitialKept DEF Rooted
<1>2. ASSUME NEW w \in Workers, wrk[w].pc = "insert", g.sub = wrk[w].job.sub.id
      PROVE  HasInitial(g.sub)'
  <2>1. HasInitial(wrk[w].job.sub.id)
    BY <1>0, <1>2 DEF PassOnGrid, JobHeld, PlanHeld
  <2> QED
    BY <1>0, <1>2, <2>1, HasInitialKept
<1>3. CASE g.via = "materialize"
  BY <1>3 DEF HasInitial
<1> QED
  BY <1>0, <1>1, <1>2, <1>3, GrantSource

(* Every step keeps the credits of an unchanged subscription on its grid.  *)
LEMMA GridStep ==
  ASSUME BoundInv, [Next]_vars
  PROVE  GrantsOnGrid'
<1> USE DEF BoundInv, AccountInv, EmissionInv
<1> SUFFICES ASSUME NEW x \in subs', NEW g \in grants', NeverChanged(x)',
                    g.sub = x.id
             PROVE  OnGrid(x.starts, Interval[x.plan], g.at)
  BY DEF GrantsOnGrid
<1>1. TypeInv'
  BY TypeStep
<1>2. /\ x.starts \in Nat /\ Interval[x.plan] \in Nat /\ x.id # NoSub
      /\ g.via \in {"api", "materialize", "worker"}
  BY <1>1, PlanAssumption, TimeAssumption, IdAssumption
  DEF TypeInv, TypeOK, SubRow, GrantRow, Time
<1>3. CASE g.via = "materialize"
  <2>1. g.at = x.starts
    BY <1>3 DEF NeverChanged
  <2> QED
    BY <1>2, <2>1, GridStart
<1>4. CASE g.via = "worker"
  <2>1. CASE \E h \in grants : h.sub = g.sub /\ h.at = g.at
    <3>1. PICK h \in grants : h.sub = g.sub /\ h.at = g.at
      BY <2>1
    <3>2. \E s \in subs : s.id = x.id
      BY <1>2, <3>1 DEF Owners
    <3>3. PICK s \in subs : /\ s.id = x.id /\ s.starts = x.starts
                            /\ NeverChanged(s)
                            /\ s.plan = x.plan \/ ~HasInitial(s.id)
      BY <3>2, NeverChangedFrom
    <3>4. s.plan = x.plan
      BY <1>2, <3>1, <3>3 DEF Rooted
    <3> HIDE DEF BoundInv, AccountInv, EmissionInv
    <3> QED
      BY <3>1, <3>3, <3>4 DEF BoundInv, GrantsOnGrid
  <2>2. ASSUME NEW w \in Workers, wrk[w].pc = "insert",
               g.sub = wrk[w].job.sub.id, g.at = wrk[w].next
        PROVE  OnGrid(x.starts, Interval[x.plan], g.at)
    <3>1. /\ KnownSub(wrk[w].job.sub) /\ JobHeld(wrk[w].job)
          /\ NextOnGrid(wrk[w])
      BY <2>2 DEF Pending, PendingInsert, PassOnGrid
    <3>4. \E s \in subs : s.id = x.id
      BY <2>2, <3>1 DEF KnownSub
    <3>2. PICK s \in subs : /\ s.id = x.id /\ s.starts = x.starts
                            /\ NeverChanged(s)
                            /\ s.plan = x.plan \/ ~HasInitial(s.id)
      BY <3>4, NeverChangedFrom
    <3>3. HasInitial(s.id)
      BY <2>2, <3>1, <3>2 DEF JobHeld, PlanHeld
    <3> QED
      BY <2>2, <3>1, <3>2, <3>3 DEF NextOnGrid
  <2> QED
    BY <1>4, <2>1, <2>2, WorkerGrant
<1>5. CASE g.via = "api"
  BY <1>2, <1>5, ByHandStep DEF ByHand
<1> QED
  BY <1>2, <1>3, <1>4, <1>5

----------------------------------------------------------------------------
(* The theorem.                                                            *)

LEMMA BoundInvInductive == Spec => []BoundInv
<1>1. Init => /\ ByHand /\ Rooted /\ GrantsOnGrid
              /\ \A w \in Workers : PassOnGrid(wrk[w])
  BY DEF Init, ByHand, Rooted, GrantsOnGrid, PassOnGrid, Resting
<1>2. AccountInv /\ Init => BoundInv
  BY <1>1 DEF BoundInv
<1>3. BoundInv /\ AccountInv' /\ [Next]_vars => BoundInv'
  BY ByHandStep, RootedStep, GridStep, PassStep DEF BoundInv
<1> QED
  BY <1>2, <1>3, AccountInvInductive, PTL DEF Spec

(* Credits in force on a grid, one per point and none of the worker's      *)
(* ahead of time, are no more than the points up to now, start included.   *)
LEMMA BoundFollows ==
  ASSUME BoundInv
  PROVE  NoOverCredit
<1> USE DEF BoundInv, AccountInv, EmissionInv
<1> SUFFICES ASSUME NEW s \in subs, NEW e \in ents, Interval[s.plan] > 0,
                    \A t \in Stacked(s) : NeverChanged(t)
             PROVE  LET counted == {g \in grants :
                                      /\ g.ent = e.id /\ ~g.voided
                                      /\ \E t \in Stacked(s) : g.sub = t.id}
                        elapsed == IF now < s.starts THEN 0 ELSE now - s.starts
                    IN  Cardinality(counted) <= 1 + elapsed \div Interval[s.plan]
  BY DEF NoOverCredit
<1>0. Stacked(s) = {s}
  BY DEF Stacked, OneActivePerPlan
<1> DEFINE issued == {g \in grants : /\ g.ent = e.id /\ ~g.voided
                                    /\ \E t \in Stacked(s) : g.sub = t.id}
           elapsed == IF now < s.starts THEN 0 ELSE now - s.starts
           i == Interval[s.plan]
           n == elapsed \div i
<1>1. /\ s.starts \in Nat /\ i \in Nat /\ i > 0 /\ now \in Nat
      /\ s.id # NoSub /\ NeverChanged(s)
      /\ \A g \in issued : g \in grants /\ g.sub = s.id /\ g.ent = e.id /\ ~g.voided
  BY <1>0, PlanAssumption, TimeAssumption, IdAssumption
  DEF TypeInv, TypeOK, SubRow, Time
<1>2. elapsed \in Nat
  BY <1>1
<1>3. n \in Nat
  BY <1>1, <1>2
<1>4. ASSUME NEW g \in issued
      PROVE  \E k \in 0 .. n : g.at = s.starts + k * i
  <2>0. g \in grants /\ g.sub = s.id /\ NeverChanged(s)
    BY <1>1
  <2>1. PICK k \in Nat : g.at = s.starts + k * i
    BY <2>0 DEF GrantsOnGrid, OnGrid
  <2>2. g.via \in {"materialize", "worker"}
    BY <1>1, <2>0 DEF ByHand, TypeInv, TypeOK, GrantRow
  <2>3. CASE g.via = "materialize"
    <3>1. g.at = s.starts + 0 * i
      BY <1>1, <2>0, <2>3 DEF NeverChanged
    <3> QED
      BY <1>3, <3>1
  <2>4. CASE g.via = "worker"
    <3>1. g.at <= now
      BY <2>0, <2>4 DEF EmissionCadence
    <3>2. k * i \in Nat
      BY <1>1
    <3>3. k * i <= elapsed
      <4> DEFINE d == k * i
      <4>1. d \in Nat /\ s.starts + d <= now
        BY <2>1, <3>1, <3>2
      <4> HIDE DEF d
      <4>2. d <= elapsed
        BY <1>1, <4>1
      <4> QED
        BY <4>2 DEF d
    <3> HIDE DEF elapsed
    <3>4. k <= n
      BY <1>1, <1>2, <3>3, QuotientBound
    <3> QED
      BY <1>3, <2>1, <3>4
  <2> QED
    BY <2>2, <2>3, <2>4
<1> HIDE DEF n
<1> DEFINE point == [g \in issued |-> CHOOSE k \in 0 .. n : g.at = s.starts + k * i]
<1>5. \A g \in issued : point[g] \in 0 .. n /\ g.at = s.starts + point[g] * i
  BY <1>4
<1>6. \A g, h \in issued : g.at = h.at => g = h
  BY <1>1 DEF EmissionUnique, SameKey
<1>7. point \in Injection(issued, 0 .. n)
  <2>1. point \in [issued -> 0 .. n]
    BY <1>5
  <2> HIDE DEF point, issued, i
  <2>2. ASSUME NEW g \in issued, NEW h \in issued, point[g] = point[h]
        PROVE  g = h
    <3>1. g.at = h.at
      BY <1>5, <2>2
    <3> QED
      BY <1>6, <3>1
  <2> QED
    BY <2>1, <2>2 DEF Injection, IsInjective
<1>8. IsFiniteSet(0 .. n) /\ Cardinality(0 .. n) = n + 1
  BY <1>3, FS_Interval
<1> HIDE DEF point, issued, i, elapsed
<1>9. Cardinality(issued) <= n + 1
  BY <1>7, <1>8, FS_Injection
<1>10. IsFiniteSet(issued) /\ Cardinality(issued) \in Nat
  BY <1>7, <1>8, FS_Injection, FS_CardinalityType
<1> QED
  BY <1>3, <1>9, <1>10 DEF issued, elapsed, i, n

(* However often passes overlap, crash, fail a read or run late, whatever  *)
(* is voided in between and whichever calls race to subscribe, a customer  *)
(* has in force from a plan it did not change, on any one entitlement, no  *)
(* more credits than whole cycles have passed, and the initial one.        *)
THEOREM CreditBounded == Spec => []NoOverCredit
BY BoundInvInductive, BoundFollows, PTL

=============================================================================

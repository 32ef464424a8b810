------------------------ MODULE SubscriptionsProofs ------------------------
(* Theorems about Subscriptions, for every value of its constants.         *)
EXTENDS Subscriptions, FiniteSetTheorems, FunctionTheorems, SequenceTheorems,
        TLAPS

----------------------------------------------------------------------------
(* Finite tables.  A generation number counts rows, so it is a number only *)
(* while the tables are finite.                                            *)

FiniteTables == IsFiniteSet(ents) /\ IsFiniteSet(grants)

TypeInv == TypeOK /\ FiniteTables

(* The image of a finite set under a function is finite.                   *)
LEMMA FiniteImage ==
  ASSUME NEW S, IsFiniteSet(S), NEW f
  PROVE  IsFiniteSet({f[x] : x \in S})
<1> DEFINE T == {f[x] : x \in S}
           h == [x \in S |-> f[x]]
<1>1. h \in Surjection(S, T)
  BY DEF Surjection
<1> QED
  BY <1>1, FS_Surjection

(* Generation numbers are natural numbers.                                 *)
LEMMA GenNat ==
  ASSUME FiniteTables
  PROVE  /\ \A c, f : NextEntGen(c, f) \in Nat
         /\ \A s, e, t : NextGrantGen(s, e, t) \in Nat
<1>1. ASSUME NEW c, NEW f PROVE NextEntGen(c, f) \in Nat
  <2> DEFINE S == {e \in ents : e.id.customer = c /\ e.id.feature = f}
  <2>1. S \in SUBSET ents
    OBVIOUS
  <2>2. IsFiniteSet(S)
    BY <2>1, FS_Subset DEF FiniteTables
  <2> QED
    BY <2>2, FS_CardinalityType DEF NextEntGen
<1>2. ASSUME NEW s, NEW e, NEW t PROVE NextGrantGen(s, e, t) \in Nat
  <2> DEFINE S == {g \in grants : SameKey(g, s, e, t)}
  <2>1. S \in SUBSET grants
    OBVIOUS
  <2>2. IsFiniteSet(S)
    BY <2>1, FS_Subset DEF FiniteTables
  <2> QED
    BY <2>2, FS_CardinalityType DEF NextGrantGen
<1> QED
  BY <1>1, <1>2

(* A plan has finitely many features and grant entries.                    *)
LEMMA PlanFinite ==
  ASSUME NEW p \in Plans
  PROVE  /\ IsFiniteSet(PlanFeatures(p)) /\ PlanFeatures(p) \subseteq Features
         /\ IsFiniteSet(GrantEntries(p)) /\ GrantEntries(p) \subseteq Nat
         /\ \A i \in GrantEntries(p) : Entries[p][i].feature \in Features
<1>1. /\ Entries[p] \in Seq([feature : Features, grant : BOOLEAN])
      /\ DOMAIN Entries[p] = 1 .. Len(Entries[p]) /\ Len(Entries[p]) \in Nat
  <2>1. Entries[p] \in Seq([feature : Features, grant : BOOLEAN])
    BY PlanAssumption
  <2> QED
    BY <2>1
<1>2. \A i \in DOMAIN Entries[p] : Entries[p][i].feature \in Features
  <2>1. ASSUME NEW i \in DOMAIN Entries[p]
        PROVE  Entries[p][i] \in [feature : Features, grant : BOOLEAN]
    BY <1>1, ElementOfSeq
  <2> QED
    BY <2>1
<1>3. IsFiniteSet(DOMAIN Entries[p])
  BY <1>1, FS_Interval
<1>4. GrantEntries(p) \in SUBSET DOMAIN Entries[p]
  BY DEF GrantEntries
<1>5. IsFiniteSet(GrantEntries(p))
  BY <1>3, <1>4, FS_Subset
<1>6. IsFiniteSet(PlanFeatures(p))
  <2> DEFINE f == [i \in DOMAIN Entries[p] |-> Entries[p][i].feature]
  <2>1. PlanFeatures(p) = {f[i] : i \in DOMAIN Entries[p]}
    BY DEF PlanFeatures
  <2> HIDE DEF f
  <2> QED
    BY <2>1, <1>3, FiniteImage
<1> QED
  BY <1>1, <1>2, <1>4, <1>5, <1>6 DEF PlanFeatures

----------------------------------------------------------------------------
(* What a transaction writes.                                              *)

(* Voiding keeps every row, its owner, entitlement and time.               *)
LEMMA VoidAllType ==
  ASSUME TypeInv, NEW s
  PROVE  VoidAll(s) \subseteq GrantRow /\ IsFiniteSet(VoidAll(s))
<1> DEFINE v == [g \in grants |->
                   IF g.sub = s THEN [g EXCEPT !.voided = TRUE] ELSE g]
<1>1. VoidAll(s) = {v[g] : g \in grants}
  BY DEF VoidAll
<1>2. VoidAll(s) \subseteq GrantRow
  BY DEF VoidAll, TypeInv, TypeOK, GrantRow
<1>3. IsFiniteSet(grants)
  BY DEF TypeInv, FiniteTables
<1> HIDE DEF v
<1> QED
  BY <1>1, <1>2, <1>3, FiniteImage

(* Materialising a plan adds finitely many well-formed rows.               *)
LEMMA MaterializeType ==
  ASSUME TypeInv, NEW s \in SubIds, NEW c \in Customers, NEW p \in Plans,
         NEW t \in Time, NEW kept, kept \subseteq GrantRow, IsFiniteSet(kept),
         MaterializeEntries(s, c, p, t, kept)
  PROVE  /\ ents' \subseteq EntRow /\ grants' \subseteq GrantRow
         /\ FiniteTables'
<1> DEFINE N == MissingEnts(s, c, p)
           G == PlanGrants(s, c, p, t, ents \cup N)
<1>1. N \subseteq EntRow /\ IsFiniteSet(N)
  <2> DEFINE F == {f \in PlanFeatures(p) : EntitlementFree(c, f)}
             n == [f \in F |->
                    [id |-> [customer |-> c, feature |-> f,
                             gen |-> NextEntGen(c, f)],
                     sub |-> s, deleted |-> FALSE]]
  <2>1. N = {n[f] : f \in F}
    BY DEF MissingEnts
  <2>2. F \in SUBSET PlanFeatures(p)
    OBVIOUS
  <2>3. IsFiniteSet(F) /\ F \subseteq Features
    BY <2>2, PlanFinite, FS_Subset
  <2>4. \A f \in F : n[f] \in EntRow
    BY <2>3, GenNat DEF EntRow, EntId, TypeInv
  <2>5. N \subseteq EntRow
    BY <2>1, <2>4
  <2> HIDE DEF F, n, N
  <2> QED
    BY <2>1, <2>3, <2>5, FiniteImage
<1>2. ents \cup N \subseteq EntRow /\ IsFiniteSet(ents \cup N)
  BY <1>1, FS_Union DEF TypeInv, TypeOK, FiniteTables
<1>3. G \subseteq GrantRow /\ IsFiniteSet(G)
  <2> DEFINE X == EntryTargets(p, c, ents \cup N)
             n == [x \in X |-> NewGrant(s, x[2].id, t, "materialize")]
  <2>1. G = {n[x] : x \in X}
    BY DEF PlanGrants
  <2>2. X \in SUBSET (GrantEntries(p) \X (ents \cup N))
    BY DEF EntryTargets
  <2>3. IsFiniteSet(X)
    BY <2>2, <1>2, PlanFinite, FS_Product, FS_Subset
  <2>4. \A x \in X : n[x] \in GrantRow
    BY <2>2, <1>2, GenNat DEF NewGrant, GrantRow, EntRow, TypeInv
  <2>5. G \subseteq GrantRow
    BY <2>1, <2>4
  <2> HIDE DEF X, n, G
  <2> QED
    BY <2>1, <2>3, <2>5, FiniteImage
<1>4. ents' = ents \cup N /\ grants' = kept \cup G
  BY DEF MaterializeEntries
<1> QED
  BY <1>2, <1>3, <1>4, FS_Union DEF FiniteTables

----------------------------------------------------------------------------
(* Type correctness, one lemma per kind of step.                           *)

(* Steps that touch no table keep the tables' part of the invariant.       *)
LEMMA TypeTables ==
  ASSUME TypeInv, UNCHANGED tables
  PROVE  /\ archived' \subseteq Plans /\ subs' \subseteq SubRow
         /\ ents' \subseteq EntRow /\ grants' \subseteq GrantRow
         /\ FiniteTables'
BY DEF TypeInv, TypeOK, FiniteTables, tables

(* The requests that read.                                                 *)
LEMMA TypeRequestReads ==
  ASSUME TypeInv, NEW r \in Requests,
         \/ RequestBegin(r) \/ CreateSubscriptionCheck(r)
         \/ ChangeSubscriptionPlan(r) \/ RequestFails(r)
  PROVE  TypeInv'
<1> USE DEF Time
<1>1. /\ req[r] \in RequestState /\ now \in Time /\ subs \subseteq SubRow
      /\ calls \in 0 .. MaxCalls /\ MaxCalls \in Nat
  BY IdAssumption DEF TypeInv, TypeOK
<1>2. CASE CreateSubscriptionBegin(r)
  <2>1. PICK c \in Customers, p \in Plans \ archived,
             t \in AtInputs \cup {None}, e \in EndInputs :
          req' = [req EXCEPT ![r] =
            [pc |-> "dup", customer |-> c, plan |-> p, at |-> t, ends |-> e]]
    BY <1>2 DEF CreateSubscriptionBegin
  <2>2. [pc |-> "dup", customer |-> c, plan |-> p, at |-> t, ends |-> e]
          \in RequestState
    BY TimeAssumption DEF RequestState, CreateArgs, ChangeArgs
  <2>3. calls' \in 0 .. MaxCalls
    BY <1>1, <1>2 DEF CreateSubscriptionBegin, Call
  <2> QED
    BY <1>2, <2>1, <2>2, <2>3, TypeTables
    DEF CreateSubscriptionBegin, TypeInv, TypeOK
<1>3. CASE ChangeSubscriptionBegin(r)
  <2>1. PICK s \in subs, p \in Plans, t \in AtInputs \cup {None} :
          req' = [req EXCEPT ![r] =
            [pc |-> "plan", sub |-> s, plan |-> p, at |-> t]]
    BY <1>3 DEF ChangeSubscriptionBegin
  <2>2. [pc |-> "plan", sub |-> s, plan |-> p, at |-> t] \in RequestState
    BY <1>1, TimeAssumption DEF RequestState, CreateArgs, ChangeArgs
  <2>3. calls' \in 0 .. MaxCalls
    BY <1>1, <1>3 DEF ChangeSubscriptionBegin, Call
  <2> QED
    BY <1>3, <2>1, <2>2, <2>3, TypeTables
    DEF ChangeSubscriptionBegin, TypeInv, TypeOK
<1>4. CASE CreateSubscriptionCheck(r)
  <2> DEFINE q == [req[r] EXCEPT !.pc = "create",
                                 !.at = IF @ = None THEN now ELSE @]
  <2>1. req[r] \in CreateArgs("dup", Time \cup {None})
    BY <1>1, <1>4
    DEF CreateSubscriptionCheck, RequestState, CreateArgs, ChangeArgs, Idle
  <2>3. q \in CreateArgs("create", Time)
    BY <1>1, <2>1 DEF CreateArgs
  <2>4. q \in RequestState /\ Idle \in RequestState
    BY <2>3 DEF RequestState
  <2>2. req' \in [Requests -> RequestState]
    BY <1>4, <2>4 DEF CreateSubscriptionCheck, TypeInv, TypeOK
  <2> QED
    BY <1>4, <2>2, TypeTables DEF CreateSubscriptionCheck, TypeInv, TypeOK
<1>5. CASE ChangeSubscriptionPlan(r)
  <2> DEFINE q == [req[r] EXCEPT !.pc = "change",
                                 !.at = IF @ = None THEN now ELSE @]
  <2>1. req[r] \in ChangeArgs("plan", Time \cup {None})
    BY <1>1, <1>5
    DEF ChangeSubscriptionPlan, RequestState, CreateArgs, ChangeArgs, Idle
  <2>3. q \in ChangeArgs("change", Time)
    BY <1>1, <2>1 DEF ChangeArgs
  <2>4. q \in RequestState /\ Idle \in RequestState
    BY <2>3 DEF RequestState
  <2>2. req' \in [Requests -> RequestState]
    BY <1>5, <2>4 DEF ChangeSubscriptionPlan, TypeInv, TypeOK
  <2> QED
    BY <1>5, <2>2, TypeTables DEF ChangeSubscriptionPlan, TypeInv, TypeOK
<1>6. CASE RequestFails(r)
  <2>1. req' \in [Requests -> RequestState]
    BY <1>6 DEF RequestFails, TypeInv, TypeOK, RequestState, Idle
  <2> QED
    BY <1>6, <2>1, TypeTables DEF RequestFails, TypeInv, TypeOK
<1> QED
  BY <1>2, <1>3, <1>4, <1>5, <1>6 DEF RequestBegin

(* The transactions of the requests.                                       *)
LEMMA TypeRequestCommits ==
  ASSUME TypeInv, NEW r \in Requests,
         CreateSubscriptionCommit(r) \/ ChangeSubscriptionCommit(r)
  PROVE  TypeInv'
<1> USE DEF Time
<1>1. req[r] \in RequestState /\ grants \subseteq GrantRow /\ IsFiniteSet(grants)
  BY DEF TypeInv, TypeOK, FiniteTables
<1>2. (req' = [req EXCEPT ![r] = Idle]) => req' \in [Requests -> RequestState]
  BY DEF TypeInv, TypeOK, RequestState, Idle
<1>3. CASE CreateSubscriptionCommit(r)
  <2>1. req[r] \in CreateArgs("create", Time)
    BY <1>1, <1>3
    DEF CreateSubscriptionCommit, RequestState, CreateArgs, ChangeArgs, Idle
  <2>2. PICK i \in SubIds :
          /\ subs' = subs \cup
               {[id |-> i, customer |-> req[r].customer, plan |-> req[r].plan,
                 starts |-> req[r].at, ends |-> req[r].ends,
                 canceled |-> None]}
          /\ MaterializeEntries(i, req[r].customer, req[r].plan, req[r].at,
                                grants)
    BY <1>3 DEF CreateSubscriptionCommit
  <2>3. /\ req[r].customer \in Customers /\ req[r].plan \in Plans
        /\ req[r].at \in Time /\ req[r].ends \in Time \cup {None}
    BY <2>1 DEF CreateArgs
  <2>4. subs' \subseteq SubRow
    BY <2>2, <2>3 DEF SubRow, TypeInv, TypeOK
  <2>5. /\ ents' \subseteq EntRow /\ grants' \subseteq GrantRow
        /\ FiniteTables'
    BY <1>1, <2>2, <2>3, MaterializeType
  <2> QED
    BY <1>2, <1>3, <2>4, <2>5
    DEF CreateSubscriptionCommit, TypeInv, TypeOK
<1>4. CASE ChangeSubscriptionCommit(r)
  <2>1. req[r] \in ChangeArgs("change", Time)
    BY <1>1, <1>4
    DEF ChangeSubscriptionCommit, RequestState, CreateArgs, ChangeArgs, Idle
  <2>2. /\ req[r].sub.id \in SubIds /\ req[r].sub.customer \in Customers
        /\ req[r].plan \in Plans /\ req[r].at \in Time
    BY <2>1 DEF ChangeArgs, SubRow
  <2>3. subs' \subseteq SubRow
    BY <1>4, <2>2 DEF ChangeSubscriptionCommit, SubRow, TypeInv, TypeOK
  <2>4. MaterializeEntries(req[r].sub.id, req[r].sub.customer, req[r].plan,
                           req[r].at, VoidAll(req[r].sub.id))
    BY <1>4 DEF ChangeSubscriptionCommit
  <2>5. /\ ents' \subseteq EntRow /\ grants' \subseteq GrantRow
        /\ FiniteTables'
    BY <2>2, <2>4, VoidAllType, MaterializeType
  <2> QED
    BY <1>2, <1>4, <2>3, <2>5
    DEF ChangeSubscriptionCommit, TypeInv, TypeOK
<1> QED
  BY <1>3, <1>4

(* Statements that write a table at once.                                  *)
LEMMA TypeStatements ==
  ASSUME TypeInv, StatementStep
  PROVE  TypeInv'
<1> USE DEF Time
<1>1. Call => calls' \in 0 .. MaxCalls
  BY IdAssumption DEF Call, TypeInv, TypeOK
<1>2. ASSUME NEW s \in subs, NEW at \in AtInputs \cup {now},
             CancelSubscription(s, at)
      PROVE  TypeInv'
  <2>1. at \in Time /\ s.id \in SubIds
    BY TimeAssumption DEF TypeInv, TypeOK, SubRow
  <2>2. subs' \subseteq SubRow
    BY <1>2, <2>1 DEF CancelSubscription, SubRow, TypeInv, TypeOK
  <2>3. grants' \subseteq GrantRow /\ IsFiniteSet(grants')
    BY <1>2, VoidAllType DEF CancelSubscription
  <2> QED
    BY <1>1, <1>2, <2>2, <2>3
    DEF CancelSubscription, TypeInv, TypeOK, FiniteTables
<1>3. ASSUME NEW p \in Plans, ArchivePlan(p)
      PROVE  TypeInv'
  BY <1>1, <1>3 DEF ArchivePlan, TypeInv, TypeOK, FiniteTables
<1>4. ASSUME NEW c \in Customers, NEW f \in Features, CreateEntitlement(c, f)
      PROVE  TypeInv'
  <2> DEFINE row == [id |-> [customer |-> c, feature |-> f,
                             gen |-> NextEntGen(c, f)],
                     sub |-> NoSub, deleted |-> FALSE]
  <2>1. row \in EntRow
    BY GenNat DEF EntRow, EntId, TypeInv
  <2>2. ents' = ents \cup {row} /\ IsFiniteSet(ents')
    BY <1>4, FS_AddElement DEF CreateEntitlement, TypeInv, FiniteTables
  <2> QED
    BY <1>1, <1>4, <2>1, <2>2
    DEF CreateEntitlement, TypeInv, TypeOK, FiniteTables
<1>5. ASSUME NEW c \in Customers, NEW f \in Features, DeleteEntitlement(c, f)
      PROVE  TypeInv'
  <2> DEFINE d == [e \in ents |-> IF Live(e, c, f)
                                    THEN [e EXCEPT !.deleted = TRUE] ELSE e]
  <2>1. ents' = {d[e] : e \in ents}
    BY <1>5 DEF DeleteEntitlement
  <2>2. ents' \subseteq EntRow
    BY <1>5 DEF DeleteEntitlement, EntRow, TypeInv, TypeOK
  <2>3. IsFiniteSet(ents')
    <3>1. IsFiniteSet(ents)
      BY DEF TypeInv, FiniteTables
    <3> HIDE DEF d
    <3> QED
      BY <2>1, <3>1, FiniteImage
  <2> QED
    BY <1>1, <1>5, <2>2, <2>3
    DEF DeleteEntitlement, TypeInv, TypeOK, FiniteTables
<1>6. ASSUME NEW e \in ents, NEW t \in AtInputs \cup {now}, CreateGrant(e, t)
      PROVE  TypeInv'
  <2>1. t \in Time /\ e.id \in EntId
    BY TimeAssumption DEF TypeInv, TypeOK, EntRow
  <2>2. NewGrant(NoSub, e.id, t, "api") \in GrantRow
    BY <2>1, GenNat DEF NewGrant, GrantRow, TypeInv
  <2>3. /\ grants' = grants \cup {NewGrant(NoSub, e.id, t, "api")}
        /\ IsFiniteSet(grants')
    BY <1>6, FS_AddElement DEF CreateGrant, TypeInv, FiniteTables
  <2> QED
    BY <1>1, <1>6, <2>2, <2>3 DEF CreateGrant, TypeInv, TypeOK, FiniteTables
<1>7. ASSUME NEW g \in grants, VoidGrant(g)
      PROVE  TypeInv'
  <2>1. grants' \subseteq GrantRow
    BY <1>7 DEF VoidGrant, GrantRow, TypeInv, TypeOK
  <2>2. IsFiniteSet(grants')
    BY <1>7, FS_RemoveElement, FS_AddElement
    DEF VoidGrant, TypeInv, FiniteTables
  <2> QED
    BY <1>1, <1>7, <2>1, <2>2 DEF VoidGrant, TypeInv, TypeOK, FiniteTables
<1> QED
  BY <1>2, <1>3, <1>4, <1>5, <1>6, <1>7 DEF StatementStep

(* A step of pass w that leaves the tables alone keeps the invariant if it *)
(* leaves the pass in a state of its type.                                 *)
LEMMA TypePass ==
  ASSUME TypeInv, NEW w \in Workers, NEW p \in PassState,
         wrk' = [wrk EXCEPT ![w] = p], UNCHANGED <<now, tables, req, calls>>
  PROVE  TypeInv'
<1>1. wrk' \in [Workers -> PassState]
  BY DEF TypeInv, TypeOK
<1> QED
  BY <1>1, TypeTables DEF TypeInv, TypeOK

(* A pass between two ticks has the shape of a pass.                       *)
LEMMA RestingType == Resting \in PassState
BY TimeAssumption DEF Resting, PassState, ReadingPass, Time

(* So has a pass with entries left to do.                                  *)
LEMMA LoopType ==
  ASSUME NEW jobs, jobs \subseteq Job, NEW t \in Time
  PROVE  Loop(jobs, t) \in PassState
BY RestingType DEF Loop, PassState, ReadingPass

(* The entry a pass is at, and what it may take for the latest grant.      *)
LEMMA ReadState ==
  ASSUME TypeInv, NEW w \in Workers, NEW j, NextJob(w, j)
  PROVE  /\ wrk[w].jobs \subseteq Job /\ wrk[w].now \in Time /\ j \in Job
         /\ j.sub.starts \in Time /\ j.sub.plan \in Plans
         /\ \A b \in LatestBase(j) : b \in Time
<1>1. wrk[w] \in PassState /\ wrk[w].pc = "read" /\ j \in wrk[w].jobs
  BY DEF NextJob, TypeInv, TypeOK
<1>2. wrk[w].jobs \subseteq Job /\ wrk[w].now \in Time /\ j \in Job
  BY <1>1 DEF PassState, ReadingPass, InsertingPass
<1>3. j.sub.starts \in Time /\ j.sub.plan \in Plans
  BY <1>2 DEF Job, SubRow
<1>4. \A g \in grants : g.at \in Time
  BY DEF TypeInv, TypeOK, GrantRow
<1> QED
  BY <1>2, <1>3, <1>4 DEF LatestBase

(* Weighing an entry against its latest grant leaves a well-formed pass: a *)
(* cycle that goes on to the insert is due, so it is a time.               *)
LEMMA WeighType ==
  ASSUME TypeInv, NEW w \in Workers, NEW j, NextJob(w, j),
         NEW b \in Time, Weigh(w, j, b), UNCHANGED <<now, tables, req, calls>>
  PROVE  TypeInv'
<1> DEFINE next == NextCycle(j.sub, b)
           rest == wrk[w].jobs \ {j}
           p == [pc |-> "insert", listed |-> {}, jobs |-> rest,
                 now |-> wrk[w].now, job |-> j, next |-> next]
<1>1. rest \subseteq Job /\ wrk[w].now \in Time /\ j \in Job
  BY ReadState
<1>2. next \in Nat
  BY ReadState, PlanAssumption DEF NextCycle, Time
<1>3. CASE ~Due(next, wrk[w].now)
  BY <1>1, <1>3, LoopType, TypePass DEF Weigh
<1>4. CASE Due(next, wrk[w].now)
  <2>1. next \in Time
    BY <1>1, <1>2, <1>4, TimeAssumption DEF Due, Time
  <2>2. p \in PassState
    BY <1>1, <2>1 DEF PassState, InsertingPass
  <2> QED
    BY <1>4, <2>2, TypePass DEF Weigh
<1> QED
  BY <1>3, <1>4

(* Every step of a pass, the failing ones included, keeps the types.       *)
LEMMA TypeWorker ==
  ASSUME TypeInv, NEW w \in Workers, WorkerStep(w) \/ WorkerFault(w)
  PROVE  TypeInv'
<1>1. wrk[w] \in PassState /\ subs \subseteq SubRow /\ ents \subseteq EntRow
      /\ now \in Time
  BY DEF TypeInv, TypeOK
<1>2. CASE ListRecurringSubscriptions(w)
  <2> DEFINE due == {s \in subs : Recurring(s)}
             p == IF due = {} THEN Resting
                  ELSE [pc |-> "expand", listed |-> due, jobs |-> {}, now |-> 0]
  <2>1. p \in PassState
    BY <1>1, RestingType, TimeAssumption DEF PassState, ReadingPass, Time
  <2>2. wrk' = [wrk EXCEPT ![w] = p] /\ UNCHANGED <<now, tables, req, calls>>
    BY <1>2 DEF ListRecurringSubscriptions
  <2> HIDE DEF p
  <2> QED
    BY <2>1, <2>2, TypePass
<1>3. CASE ExpandSubscription(w)
  <2>1. PICK s \in wrk[w].listed :
          wrk' = [wrk EXCEPT
            ![w].listed = @ \ {s},
            ![w].jobs = @ \cup {[sub |-> s, entry |-> x[1], ent |-> x[2].id] :
                                  x \in EntryTargets(s.plan, s.customer, ents)}]
    BY <1>3 DEF ExpandSubscription
  <2> DEFINE new == {[sub |-> s, entry |-> x[1], ent |-> x[2].id] :
                       x \in EntryTargets(s.plan, s.customer, ents)}
             p == [wrk[w] EXCEPT !.listed = @ \ {s}, !.jobs = @ \cup new]
  <2>2. wrk[w] \in ReadingPass
    BY <1>1, <1>3 DEF ExpandSubscription, PassState, InsertingPass
  <2>3. s \in SubRow /\ s.plan \in Plans
    BY <2>2 DEF ReadingPass, SubRow
  <2>4. new \subseteq Job
    BY <1>1, <2>3, PlanFinite DEF EntryTargets, Job, EntRow
  <2>5. p \in ReadingPass
    BY <2>2, <2>4 DEF ReadingPass
  <2>6. wrk' = [wrk EXCEPT ![w] = p] /\ UNCHANGED <<now, tables, req, calls>>
    BY <1>3, <2>1, <2>2 DEF ExpandSubscription, TypeInv, TypeOK, ReadingPass
  <2> HIDE DEF p
  <2> QED
    BY <2>5, <2>6, TypePass DEF PassState
<1>4. CASE StartLoop(w)
  <2>1. wrk[w].jobs \subseteq Job
    BY <1>1 DEF PassState, ReadingPass, InsertingPass
  <2> QED
    BY <1>1, <1>4, <2>1, LoopType, TypePass DEF StartLoop
<1>5. CASE ReadLatest(w)
  BY <1>5, ReadState, WeighType DEF ReadLatest
<1>6. CASE ReadLatestFails(w)
  BY <1>6, ReadState, WeighType DEF ReadLatestFails
<1>7. CASE InsertGrant(w)
  <2>1. wrk[w] \in InsertingPass
    BY <1>1, <1>7 DEF InsertGrant, PassState, ReadingPass
  <2>2. /\ wrk[w].jobs \subseteq Job /\ wrk[w].now \in Time
        /\ wrk[w].next \in Time /\ wrk[w].job.sub.id \in SubIds
        /\ wrk[w].job.ent \in EntId
    BY <2>1 DEF InsertingPass, Job, SubRow
  <2> DEFINE g == NewGrant(wrk[w].job.sub.id, wrk[w].job.ent, wrk[w].next,
                           "worker")
  <2>3. g \in GrantRow
    BY <2>2, GenNat DEF NewGrant, GrantRow, TypeInv
  <2>4. grants' = grants \/ grants' = grants \cup {g}
    BY <1>7 DEF InsertGrant
  <2>5. grants' \subseteq GrantRow /\ IsFiniteSet(grants')
    BY <2>3, <2>4, FS_AddElement DEF TypeInv, TypeOK, FiniteTables
  <2>6. wrk' \in [Workers -> PassState]
    BY <1>7, <2>2, LoopType DEF InsertGrant, TypeInv, TypeOK
  <2> QED
    BY <1>7, <2>5, <2>6 DEF InsertGrant, TypeInv, TypeOK, FiniteTables
<1>8. CASE SkipEntry(w)
  <2>1. wrk[w].jobs \subseteq Job /\ wrk[w].now \in Time
    BY <1>1 DEF PassState, ReadingPass, InsertingPass
  <2>2. \E jobs \in SUBSET Job :
          wrk' = [wrk EXCEPT ![w] = Loop(jobs, wrk[w].now)]
    BY <1>8, <2>1 DEF SkipEntry, TypeInv, TypeOK
  <2> QED
    BY <1>8, <2>1, <2>2, LoopType, TypePass DEF SkipEntry
<1>9. CASE PassAborts(w)
  BY <1>9, RestingType, TypePass DEF PassAborts
<1> QED
  BY <1>2, <1>3, <1>4, <1>5, <1>6, <1>7, <1>8, <1>9
  DEF WorkerStep, WorkerFault

(* The type invariant is inductive.                                        *)
LEMMA TypeStep ==
  ASSUME TypeInv, [Next]_vars
  PROVE  TypeInv'
<1>1. CASE Tick
  <2>1. now' \in Time
    BY <1>1, TimeAssumption DEF Tick, Time, TypeInv, TypeOK
  <2> QED
    BY <1>1, <2>1, TypeTables DEF Tick, TypeInv, TypeOK
<1>2. CASE UNCHANGED vars
  BY <1>2, TypeTables DEF vars, TypeInv, TypeOK
<1> QED
  BY <1>1, <1>2, TypeRequestReads, TypeRequestCommits, TypeStatements, TypeWorker
  DEF Next, RequestStep, RequestBegin

(* The type invariant, with the finiteness of the tables, always holds.    *)
LEMMA TypeInvInductive == Spec => []TypeInv
<1>1. Init => TypeInv
  <2> SUFFICES ASSUME Init PROVE TypeInv
    OBVIOUS
  <2>1. wrk \in [Workers -> PassState]
    BY RestingType DEF Init
  <2>2. req \in [Requests -> RequestState]
    BY DEF Init, RequestState
  <2> QED
    BY <2>1, <2>2, TimeAssumption, IdAssumption, FS_EmptySet
    DEF Init, TypeInv, TypeOK, FiniteTables, Time
<1>2. TypeInv /\ [Next]_vars => TypeInv'
  BY TypeStep
<1> QED
  BY <1>1, <1>2, PTL DEF Spec

(* Every reachable state is well typed: no step leaves a row, a request or *)
(* a pass in a shape the code's types do not have, for any number of       *)
(* customers, plans, calls and workers.                                    *)
THEOREM TypeCorrect == Spec => []TypeOK
BY TypeInvInductive, PTL DEF TypeInv

----------------------------------------------------------------------------
(* Rows are never lost.                                                    *)

(* Voiding a subscription's grants keeps each row, or its voided copy.     *)
LEMMA VoidAllKeeps ==
  ASSUME TypeInv, NEW s
  PROVE  \A g \in grants :
           \/ g \in VoidAll(s)
           \/ ~g.voided /\ [g EXCEPT !.voided = TRUE] \in VoidAll(s)
<1> SUFFICES ASSUME NEW g \in grants
             PROVE  \/ g \in VoidAll(s)
                    \/ ~g.voided /\ [g EXCEPT !.voided = TRUE] \in VoidAll(s)
  OBVIOUS
<1>1. g \in GrantRow
  BY DEF TypeInv, TypeOK
<1>2. CASE g.sub # s
  BY <1>2 DEF VoidAll
<1>3. CASE g.sub = s /\ ~g.voided
  BY <1>3 DEF VoidAll
<1>4. CASE g.sub = s /\ g.voided
  <2>1. [g EXCEPT !.voided = TRUE] = g
    BY <1>1, <1>4 DEF GrantRow
  <2> QED
    BY <1>4, <2>1 DEF VoidAll
<1> QED
  BY <1>1, <1>2, <1>3, <1>4 DEF GrantRow

(* A table that is left alone loses nothing.                               *)
LEMMA UnchangedKeeps ==
  /\ UNCHANGED subs => SubsKept
  /\ UNCHANGED ents => EntsKept
  /\ UNCHANGED grants => GrantsKept
BY DEF SubsKept, EntsKept, GrantsKept

(* Materialising a plan only adds rows.                                    *)
LEMMA MaterializeKeeps ==
  ASSUME NEW s, NEW c, NEW p, NEW t, NEW kept,
         MaterializeEntries(s, c, p, t, kept)
  PROVE  /\ EntsKept
         /\ kept \subseteq grants'
BY DEF MaterializeEntries, EntsKept

(* No step loses a row or takes a mark back.                               *)
LEMMA KeepStep ==
  ASSUME TypeInv, [Next]_vars
  PROVE  SubsKept /\ EntsKept /\ GrantsKept
<1>1. ASSUME NEW r \in Requests, CreateSubscriptionCommit(r)
      PROVE  SubsKept /\ EntsKept /\ GrantsKept
  <2>1. subs \subseteq subs'
    BY <1>1 DEF CreateSubscriptionCommit
  <2>2. EntsKept /\ grants \subseteq grants'
    BY <1>1, MaterializeKeeps DEF CreateSubscriptionCommit
  <2> QED
    BY <2>1, <2>2 DEF SubsKept, GrantsKept
<1>2. ASSUME NEW r \in Requests, ChangeSubscriptionCommit(r)
      PROVE  SubsKept /\ EntsKept /\ GrantsKept
  <2>1. EntsKept /\ VoidAll(req[r].sub.id) \subseteq grants'
    BY <1>2, MaterializeKeeps DEF ChangeSubscriptionCommit
  <2>2. GrantsKept
    BY <2>1, VoidAllKeeps DEF GrantsKept
  <2>3. SubsKept
    <3> SUFFICES ASSUME NEW x \in subs
                 PROVE  \E y \in subs' :
                          /\ y.id = x.id /\ y.customer = x.customer
                          /\ y.starts = x.starts
                          /\ y.canceled = x.canceled /\ y.ends = x.ends
      BY DEF SubsKept
    <3> DEFINE y == IF x.id = req[r].sub.id
                      THEN [x EXCEPT !.plan = req[r].plan] ELSE x
    <3>1. y \in subs'
      BY <1>2 DEF ChangeSubscriptionCommit
    <3>2. x \in SubRow
      BY DEF TypeInv, TypeOK
    <3>3. /\ y.id = x.id /\ y.customer = x.customer /\ y.starts = x.starts
          /\ y.canceled = x.canceled /\ y.ends = x.ends
      BY <3>2 DEF SubRow
    <3> QED
      BY <3>1, <3>3
  <2> QED
    BY <2>1, <2>2, <2>3
<1>3. ASSUME NEW s \in subs, NEW at, CancelSubscription(s, at)
      PROVE  SubsKept /\ EntsKept /\ GrantsKept
  <2>1. SubsKept
    <3> SUFFICES ASSUME NEW x \in subs
                 PROVE  \E y \in subs' :
                          /\ y.id = x.id /\ y.customer = x.customer
                          /\ y.starts = x.starts
                          /\ ~Active(x) => y.canceled = x.canceled
                          /\ x.ends # None => y.ends = x.ends
      BY DEF SubsKept
    <3> DEFINE y == IF x = s /\ Active(x)
                      THEN [x EXCEPT !.canceled = at,
                                     !.ends = IF @ = None THEN at ELSE @]
                      ELSE x
    <3>1. y \in subs'
      BY <1>3 DEF CancelSubscription
    <3>2. x \in SubRow
      BY DEF TypeInv, TypeOK
    <3>3. /\ y.id = x.id /\ y.customer = x.customer /\ y.starts = x.starts
          /\ ~Active(x) => y.canceled = x.canceled
          /\ x.ends # None => y.ends = x.ends
      BY <3>2 DEF SubRow
    <3> QED
      BY <3>1, <3>3
  <2>2. GrantsKept
    BY <1>3, VoidAllKeeps DEF CancelSubscription, GrantsKept
  <2> QED
    BY <1>3, <2>1, <2>2, UnchangedKeeps DEF CancelSubscription
<1>4. ASSUME NEW c, NEW f, CreateEntitlement(c, f) \/ DeleteEntitlement(c, f)
      PROVE  SubsKept /\ EntsKept /\ GrantsKept
  <2>1. EntsKept
    <3>1. CASE CreateEntitlement(c, f)
      BY <3>1 DEF CreateEntitlement, EntsKept
    <3>2. CASE DeleteEntitlement(c, f)
      <4> SUFFICES ASSUME NEW x \in ents
                   PROVE  \E y \in ents' : /\ y.id = x.id /\ y.sub = x.sub
                                           /\ x.deleted => y.deleted
        BY DEF EntsKept
      <4> DEFINE y == IF Live(x, c, f) THEN [x EXCEPT !.deleted = TRUE] ELSE x
      <4>1. y \in ents'
        BY <3>2 DEF DeleteEntitlement
      <4>2. x \in EntRow
        BY DEF TypeInv, TypeOK
      <4>3. y.id = x.id /\ y.sub = x.sub /\ (x.deleted => y.deleted)
        BY <4>2 DEF EntRow
      <4> QED
        BY <4>1, <4>3
    <3> QED
      BY <1>4, <3>1, <3>2
  <2> QED
    BY <1>4, <2>1, UnchangedKeeps DEF CreateEntitlement, DeleteEntitlement
<1>5. ASSUME NEW g \in grants, VoidGrant(g)
      PROVE  SubsKept /\ EntsKept /\ GrantsKept
  BY <1>5, UnchangedKeeps DEF VoidGrant, GrantsKept
<1>6. ASSUME NEW e, NEW t, CreateGrant(e, t)
      PROVE  SubsKept /\ EntsKept /\ GrantsKept
  BY <1>6, UnchangedKeeps DEF CreateGrant, GrantsKept
<1>7. ASSUME NEW w \in Workers, InsertGrant(w)
      PROVE  SubsKept /\ EntsKept /\ GrantsKept
  BY <1>7, UnchangedKeeps DEF InsertGrant, GrantsKept
<1>8. CASE UNCHANGED <<subs, ents, grants>>
  BY <1>8, UnchangedKeeps
<1>9. \/ \E r \in Requests :
           CreateSubscriptionCommit(r) \/ ChangeSubscriptionCommit(r)
      \/ StatementStep
      \/ \E w \in Workers : InsertGrant(w)
      \/ UNCHANGED <<subs, ents, grants>>
  BY DEF Next, Tick, RequestBegin, RequestStep, WorkerStep, WorkerFault, vars,
         tables, CreateSubscriptionBegin, ChangeSubscriptionBegin,
         CreateSubscriptionCheck, ChangeSubscriptionPlan, RequestFails,
         ListRecurringSubscriptions, ExpandSubscription, StartLoop, ReadLatest,
         ReadLatestFails, SkipEntry, PassAborts
<1>10. CASE StatementStep
  BY <1>3, <1>4, <1>5, <1>6, <1>8, <1>10 DEF StatementStep, ArchivePlan
<1> QED
  BY <1>1, <1>2, <1>7, <1>8, <1>9, <1>10

(* No handler, change, cancellation or pass ever loses a row, revives what *)
(* was cancelled, voided or deleted, or moves a grant.                     *)
THEOREM NothingRevived == Spec => Tombstones
<1>1. TypeInv /\ [Next]_vars => [SubsKept /\ EntsKept /\ GrantsKept]_vars
  BY KeepStep
<1> QED
  BY <1>1, TypeInvInductive, PTL DEF Spec, Tombstones
=============================================================================

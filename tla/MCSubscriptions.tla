-------------------------- MODULE MCSubscriptions --------------------------
(* Instances of Subscriptions for TLC.                                     *)
EXTENDS Subscriptions, TLC

CONSTANTS basic, pro, credits, storage

(* basic credits one feature every tick and gives another without credits; *)
(* pro credits both every two ticks.                                       *)
MCEntries ==
  basic :> <<[feature |-> credits, grant |-> TRUE],
             [feature |-> storage, grant |-> FALSE]>> @@
  pro   :> <<[feature |-> storage, grant |-> TRUE],
             [feature |-> credits, grant |-> TRUE]>>
(* Both plans credit the one feature: the passes' work without the rest.   *)
CreditEntries ==
  basic :> <<[feature |-> credits, grant |-> TRUE]>> @@
  pro   :> <<[feature |-> credits, grant |-> TRUE]>>
MCInterval == basic :> 1 @@ pro :> 2
MCMetered == {credits, storage}
CreditsMetered == {credits}
MCAtInputs == {1}
NowOnly == {}
MCEndInputs == {None, 2}
EndInputsNear == {None, 1}
OpenEnded == {None}

Symmetry == Permutations(SubIds) \cup Permutations(Workers) \cup Permutations(Requests) \cup Permutations(Customers)
----------------------------------------------------------------------------
(* What the API's documentation says of cancellation and archiving.        *)

(* "Once set, the recurrence worker emits no further grants for this       *)
(* subscription": a grant the worker inserts belongs to a subscription     *)
(* whose canceled_at is not set.                                           *)
CanceledEmitsNoMore ==
  [][\A g \in grants' \ grants : g.via = "worker" =>
       \E s \in subs : s.id = g.sub /\ Active(s)]_vars

(* Subscription i is active and on plan p.                                 *)
Subscribed(i, p) == \E s \in subs : s.id = i /\ s.plan = p /\ Active(s)

(* "existing subscriptions keep working" on an archived plan: a cycle that *)
(* comes due for a subscription which was on the plan while the plan was   *)
(* not archived yet still goes out.                                        *)
ArchivedKeepsWorking ==
  \A i \in SubIds, p \in Plans, f \in Features, t \in Time :
    [](Subscribed(i, p) /\ p \notin archived =>
         (CycleDue(i, p, f, t) ~> ~CycleDue(i, p, f, t)))
=============================================================================

--------------------------- MODULE CreditIssuing ---------------------------
(***************************************************************************)
(* What plan-driven credit issuing promises, without tables, transactions, *)
(* requests or passes: a ledger of the credits issued to subscriptions.    *)
(* A subscription starts once and for one customer; it is credited when it *)
(* starts, when its plan is replaced, and then cycle by cycle; no credit   *)
(* is issued twice while in force, none ahead of its time, none to another *)
(* customer; and a credit taken back never returns.                        *)
(***************************************************************************)
EXTENDS Integers

CONSTANTS
  Cycles,    \* the lengths of the plans' cycles
  LastTime   \* the clock stops here

VARIABLES
  now,       \* the clock
  opened,    \* the subscriptions: [sub, customer, starts]
  issued,    \* every credit ever issued: [sub, ent, at, n]
  inForce    \* those not taken back

ledger == <<opened, issued, inForce>>

SameCycle(c, d) == c.sub = d.sub /\ c.ent = d.ent /\ c.at = d.at

(* Credits C that may come to be in force beside those in F.               *)
Fresh(C, F) == \A c \in C, d \in C \cup F : SameCycle(c, d) => c = d /\ d \notin F

OwnedBy(C, o) == \A c \in C : c.sub = o.sub /\ c.ent.customer = o.customer

Init ==
  /\ now = 0
  /\ opened = {} /\ issued = {} /\ inForce = {}

Tick ==
  /\ now < LastTime
  /\ now' = now + 1
  /\ UNCHANGED ledger

(* A subscription o starts, with its first credits C.                      *)
Open(o, C) ==
  /\ \A x \in opened : x.sub # o.sub
  /\ OwnedBy(C, o) /\ Fresh(C, inForce)
  /\ \A c \in C : c.at = o.starts
  /\ opened' = opened \cup {o}
  /\ issued' = issued \cup C
  /\ inForce' = inForce \cup C
  /\ UNCHANGED now

(* Its plan is replaced: every credit it has is taken back, and those of   *)
(* the new plan take effect together.                                      *)
Replace(o, C) ==
  LET kept == {d \in inForce : d.sub # o.sub} IN
  /\ o \in opened
  /\ OwnedBy(C, o) /\ Fresh(C, kept)
  /\ \A c, d \in C : c.at = d.at
  /\ issued' = issued \cup C
  /\ inForce' = kept \cup C
  /\ UNCHANGED <<now, opened>>

(* The next cycle: one cycle after its start or after a credit it was      *)
(* issued on the same entitlement, whether still in force or not.          *)
NextOf(o, c) ==
  \E k \in Cycles :
    \/ c.at = o.starts + k
    \/ \E d \in issued : d.sub = c.sub /\ d.ent = c.ent /\ c.at = d.at + k

Recur(o, c) ==
  /\ o \in opened
  /\ OwnedBy({c}, o) /\ Fresh({c}, inForce)
  /\ NextOf(o, c) /\ c.at <= now
  /\ issued' = issued \cup {c}
  /\ inForce' = inForce \cup {c}
  /\ UNCHANGED <<now, opened>>

(* One subscription loses some or all of its credits.                      *)
TakeBack(C) ==
  /\ C \subseteq inForce
  /\ \A c, d \in C : c.sub = d.sub
  /\ inForce' = inForce \ C
  /\ UNCHANGED <<now, opened, issued>>

Next ==
  \/ Tick
  \/ \E o \in opened' \ opened : Open(o, issued' \ issued)
  \/ \E o \in opened : Replace(o, {c \in inForce' : c.sub = o.sub})
  \/ \E c \in inForce' \ inForce, o \in opened : Recur(o, c)
  \/ TakeBack(inForce \ inForce')

Spec == Init /\ [][Next]_<<now, ledger>>

=============================================================================

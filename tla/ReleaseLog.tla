------------------------------ MODULE ReleaseLog -------------------------------
(***************************************************************************)
(* What the rollout service promises about releases, with no requests in   *)
(* flight, no verification and no process.  A release is offered to the    *)
(* CDN when it is newer than the current release of its organisation; the  *)
(* CDN takes only what was offered; an attempt is settled once, by one     *)
(* entry in the log, and is accepted only while it is on offer and after   *)
(* the CDN took it; the log only grows, until it is lost as a whole.       *)
(*                                                                         *)
(* Offer and acceptance are apart, and other acceptances may come between: *)
(* this is all the code keeps of "newer than the last accepted rollout".   *)
(***************************************************************************)
EXTENDS AuditLog, ReleaseVersion

CONSTANTS Attempts, Organisations, Actors, Targets

VARIABLES
    log,       \* the entries
    offers,    \* releases on offer: found newer, not yet settled
    sent,      \* attempts whose release is with the CDN or on its way
    pushed,    \* attempts whose release the CDN has taken
    settled    \* attempts that have had their entry, or never will

logVars == <<log, offers, sent, pushed, settled>>

Init ==
    /\ log = <<>>
    /\ offers = {}
    /\ sent = {}
    /\ pushed = {}
    /\ settled = {}

Offer(a, org, target) ==
    /\ a \notin settled
    /\ LET current == CurrentVersion(log, org)
       IN  current = NoVersion \/ Newer(target, current)
    /\ offers' = offers \union {[attempt |-> a, org |-> org, target |-> target]}
    /\ sent' = sent \union {a}
    /\ UNCHANGED <<log, pushed, settled>>

Withdraw(offer) ==
    /\ offers' = offers \ {offer}
    /\ UNCHANGED <<log, sent, pushed, settled>>

Push(a) ==
    /\ a \in sent
    /\ pushed' = pushed \union {a}
    /\ UNCHANGED <<log, offers, sent, settled>>

\* The CDN refuses a release, or it never arrives.
Drop(a) ==
    /\ a \notin pushed
    /\ sent' = sent \ {a}
    /\ UNCHANGED <<log, offers, pushed, settled>>

Settle(a, org, actor, action, target) ==
    /\ a \notin settled
    /\ settled' = settled \union {a}
    /\ log' = Append(log, [req |-> a, org |-> org, actor |-> actor,
                           action |-> action, target |-> target])
    /\ UNCHANGED <<sent, pushed>>

AcceptRelease(offer, actor) ==
    /\ offer \in offers
    /\ offer.attempt \in pushed
    /\ offers' = offers \ {offer}
    /\ Settle(offer.attempt, offer.org, actor, Accepted, offer.target)

RefuseRelease(a, org, actor, target) ==
    /\ offers' = offers
    /\ Settle(a, org, actor, Rejected, target)

\* The process exits; what it had on offer will never be settled.
Lose(abandoned) ==
    /\ log' = <<>>
    /\ offers' = {}
    /\ {offer.attempt : offer \in offers} \subseteq abandoned
    /\ settled' = settled \union abandoned
    /\ UNCHANGED <<sent, pushed>>

Next ==
    \/ \E a \in Attempts : Push(a) \/ Drop(a)
    \/ \E a \in Attempts, org \in Organisations, target \in Targets :
          \/ Offer(a, org, target)
          \/ \E actor \in Actors : RefuseRelease(a, org, actor, target)
    \/ \E offer \in offers :
          Withdraw(offer) \/ \E actor \in Actors : AcceptRelease(offer, actor)
    \/ \E abandoned \in SUBSET Attempts : Lose(abandoned)

Spec == Init /\ [][Next]_logVars
=============================================================================

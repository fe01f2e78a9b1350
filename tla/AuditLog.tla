-------------------------------- MODULE AuditLog ------------------------------
(***************************************************************************)
(* The audit log of internal/store/store.go: one append-only sequence for  *)
(* all organisations, written and read through a scope that fixes the      *)
(* organisation.  Every operator takes the log as an argument; the service *)
(* that owns it (Rollout) keeps it in a variable.  Each operation of the   *)
(* code holds the store's mutex from its first to its last access, so each *)
(* is one step of whoever calls it.                                        *)
(*                                                                         *)
(* An entry carries the organisation it was stamped with, the actor, the   *)
(* action, the target (a version) and, for the properties only, the        *)
(* request req it was written for.  The clock and the reason text are left *)
(* out.                                                                    *)
(***************************************************************************)
EXTENDS Integers, SequencesExt

Accepted == "rollout.accepted"
Rejected == "rollout.rejected"

\* The actions with the prefix "rollout.".
RolloutActions == {Accepted, Rejected}

\* The empty string: no version.
NoVersion == <<>>

\* Mutant: the entry keeps the organisation it came with.
AppendUnstamped(log, org, entry) == Append(log, entry)

\* The caller's scope decides the organisation, whatever the entry says.
AppendAudit(log, org, entry) == Append(log, [entry EXCEPT !.org = org])

\* Mutant: the log is read without the organisation filter.
EntriesOfAnyone(log, org, actions) ==
    {i \in 1..Len(log) : log[i].action \in actions}

\* Where the entries of one organisation with one of the actions stand.
Entries(log, org, actions) ==
    {i \in 1..Len(log) : log[i].org = org /\ log[i].action \in actions}

Newest(S) == CHOOSE i \in S : \A j \in S : j <= i

\* What the entry at i adds to what is read: itself, or nothing.
Shown(log, org, actions, i) ==
    IF i \in Entries(log, org, actions) THEN <<log[i]>> ELSE <<>>

\* Mutant: the entries come in the order they were written.
AuditOldestFirst(log, org, actions) ==
    FlattenSeq([k \in 1..Len(log) |-> Shown(log, org, actions, k)])

\* Newest first, as the loop from the end of the log collects them.
Audit(log, org, actions) ==
    FlattenSeq([k \in 1..Len(log) |-> Shown(log, org, actions, Len(log) + 1 - k)])

\* currentVersion of the rollout service: the target of the newest accepted
\* entry of the organisation, the empty string when there is none.
CurrentVersion(log, org) ==
    LET accepted == Entries(log, org, {Accepted})
    IN  IF accepted = {} THEN NoVersion ELSE log[Newest(accepted)].target
=============================================================================

---------------------------- MODULE ProfileLedger ----------------------------
(***************************************************************************)
(* What the lifecycle service promises to a reader of its database: every  *)
(* call that commits is one atomic change of the profile, and its request  *)
(* then has one audit event for good.  There are no leases, no pending     *)
(* states, no waiting and no FastClaw here.                                *)
(***************************************************************************)
EXTENDS Naturals

CONSTANTS
    Requests,   \* request ids
    Users,      \* FastClaw users a profile may name; 0 is nobody
    NoEvent

VARIABLES
    profile,    \* the profile, "absent" before the first call
    events      \* the outcome recorded for each request

ledger == <<profile, events>>

Absent == [status |-> "absent", user |-> 0, agent |-> FALSE]
Fresh == [status |-> "disabled", user |-> 0, agent |-> FALSE]
Base == IF profile.status = "absent" THEN Fresh ELSE profile

(* An agent belongs to a user, an active profile names both and a deleted  *)
(* one neither.                                                            *)
Profiles ==
    {p \in [status : {"active", "disabled", "blocked_retryable", "deleted"},
            user : Users, agent : BOOLEAN] :
        /\ p.agent => p.user # 0
        /\ p.status = "active" => p.agent
        /\ p.status = "deleted" => p.user = 0}

Init ==
    /\ profile = Absent
    /\ events = [r \in Requests |-> NoEvent]

(* The second call of a request changes the profile but not the event. *)
Records(r, outcome) ==
    events' = IF events[r] = NoEvent THEN [events EXCEPT ![r] = outcome] ELSE events

(* The answer to a call that found nothing to do, or was denied. *)
Answer(r) ==
    /\ profile' \in {profile, Base}
    /\ \E outcome \in {"succeeded", "denied"} : Records(r, outcome)

(* Nothing follows a deleted profile, and what a profile names stays until *)
(* it is deleted.                                                          *)
Changes ==
    /\ profile' \in Profiles
    /\ Base.status # "deleted"
    /\ profile'.status # "deleted" =>
          /\ Base.user # 0 => profile'.user = Base.user
          /\ Base.agent => profile'.agent

Succeed(r) ==
    /\ Changes
    /\ profile'.status # "blocked_retryable"
    /\ profile'.status = "disabled" => profile'.user # 0
    /\ Records(r, "succeeded")

Fail(r) ==
    /\ Changes
    /\ profile'.status # "deleted"
    /\ Records(r, "failed")

Next == \E r \in Requests : Answer(r) \/ Succeed(r) \/ Fail(r)

Spec == Init /\ [][Next]_ledger
=============================================================================

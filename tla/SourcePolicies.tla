---------------------------- MODULE SourcePolicies ----------------------------
(***************************************************************************)
(* The policies of one disclosure source.  A policy is in force during a   *)
(* half-open interval of time; it is created for an interval that starts   *)
(* now or later, and is changed by a replacement that starts now.  The     *)
(* connector worker polls every policy in force, and coverage at an alert  *)
(* is judged by the policies in force at the alert's time.                 *)
(*                                                                         *)
(* A request reads the clock, waits for its lock, queries and commits, and *)
(* time passes and other requests move on at every await.  An advisory     *)
(* lock on the name orders creations and a row lock the changes of one     *)
(* policy; neither lock excludes the other.                                *)
(***************************************************************************)
EXTENDS Naturals, FiniteSets

CONSTANTS Admin,        \* requests in flight, one for each
          MaxClock,     \* bound on the clock
          MaxPolicies   \* bound on the policies of the source

Forever == MaxClock + 1   \* an effective_to that is null
Clock == 0..MaxClock

ASSUME PoliciesAssumption == MaxClock \in Nat /\ MaxPolicies \in Nat

VARIABLES clock, policies,  \* policies: rows by policy_version
          handling          \* what the handler of each admin holds

policyVars == <<clock, policies, handling>>

Interval(from, to) == [effective_from |-> from, effective_to |-> to]

(* step: "asked" of create_source_policy before its lock, "checked" behind *)
(* it, "patching" of patch_source_policy behind its row lock; now is when  *)
(* it read the clock, policy the row it will insert, of the patched one.   *)
Idle == [step |-> "idle", now |-> 0, policy |-> Interval(0, 0), of |-> 0]

PoliciesInit == clock = 0 /\ policies = <<>> /\ handling = [a \in Admin |-> Idle]

InForce(p, t) == p.effective_from <= t /\ t < p.effective_to
Overlap(p, q) == p.effective_from < q.effective_to /\ q.effective_from < p.effective_to

ClockTicks == clock < MaxClock /\ clock' = clock + 1 /\ UNCHANGED <<policies, handling>>

Rows == {policies[v] : v \in DOMAIN policies}
NewVersion == Cardinality(DOMAIN policies) + 1
With(p) == [v \in 1..NewVersion |-> IF v = NewVersion THEN p ELSE policies[v]]
Answers(a) == handling' = [handling EXCEPT ![a] = Idle] /\ UNCHANGED clock

(* create_source_policy: the interval must not start before the request    *)
(* does.                                                                   *)
AskForPolicy(a) ==
  \E from \in clock..MaxClock, to \in Clock \union {Forever} :
    /\ handling[a].step = "idle" /\ NewVersion <= MaxPolicies
    /\ to > from
    /\ handling' = [handling EXCEPT ![a] = [step |-> "asked", now |-> clock,
                                          policy |-> Interval(from, to), of |-> 0]]
    /\ UNCHANGED <<clock, policies>>

(* The advisory lock is held from here to the commit, and a policy that    *)
(* overlaps is refused.                                                    *)
CheckOverlap(a) ==
  /\ handling[a].step = "asked"
  /\ \A b \in Admin : handling[b].step # "checked"
  /\ handling' = [handling EXCEPT ![a] =
                   IF \E p \in Rows : Overlap(p, handling[a].policy)
                   THEN Idle ELSE [@ EXCEPT !.step = "checked"]]
  /\ UNCHANGED <<clock, policies>>

CreatePolicy(a) ==
  /\ handling[a].step = "checked" /\ NewVersion <= MaxPolicies
  /\ policies' = With(handling[a].policy)
  /\ Answers(a)

AnyHistorical(p) ==  \* mutant: a policy that has ended may be patched
  p.effective_to < p.effective_from
Historical(p) == p.effective_to <= clock

(* patch_source_policy, behind the row lock: the replacement runs from now *)
(* until the requested end, or for ever.                                   *)
LockForPatch(a) ==
  \E v \in DOMAIN policies, to \in Clock \union {Forever} :
    /\ handling[a].step = "idle" /\ NewVersion <= MaxPolicies
    /\ \A b \in Admin : handling[b].step = "patching" => handling[b].of # v
    /\ ~Historical(policies[v])
    /\ to > clock
    /\ handling' = [handling EXCEPT ![a] = [step |-> "patching", now |-> clock,
                                          policy |-> Interval(clock, to), of |-> v]]
    /\ UNCHANGED <<clock, policies>>

(* The patched policy ends when its request read the clock.                *)
PatchPolicy(a) ==
  /\ handling[a].step = "patching" /\ NewVersion <= MaxPolicies
  /\ policies' = [With(handling[a].policy) EXCEPT ![handling[a].of].effective_to = handling[a].now]
  /\ Answers(a)

(* A request that is refused on other grounds, fails or dies rolls back.   *)
RollBack(a) == handling[a].step # "idle" /\ Answers(a) /\ UNCHANGED policies

PoliciesNext ==
  \/ ClockTicks
  \/ \E a \in Admin : \/ AskForPolicy(a) \/ CheckOverlap(a) \/ CreatePolicy(a)
                      \/ LockForPatch(a) \/ PatchPolicy(a) \/ RollBack(a)

PoliciesSpec == PoliciesInit /\ [][PoliciesNext]_policyVars
-----------------------------------------------------------------------------
(* What the check in create_source_policy protects: no policy is still in  *)
(* force when one that starts later begins.  A replacement is not checked: *)
(* it starts at once and may run past the start of a policy that is to     *)
(* come, which then is in force beside it.                                 *)
PoliciesGiveWay ==
  \A p, q \in Rows :
    /\ p.effective_from < q.effective_from
    /\ p.effective_from < p.effective_to /\ q.effective_from < q.effective_to
    => p.effective_to <= q.effective_from

(* Creations and replacements together never rewrite the past: whatever    *)
(* was in force at a time before a request read the clock stays in force   *)
(* then when the request commits, however long it waited in between, so    *)
(* coverage judged for an old alert comes out the same.  The times from    *)
(* that reading to the commit are not fixed: coverage judged meanwhile     *)
(* does not see the new policy, and judged again after the commit it does. *)
PastPoliciesAreFixed ==
  [][\A t \in 0..(clock - 1) :
       (\A a \in Admin : handling[a] # handling'[a] /\ handling'[a] = Idle => t < handling[a].now)
         => {v \in DOMAIN policies' : InForce(policies'[v], t)}
              = {v \in DOMAIN policies : InForce(policies[v], t)}]_policyVars
=============================================================================

-------------------------- MODULE EnvironmentLease --------------------------
(***************************************************************************)
(* What the deployment orchestrator promises about an environment: one run  *)
(* at a time holds it, a run that was at work when the process stopped goes *)
(* on holding it until somebody lets go of it, and only a run that was at   *)
(* work changes the environment's release.                                  *)
(***************************************************************************)
CONSTANTS Run, Env, Release

VARIABLES
    life,    \* of each run: "new", "waiting", "working", "suspended" or "over"
    where,   \* the environment a run is for
    what,    \* the release it brings
    current  \* the release each environment was last brought to

leaseVars == <<life, where, what, current>>

Holding == {"waiting", "working", "suspended"}

Init ==
    /\ life = [r \in Run |-> "new"]
    /\ where = [r \in Run |-> "none"]
    /\ what = [r \in Run |-> "never"]
    /\ current = [e \in Env |-> "never"]

Acquire(r, e, rel) ==
    /\ life[r] = "new"
    /\ \A q \in Run : where[q] = e => life[q] \notin Holding
    /\ life' = [life EXCEPT ![r] = "waiting"]
    /\ where' = [where EXCEPT ![r] = e]
    /\ what' = [what EXCEPT ![r] = rel]
    /\ UNCHANGED current

Begin(r) ==
    /\ life[r] = "waiting"
    /\ life' = [life EXCEPT ![r] = "working"]
    /\ UNCHANGED <<where, what, current>>

Succeed(r) ==
    /\ life[r] = "working"
    /\ life' = [life EXCEPT ![r] = "over"]
    /\ current' = [current EXCEPT ![where[r]] = what[r]]
    /\ UNCHANGED <<where, what>>

GiveUp(r) ==
    /\ life[r] \in Holding
    /\ life' = [life EXCEPT ![r] = "over"]
    /\ UNCHANGED <<where, what, current>>

\* a restart ends every run that waited and suspends every run that was at work
Restart ==
    /\ life' = [r \in Run |-> CASE life[r] = "waiting" -> "over"
                                [] life[r] = "working" -> "suspended"
                                [] OTHER -> life[r]]
    /\ UNCHANGED <<where, what, current>>

Next ==
    \/ \E r \in Run, e \in Env, rel \in Release : Acquire(r, e, rel)
    \/ \E r \in Run : Begin(r) \/ Succeed(r) \/ GiveUp(r)
    \/ Restart

Spec == Init /\ [][Next]_leaseVars
=============================================================================

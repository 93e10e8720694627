-------------------------- MODULE DeploymentBoard --------------------------
(***************************************************************************)
(* What the users of GitHub deployments may rely on, whatever Argo CD and  *)
(* the controllers do: a status is written by a writer that has a permit   *)
(* for it; a permit is for a true status, is used once, and is not given   *)
(* out for a deployment that shows success, but to a blind writer or after *)
(* a failure.  A permit does not expire, so success may be overwritten by  *)
(* a writer that had one before, once.                                     *)
(***************************************************************************)
EXTENDS Naturals

CONSTANTS
    Writers,
    Blind,       \* writers that do not look at the deployment
    Deployments,
    NoStatus,    \* a new deployment has no status
    Missing,     \* there is no such deployment
    NoPermit

VARIABLES
    latest,   \* what each deployment shows
    permits,  \* of each writer
    facts,    \* the true statuses so far: records of deployment and state
    failures  \* calls GitHub did not answer so far

vars == << latest, permits, facts, failures >>

Init ==
    /\ latest \in [Deployments -> {NoStatus, Missing}]
    /\ permits = [w \in Writers |-> NoPermit]

Create(d) ==
    /\ latest[d] = Missing
    /\ latest' = [latest EXCEPT ![d] = NoStatus]
    /\ UNCHANGED << permits, facts, failures >>

Learn ==
    /\ facts \subseteq facts'
    /\ UNCHANGED << latest, permits, failures >>

Grant(w, p) ==
    /\ permits[w] = NoPermit
    /\ permits' = [permits EXCEPT ![w] = p]
    /\ \/ w \in Blind /\ failures' = failures
       \/ latest[p.deployment] # "success" /\ failures' = failures
       \/ failures' = failures + 1
    /\ UNCHANGED << latest, facts >>

Write(w) ==
    /\ permits[w] # NoPermit
    /\ latest[permits[w].deployment] # Missing
    /\ latest' = [latest EXCEPT ![permits[w].deployment] = permits[w].state]
    /\ permits' = [permits EXCEPT ![w] = NoPermit]
    /\ UNCHANGED << facts, failures >>

\* Writers give up, or die.
Withdraw(ws) ==
    /\ permits' = [w \in Writers |-> IF w \in ws THEN NoPermit ELSE permits[w]]
    /\ failures' \in {failures, failures + 1}
    /\ UNCHANGED << latest, facts >>

Next ==
    \/ \E d \in Deployments : Create(d)
    \/ Learn
    \/ \E w \in Writers :
          \/ \E p \in facts : Grant(w, p)
          \/ Write(w)
    \/ \E ws \in SUBSET Writers : Withdraw(ws)

Spec == Init /\ [][Next]_vars

=============================================================================

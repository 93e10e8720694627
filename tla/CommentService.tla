-------------------------- MODULE CommentService --------------------------
(***************************************************************************)
(* What a reconciler may rely on when it asks for comments, and all that   *)
(* HealthComment and PhaseComment assume of it: of the wanted comments,    *)
(* each is made at most once, or is missed; none is forgotten; and the     *)
(* call reports success only if none was missed.                           *)
(***************************************************************************)
VARIABLES
    wanted,  \* the comments to make
    made,    \* those GitHub has
    missed,  \* those whose making was reported as an error
    outcome  \* of the call

vars == << wanted, made, missed, outcome >>

Open == wanted \ (made \cup missed)

Init ==
    /\ made = {}
    /\ missed = {}
    /\ outcome = "pending"

Make(c) ==
    /\ c \in Open
    /\ made' = made \cup {c}
    /\ UNCHANGED << wanted, missed, outcome >>

\* GitHub may have made a comment whose answer was lost.
Miss(cs) ==
    /\ missed' = missed \cup cs
    /\ \E unanswered \in SUBSET cs : made' = made \cup unanswered
    /\ UNCHANGED << wanted, outcome >>

\* An error may also be about nothing: a list that could not be read.
Report ==
    /\ Open = {}
    /\ \/ outcome' = "success" /\ missed = {}
       \/ outcome' = "error"
    /\ UNCHANGED << wanted, made, missed >>

Next ==
    /\ outcome = "pending"
    /\ \/ \E c \in Open : Make(c)
       \/ \E cs \in SUBSET Open : Miss(cs)
       \/ Report

Spec == Init /\ [][Next]_vars

=============================================================================

--------------------------- MODULE HealthLedger ---------------------------
(***************************************************************************)
(* What the readers of the comments may rely on, whatever is refused, lost *)
(* or read late: a ledger holds of each name the last revision announced   *)
(* as healthy.  Announcements are true, and are made in passes.  A revision*)
(* is entered at the end of a pass, if it was healthy and all that is due  *)
(* for it was announced by then.  No pass is begun for the revision the    *)
(* ledger holds, unless the ledger is misread.  A pass may end early, and  *)
(* the next one starts over.                                               *)
(***************************************************************************)
EXTENDS Naturals

CONSTANTS
    Names,
    Due,    \* of each name and revision, its healthy announcements
    Absent, \* there is no entry of the name
    Blank,  \* an entry without a revision
    NoPass

VARIABLES
    ledger,
    attempted, \* announcements made or refused
    pass,      \* the name and the revision of the pass under way
    facts,     \* the health statuses names had with a revision so far
    misread    \* how often the ledger was misread

vars == << ledger, attempted, pass, facts, misread >>

IsFact(c) == [app |-> c.app, revision |-> c.revision, kind |-> c.kind] \in facts

Init ==
    /\ ledger = [n \in Names |-> Absent]
    /\ attempted = {}
    /\ pass = NoPass
    /\ facts = {}
    /\ misread = 0

Learn ==
    /\ facts \subseteq facts'
    /\ UNCHANGED << ledger, attempted, pass, misread >>

Opened(n) == ledger[n] = Absent /\ ledger' = [ledger EXCEPT ![n] = Blank]

Open(n) == Opened(n) /\ UNCHANGED << attempted, pass, facts, misread >>

Strike(n) ==
    /\ ledger' = [ledger EXCEPT ![n] = Absent]
    /\ UNCHANGED << attempted, pass, facts, misread >>

Misread ==
    /\ misread' = misread + 1
    /\ UNCHANGED << ledger, attempted, pass, facts >>

Begin(n, r) ==
    /\ pass = NoPass
    /\ pass' = [name |-> n, revision |-> r]
    /\ \/ ledger[n] # r /\ UNCHANGED misread
       \/ misread' = misread + 1
    /\ Opened(n) \/ UNCHANGED ledger
    /\ UNCHANGED << attempted, facts >>

\* The pass may end with it.
Announce ==
    /\ pass # NoPass
    /\ attempted \subseteq attempted'
    /\ \A c \in attempted' \ attempted : c.app = pass.name /\ IsFact(c)
    /\ pass' \in {pass, NoPass}
    /\ UNCHANGED << ledger, facts, misread >>

Enter ==
    /\ pass # NoPass
    /\ ledger[pass.name] # Absent
    /\ Due[pass.name][pass.revision] \subseteq attempted
    /\ IsFact([app |-> pass.name, revision |-> pass.revision, kind |-> "Healthy"])
    /\ ledger' = [ledger EXCEPT ![pass.name] = pass.revision]
    /\ pass' = NoPass
    /\ UNCHANGED << attempted, facts, misread >>

Next ==
    \/ Learn
    \/ \E n \in Names :
          \/ Open(n)
          \/ Strike(n)
          \/ \E r \in DOMAIN Due[n] : Begin(n, r)
    \/ Misread
    \/ Announce
    \/ Enter

Spec == Init /\ [][Next]_vars

=============================================================================

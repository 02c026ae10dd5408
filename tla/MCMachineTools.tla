----------------------------- MODULE MCMachineTools -----------------------------
(* Sets and symmetry for the runs of MachineTools.                             *)
EXTENDS MachineTools, TLC

CONSTANTS r1, r2, m1, m2, h1, h2

TwoRuns     == {r1, r2}
TwoMachines == {m1, m2}
TwoHosts    == {h1, h2}

\* One whose user has sudo and that has Supervisor: its scripts are run by
\* either account, and its services are started by Supervisor too.
OneImage == {[rights |-> "sudo", procps |-> TRUE, supervisor |-> TRUE]}

\* Whatever the container's user may do, with and without ps and Supervisor.
AllImages == [rights : {"none", "sudo", "root"}, procps : BOOLEAN,
              supervisor : BOOLEAN]

OneMachine == {m1}
OneHost    == {h1}

\* One run's keys are a file of the host.
OneHostFile == {r2}

\* Behaviours need not be followed once every run is contested: nothing is
\* claimed of contested runs, and they stay so.
SomeUncontested == contested # Run

Symmetry ==
    Permutations(TwoRuns) \cup Permutations(TwoMachines) \cup Permutations(TwoHosts)
=============================================================================

------------------------------ MODULE Entrypoint ------------------------------
(***************************************************************************)
(* The gateway's container: src/entrypoint.sh under tini, started again by *)
(* Docker whenever it has ended (docker-compose.yml: unless-stopped).  It  *)
(* starts tailscaled, waits for it for a while, joins the tailnet with an  *)
(* auth key and becomes the tunnel client.                                 *)
(*                                                                         *)
(* The key may be good for one use.  What the node is on the tailnet is    *)
(* kept in a volume, which outlives the container.                         *)
(***************************************************************************)
EXTENDS Naturals

CONSTANTS
    MaxPolls,   \* how often the script looks for tailscaled; 30 in the code
    MaxFaults   \* a bound on the faults

ASSUME MaxPollsAssumption == MaxPolls \in Nat \ {0}
ASSUME MaxFaultsAssumption == MaxFaults \in Nat

VARIABLES
    configured, \* the three required environment variables are set
    phase,      \* where the script stands
    polls,      \* how often it has looked for tailscaled
    tailscaled, \* tailscaled runs
    identity,   \* tailscaled.state holds a node the tailnet accepts
    authkey,    \* TS_AUTHKEY is still good
    faults      \* how many faults there were

entrypointVars ==
    <<configured, phase, polls, tailscaled, identity, authkey, faults>>

EntrypointTypeOK ==
    /\ configured \in BOOLEAN
    /\ phase      \in {"down", "starting", "waiting", "joining", "serving"}
    /\ polls      \in 0..MaxPolls
    /\ tailscaled \in BOOLEAN
    /\ identity   \in BOOLEAN
    /\ authkey    \in BOOLEAN
    /\ faults     \in 0..MaxFaults

\* The volume may be from an earlier container.
EntrypointInit ==
    /\ configured \in BOOLEAN
    /\ phase      = "down"
    /\ polls      = 0
    /\ tailscaled = FALSE
    /\ identity   \in BOOLEAN
    /\ authkey    \in BOOLEAN
    /\ faults     = 0

-----------------------------------------------------------------------------
(***************************************************************************)
(* The script.                                                             *)
(***************************************************************************)
Fault == faults < MaxFaults /\ faults' = faults + 1

\* The container ends with all its processes; the volume stays.
Down ==
    /\ phase' = "down"
    /\ polls' = 0
    /\ tailscaled' = FALSE
    /\ UNCHANGED configured

\* Docker starts the container.
Boot ==
    /\ phase = "down"
    /\ phase' = "starting"
    /\ UNCHANGED <<configured, polls, tailscaled, identity, authkey, faults>>

\* Mutant of StartTailscaled: the state is not kept in the volume.
StartTailscaledFresh ==
    /\ phase = "starting"
    /\ configured
    /\ phase' = "waiting"
    /\ tailscaled' = TRUE
    /\ identity' = FALSE
    /\ polls' = 0
    /\ UNCHANGED <<configured, authkey, faults>>

StartTailscaled ==
    /\ phase = "starting"
    /\ configured
    /\ phase' = "waiting"
    /\ tailscaled' = TRUE
    /\ polls' = 0
    /\ UNCHANGED <<configured, identity, authkey, faults>>

\* A required variable is not set.
Unconfigured ==
    /\ phase = "starting"
    /\ ~configured
    /\ Down
    /\ UNCHANGED <<identity, authkey, faults>>

\* tailscale status succeeds once the node is on the tailnet again.
PollSucceeds ==
    /\ phase = "waiting"
    /\ tailscaled /\ identity
    /\ phase' = "joining"
    /\ polls' = 0
    /\ UNCHANGED <<configured, tailscaled, identity, authkey, faults>>

\* Mutant of PollFails: it looks once more than its loop lets it.
PollFailsAgain ==
    /\ phase = "waiting"
    /\ \/ /\ polls <= MaxPolls
          /\ polls' = polls + 1
          /\ UNCHANGED phase
       \/ /\ polls > MaxPolls
          /\ polls' = 0
          /\ phase' = "joining"
    /\ UNCHANGED <<configured, tailscaled, identity, authkey, faults>>

\* It fails as long as tailscaled comes up, and as long as the node is logged
\* out, as before the first join.  After the last time the script goes on.
PollFails ==
    /\ phase = "waiting"
    /\ \/ /\ polls < MaxPolls
          /\ polls' = polls + 1
          /\ UNCHANGED phase
       \/ /\ polls = MaxPolls
          /\ polls' = 0
          /\ phase' = "joining"
    /\ UNCHANGED <<configured, tailscaled, identity, authkey, faults>>

\* A node that is logged in needs no key; one that is not uses it, perhaps up.
Joined ==
    /\ tailscaled
    /\ identity' = TRUE
    /\ \/ identity /\ UNCHANGED authkey
       \/ ~identity /\ authkey /\ authkey' \in BOOLEAN

\* tailscale up succeeds, and exec makes the script the tunnel client: its
\* trap is gone, and nothing looks after tailscaled from here on.
Up ==
    /\ phase = "joining"
    /\ Joined
    /\ phase' = "serving"
    /\ UNCHANGED <<configured, polls, tailscaled, faults>>

\* Mutant of UpRefused: the script tries again instead of ending.
UpRetried ==
    /\ phase = "joining"
    /\ ~tailscaled \/ ~(identity \/ authkey)
    /\ phase' = "waiting"
    /\ polls' = 0
    /\ UNCHANGED <<configured, tailscaled, identity, authkey, faults>>

\* set -e: tailscale up cannot succeed.
UpRefused ==
    /\ phase = "joining"
    /\ ~tailscaled \/ ~(identity \/ authkey)
    /\ Down
    /\ UNCHANGED <<identity, authkey, faults>>

-----------------------------------------------------------------------------
(***************************************************************************)
(* Faults.                                                                 *)
(***************************************************************************)

\* tailscale up fails, perhaps after the node has joined.
UpFails ==
    /\ phase = "joining"
    /\ Fault
    /\ Joined \/ UNCHANGED <<identity, authkey>>
    /\ Down

\* tailscaled dies under the script or the tunnel client.
TailscaledDies ==
    /\ tailscaled
    /\ Fault
    /\ tailscaled' = FALSE
    /\ UNCHANGED <<configured, phase, polls, identity, authkey>>

\* The tunnel client ends, or Docker or its host goes down and comes back.
ContainerEnds ==
    /\ phase # "down"
    /\ Fault
    /\ Down
    /\ UNCHANGED <<identity, authkey>>

-----------------------------------------------------------------------------
Script ==
    \/ Boot \/ Unconfigured \/ StartTailscaled
    \/ PollSucceeds \/ PollFails
    \/ Up \/ UpRefused

EntrypointNext ==
    Script \/ UpFails \/ TailscaledDies \/ ContainerEnds
=============================================================================

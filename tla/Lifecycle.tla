------------------------------ MODULE Lifecycle ------------------------------
(***************************************************************************)
(* What a connection lets the tasks around it see of its life cycle:       *)
(* ConnectionState of src/aslmp/connection.py and the opens in progress.   *)
(* Connection implements it (Connection.tla, Refines), and Supervisor is   *)
(* built on it, without gate, socket and wire.                             *)
(***************************************************************************)
CONSTANT Opener     \* tasks that open, reopen and prove the connection

VARIABLES
    state,      \* Connection._state
    opening     \* openers inside `transport.open`

lifeVars == <<state, opening>>

State == {"NEW", "CONNECTING", "OPEN", "READY", "FAILED", "CLOSED"}

\* `ConnectionState.usable`: a transaction may be submitted.
Usable == state \in {"OPEN", "READY"}

LifeTypeOK == state \in State /\ opening \subseteq Opener

LifeInit == state = "NEW" /\ opening = {}

BeginOpening(o) ==
    /\ state' = "CONNECTING"
    /\ opening' = opening \cup {o}

\* `open`, legal only from NEW.
Open(o) == state = "NEW" /\ BeginOpening(o)

\* `reopen`, legal from everything but CLOSED.
Reopen(o) == state # "CLOSED" /\ o \notin opening /\ BeginOpening(o)

\* The socket is up and the connection was not closed meanwhile.
Opened(o) ==
    /\ o \in opening /\ state # "CLOSED"
    /\ state' = "OPEN"
    /\ opening' = opening \ {o}

\* The open failed, or came too late: CLOSED stays, anything else is FAILED.
NotOpened(o) ==
    /\ o \in opening
    /\ state' = IF state = "CLOSED" THEN state ELSE "FAILED"
    /\ opening' = opening \ {o}

\* `confirm`, legal only from OPEN.
Prove ==
    /\ state = "OPEN"
    /\ state' = "READY"
    /\ UNCHANGED opening

\* `note_failure` and `retire_after_silent_exchange`: CLOSED and FAILED stay.
Fail ==
    /\ state \notin {"NEW", "CLOSED", "FAILED"}
    /\ state' = "FAILED"
    /\ UNCHANGED opening

\* `aclose`, idempotent.
Close ==
    /\ state # "CLOSED"
    /\ state' = "CLOSED"
    /\ UNCHANGED opening

LifeNext ==
    \/ \E o \in Opener : Open(o) \/ Reopen(o) \/ Opened(o) \/ NotOpened(o)
    \/ Prove \/ Fail \/ Close

LifeSpec == LifeInit /\ [][LifeNext]_lifeVars
=============================================================================

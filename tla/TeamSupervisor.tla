--------------------------- MODULE TeamSupervisor ---------------------------
(***************************************************************************)
(* The supervisor of the orchestrator, scripts/ai_team_external_           *)
(* supervisor.py.                                                          *)
(*                                                                         *)
(* A systemd timer starts a cycle of the orchestrator; the cycle mirrors   *)
(* its state to a status issue.  The supervisor, a program of its own that *)
(* can be killed between any two of its steps, looks at the timer, at the  *)
(* service and at the mirror, names a fault, and restarts the orchestrator *)
(* within a budget it keeps in a file.                                     *)
(*                                                                         *)
(* Time is kept as ages, counted up to one more than the threshold they    *)
(* are compared with, so that the model runs for ever.                     *)
(***************************************************************************)
EXTENDS Integers

CONSTANTS
    StaleAfter,       \* STATUS_STALE_SECONDS
    NoProgressAfter,  \* NO_PROGRESS_SECONDS
    HangAfter,        \* SERVICE_HANG_SECONDS
    Cooldown,         \* RECOVERY_COOLDOWN_SECONDS
    MaxRecoveryAttempts, \* MAX_RECOVERY_ATTEMPTS
    Materials,        \* how far the mirrored state can get
    MaxSupFaults,     \* bound on the faults of the environment
    MaxSupKills       \* bound on the kills of the supervisor

ASSUME SupervisorAssumption ==
    /\ {StaleAfter, NoProgressAfter, HangAfter, Cooldown, MaxSupFaults, MaxSupKills} \subseteq Nat
    /\ {MaxRecoveryAttempts, Materials} \subseteq Nat \ {0}

VARIABLES
    timerUp,     \* the timer is enabled and active
    service,     \* the running cycle: [on, age, hung]
    board,       \* the status issue: [beat, mat, actionable]; beat is the age of the heartbeat
    saved,       \* state.json: [mat, since, incident]
    suPc,        \* the running check of the supervisor
    restarts,    \* history: the fault last decided upon, and the restarts it cost in a row
    supFaults,   \* how many faults the environment has made
    supKills     \* how many checks were killed

suVars == <<timerUp, service, board, saved, suPc, restarts, supFaults, supKills>>

Older(age, threshold) == IF age > threshold THEN age ELSE age + 1
Unreadable == -1                    \* the issue has no heartbeat or no payload
NoService == [on |-> FALSE, age |-> 0, hung |-> FALSE]
NewService == [on |-> TRUE, age |-> 0, hung |-> FALSE]
NoSuIncident == [kind |-> "none", mat |-> 0, attempts |-> 0, last |-> Cooldown + 1,
               escalated |-> FALSE]
NoRestarts == [kind |-> "none", mat |-> 0, n |-> 0]
SuIdle == [at |-> "idle", timer |-> TRUE, on |-> FALSE, kind |-> "none",
         mem |-> [mat |-> 0, since |-> 0, incident |-> NoSuIncident]]

-----------------------------------------------------------------------------
(* The orchestrator and its surroundings, as the supervisor sees them.     *)

TimerFires ==
    /\ timerUp /\ ~service.on
    /\ service' = NewService
    /\ UNCHANGED <<timerUp, board, saved, suPc, restarts, supFaults, supKills>>

(* A cycle mirrors its state, with or without progress.                    *)
CycleMirrors ==
    /\ service.on /\ ~service.hung
    /\ \E mat \in {board.mat, board.mat + 1}, a \in BOOLEAN :
        /\ mat <= Materials
        /\ board' = [beat |-> 0, mat |-> mat, actionable |-> a]
    /\ UNCHANGED <<timerUp, service, saved, suPc, restarts, supFaults, supKills>>

(* A cycle ends, perhaps without having mirrored anything.                 *)
CycleEnds ==
    /\ service.on /\ ~service.hung
    /\ service' = NoService
    /\ UNCHANGED <<timerUp, board, saved, suPc, restarts, supFaults, supKills>>

Fault ==
    /\ supFaults < MaxSupFaults
    /\ supFaults' = supFaults + 1
    /\ \/ timerUp /\ timerUp' = FALSE /\ UNCHANGED <<service, board>>
       \/ service.on /\ service' = [service EXCEPT !.hung = TRUE]
          /\ UNCHANGED <<timerUp, board>>
       \/ board' = [board EXCEPT !.beat = Unreadable] /\ UNCHANGED <<timerUp, service>>
    /\ UNCHANGED <<saved, suPc, restarts, supKills>>

(* The thresholds are minutes, a check is over in seconds.                 *)
Tick ==
    /\ suPc.at = "idle"
    /\ service' = IF service.on THEN [service EXCEPT !.age = Older(@, HangAfter)] ELSE service
    /\ board' = IF board.beat = Unreadable THEN board
                ELSE [board EXCEPT !.beat = Older(@, StaleAfter)]
    /\ saved' = [saved EXCEPT !.since = Older(@, NoProgressAfter),
                              !.incident.last = Older(@, Cooldown)]
    /\ UNCHANGED <<timerUp, suPc, restarts, supFaults, supKills>>

-----------------------------------------------------------------------------
(* A check of the supervisor.                                              *)

(* update_material_clock, on the mirrored payload.                         *)
MaterialClock ==
    IF saved.mat = board.mat THEN saved ELSE [saved EXCEPT !.mat = board.mat, !.since = 0]

(* determine_fault, without the local part.                                *)
RuntimeFault ==
    CASE board.beat = Unreadable -> "RUNTIME_STATUS_UNPARSEABLE"
      [] board.beat > StaleAfter -> "RUNTIME_STATUS_STALE"
      [] board.beat \in 0 .. StaleAfter /\ board.actionable
         /\ MaterialClock.since > NoProgressAfter -> "ACTIONABLE_NO_PROGRESS"
      [] OTHER -> "none"

(* The incident is known by its kind and by the material it was seen with. *)
SameIncident(i, kind, mat) == i.kind = kind /\ i.mat = mat

(* recovery_allowed, before persist_incident opens a new incident.         *)
UnderBudget(i, kind, mat) ==
    SameIncident(i, kind, mat) => i.attempts < MaxRecoveryAttempts /\ i.last >= Cooldown

Opened(i, kind, mat) ==
    IF SameIncident(i, kind, mat) THEN i
    ELSE [NoSuIncident EXCEPT !.kind = kind, !.mat = mat]

(* main: the incident is kept; then either the state is saved as it is, or *)
(* a recovery follows.                                                     *)
Decide(kind, mat, mem, timer, on) ==
    LET i    == Opened(mem.incident, kind, mat)
        kept == [mem EXCEPT !.incident = i]
    IN  /\ restarts' = IF SameIncident(restarts, kind, mat) THEN restarts
                       ELSE [kind |-> kind, mat |-> mat, n |-> 0]
        /\ IF UnderBudget(mem.incident, kind, mat)
           THEN /\ suPc' = [at |-> "recover", timer |-> timer, on |-> on, kind |-> kind,
                            mem |-> kept]
                /\ UNCHANGED saved
           ELSE /\ suPc' = SuIdle
                /\ saved' = [kept EXCEPT !.incident.escalated =
                                 @ \/ i.attempts >= MaxRecoveryAttempts]

(* local_control_fault needs no mirror.  A healthy-looking host goes on to *)
(* read it; what was seen of the host is used to the end of the check.     *)
CheckHostMirrorOnly ==
    /\ suPc.at = "idle"
    /\ suPc' = [SuIdle EXCEPT !.at = "fetch", !.on = service.on]
    /\ UNCHANGED <<timerUp, service, board, saved, restarts, supFaults, supKills>>
CheckHost ==
    /\ suPc.at = "idle"
    /\ IF ~timerUp THEN Decide("ORCHESTRATOR_TIMER_DOWN", 0, saved, FALSE, service.on)
       ELSE IF service.on /\ service.age > HangAfter
       THEN Decide("ORCHESTRATOR_SERVICE_HUNG", 0, saved, TRUE, TRUE)
       ELSE /\ suPc' = [SuIdle EXCEPT !.at = "fetch", !.on = service.on]
            /\ UNCHANGED <<saved, restarts>>
    /\ UNCHANGED <<timerUp, service, board, supFaults, supKills>>

(* The mirror may not be reachable; healthy_state closes the incident.     *)
CheckMirror ==
    /\ suPc.at = "fetch"
    /\ \/ suPc' = SuIdle /\ UNCHANGED <<saved, restarts>>
       \/ /\ RuntimeFault = "none"
          /\ saved' = [MaterialClock EXCEPT !.incident = NoSuIncident]
          /\ restarts' = NoRestarts /\ suPc' = SuIdle
       \/ /\ RuntimeFault # "none"
          /\ Decide(RuntimeFault, IF board.beat = Unreadable THEN 0 ELSE board.mat,
                    IF RuntimeFault = "ACTIONABLE_NO_PROGRESS" THEN MaterialClock ELSE saved,
                    TRUE, suPc.on)
    /\ UNCHANGED <<timerUp, service, board, supFaults, supKills>>

(* recover: what it does follows what was seen, each systemctl call may    *)
(* fail, and record_recovery_outcome counts all but a deferral.            *)
OutcomeUncounted(counted) ==
    suPc' = [suPc EXCEPT !.at = "save", !.mem.incident.last = IF counted THEN 0 ELSE @]
Counted(i) == [i EXCEPT !.attempts = i.attempts + 1, !.last = 0]
Outcome(counted) ==
    suPc' = [suPc EXCEPT !.at = "save", !.mem.incident = IF counted THEN Counted(@) ELSE @]
Deferred == suPc.on /\ suPc.kind # "ORCHESTRATOR_SERVICE_HUNG"
RecoverHost ==
    /\ suPc.at = "recover"
    /\ timerUp' \in {timerUp} \cup (IF suPc.timer THEN {} ELSE {TRUE})
    /\ IF ~suPc.timer /\ ~timerUp'
       THEN Outcome(TRUE) /\ UNCHANGED <<service, restarts>>
       ELSE IF Deferred THEN Outcome(FALSE) /\ UNCHANGED <<service, restarts>>
       ELSE /\ Outcome(TRUE)
            /\ \/ UNCHANGED <<service, restarts>>       \* the stop or the start failed
               \/ /\ restarts' = [restarts EXCEPT !.n = @ + 1]
                  /\ service' = IF service.on /\ ~suPc.on THEN service ELSE NewService
    /\ UNCHANGED <<board, saved, supFaults, supKills>>

Save ==
    /\ suPc.at = "save"
    /\ saved' = suPc.mem
    /\ suPc' = SuIdle
    /\ UNCHANGED <<timerUp, service, board, restarts, supFaults, supKills>>

(* A check is killed: what it has not saved is forgotten.                  *)
KillCheck ==
    /\ supKills < MaxSupKills /\ suPc.at # "idle"
    /\ suPc' = SuIdle
    /\ supKills' = supKills + 1
    /\ UNCHANGED <<timerUp, service, board, saved, restarts, supFaults>>

SupInit ==
    /\ timerUp = TRUE /\ service = NoService
    /\ board = [beat |-> 0, mat |-> 1, actionable |-> FALSE]
    /\ saved = [mat |-> 1, since |-> 0, incident |-> NoSuIncident]
    /\ suPc = SuIdle /\ restarts = NoRestarts
    /\ supFaults = 0 /\ supKills = 0

Supervise == CheckHost \/ CheckMirror \/ RecoverHost \/ Save
SupNext ==
    \/ TimerFires \/ CycleMirrors \/ CycleEnds \/ Fault \/ Tick
    \/ Supervise \/ KillCheck
SupSpec == SupInit /\ [][SupNext]_suVars

-----------------------------------------------------------------------------
(* Properties.                                                             *)

(* Type invariant.                                                         *)
SupTypeOK ==
    /\ timerUp \in BOOLEAN /\ service.age \in 0 .. HangAfter + 1
    /\ board.beat \in -1 .. StaleAfter + 1 /\ board.mat \in 1 .. Materials
    /\ saved.mat \in 0 .. Materials /\ saved.since \in 0 .. NoProgressAfter + 1
    /\ saved.incident.attempts \in 0 .. MaxRecoveryAttempts
    /\ saved.incident.last \in 0 .. Cooldown + 1
    /\ suPc.at \in {"idle", "fetch", "recover", "save"}
    /\ supKills \in 0 .. MaxSupKills

(* A fault that does not go away is not answered with a restart loop: one  *)
(* incident costs at most the budget, and one more restart for every check *)
(* that was killed between the restart and its record.                     *)
RestartBudget == restarts.n <= MaxRecoveryAttempts + supKills

(* A host that does not recover costs no more restarts than its budget.    *)
RestartsBounded == SupTypeOK /\ RestartBudget

(* A timer that went down comes back and a hung cycle is ended, or the     *)
(* supervisor has escalated.                                               *)
HostRecovers == []<>((timerUp /\ ~service.hung) \/ saved.incident.escalated)

=============================================================================

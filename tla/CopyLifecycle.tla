---------------------------- MODULE CopyLifecycle ----------------------------
(***************************************************************************)
(* What the executor promises about the copy of one source trade: it is    *)
(* entered at most once, an exposure that its source has closed can only   *)
(* wait for its close, and a closed copy is closed for good.  The promise  *)
(* ends for a source ("lapsed") when a crash tears one of its calls or a   *)
(* bounded dedupe window forgets one of its keys.                          *)
(***************************************************************************)
CONSTANT Source

VARIABLE phase

Phases == {"none", "held", "unresolved", "closed", "lapsed"}

(* A copy only moves forward. *)
Forward ==
    {<<"none", "held">>, <<"none", "closed">>, <<"held", "unresolved">>,
     <<"held", "closed">>, <<"unresolved", "closed">>}

Init == phase = [b \in Source |-> "none"]

(***************************************************************************)
(* One copy moves forward, or stays; sources may lapse in the same step.   *)
(***************************************************************************)
Advance(b, to, lapsing) ==
    /\ to = phase[b] \/ <<phase[b], to>> \in Forward
    /\ phase' = [c \in Source |-> IF c \in lapsing THEN "lapsed"
                                  ELSE IF c = b THEN to ELSE phase[c]]

Next == \E b \in Source, to \in Phases, lapsing \in SUBSET Source : Advance(b, to, lapsing)

Spec == Init /\ [][Next]_phase

=============================================================================

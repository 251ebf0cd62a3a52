---------------------------- MODULE TapeLifecycle ----------------------------
(***************************************************************************)
(* scripts/market_tape_lifecycle.py: old partitions of the market tape are *)
(* merged, one reviewed group of source files after the other.  A commit   *)
(* marker is written before the merged file takes its name, so that resume *)
(* can finish a group that was cut short.  The program may be killed       *)
(* before any of its steps, also while it resumes.                         *)
(*                                                                         *)
(* One partition is modelled, whose sources no writer touches any more;    *)
(* the rows of a source are one value, its number.  Hashes are compared    *)
(* by what they are the hash of.                                           *)
(***************************************************************************)
EXTENDS Integers, FiniteSets, Sequences, SequencesExt

CONSTANTS
    Sources,      \* the source files, in the order of their names
    GroupSize,    \* max_group_bytes, in files
    MaxOutputs,   \* bound on the files that are written
    MaxTlKills    \* bound on kills

ASSUME LifecycleAssumption ==
    /\ Sources \subseteq Nat /\ IsFiniteSet(Sources)
    /\ {GroupSize, MaxOutputs, MaxTlKills} \subseteq Nat /\ GroupSize > 0

VARIABLES
    sources,    \* the source files that are there
    outputs,    \* the merged files under their final name: name -> rows
    temps,      \* the merged files under their temporary name: name -> rows
    marker,     \* .lifecycle-commit.json
    sidecar,    \* _lifecycle.json: the groups that were recorded
    manifest,   \* the reviewed plan: the groups
    tape,       \* the running program: [at, groups, out]
    tlKills

tlVars == <<sources, outputs, temps, marker, sidecar, manifest, tape, tlKills>>

NoMarker == [out |-> 0, rows |-> {}]
TapeIdle == [at |-> "idle", groups |-> <<>>, out |-> 0]
Written == DOMAIN outputs \cup DOMAIN temps
NextOutput == Cardinality(Written) + 1
Put(f, k, v) == [n \in DOMAIN f \cup {k} |-> IF n = k THEN v ELSE f[n]]
Drop(f, k) == [n \in DOMAIN f \ {k} |-> f[n]]

-----------------------------------------------------------------------------
(* build_plan: the sources that are there, in chunks; an output of an      *)
(* earlier run is no source.                                               *)
Chunks(s) ==
    [n \in 1 .. (Cardinality(s) + GroupSize - 1) \div GroupSize |->
        {f \in s : (Cardinality({g \in s : g < f}) \div GroupSize) + 1 = n}]
TapePlan ==
    /\ tape.at = "idle" /\ sources # {}
    /\ manifest' = Chunks(sources)
    /\ UNCHANGED <<sources, outputs, temps, marker, sidecar, tape, tlKills>>

-----------------------------------------------------------------------------
(* apply, and _compact_group for each of its groups.                       *)

Group == Head(tape.groups)
TapeFails == tape' = TapeIdle
GroupDone ==
    tape' = IF Len(tape.groups) = 1 THEN TapeIdle
            ELSE [TapeIdle EXCEPT !.at = "check", !.groups = Tail(tape.groups)]

TapeApply ==
    /\ tape.at = "idle" /\ manifest # <<>>
    /\ tape' = [TapeIdle EXCEPT !.at = "check", !.groups = manifest]
    /\ UNCHANGED <<sources, outputs, temps, marker, sidecar, manifest, tlKills>>

(* A group whose sources are gone must be on record with its output; any   *)
(* other group must have every source.  The free bytes may be too few.     *)
AlreadyApplied == Group \cap sources = {} /\ \E r \in sidecar : r.rows = Group
CheckGroup ==
    /\ tape.at = "check"
    /\ IF AlreadyApplied THEN GroupDone
       ELSE \/ TapeFails
            \/ Group \subseteq sources /\ NextOutput <= MaxOutputs
               /\ tape' = [tape EXCEPT !.at = "write", !.out = NextOutput]
    /\ UNCHANGED <<sources, outputs, temps, marker, sidecar, manifest, tlKills>>

(* The merged frame is written, forced to disk and read back.              *)
WriteOutput ==
    /\ tape.at = "write"
    /\ temps' = Put(temps, tape.out, Group)
    /\ tape' = [tape EXCEPT !.at = "mark"]
    /\ UNCHANGED <<sources, outputs, marker, sidecar, manifest, tlKills>>
Mark ==
    /\ tape.at = "mark"
    /\ marker' = [out |-> tape.out, rows |-> Group]
    /\ tape' = [tape EXCEPT !.at = "rename"]
    /\ UNCHANGED <<sources, outputs, temps, sidecar, manifest, tlKills>>
Rename ==
    /\ tape.at \in {"rename", "resume rename"}
    /\ outputs' = Put(outputs, marker.out, temps[marker.out])
    /\ temps' = Drop(temps, marker.out)
    /\ tape' = [tape EXCEPT !.at = IF @ = "rename" THEN "unlink" ELSE "resume unlink"]
    /\ UNCHANGED <<sources, marker, sidecar, manifest, tlKills>>
Unlink ==
    /\ tape.at \in {"unlink", "resume unlink"}
    /\ IF marker.rows \cap sources # {}
       THEN /\ \E f \in marker.rows \cap sources :
                    (\A g \in marker.rows \cap sources : f <= g) /\ sources' = sources \ {f}
            /\ UNCHANGED tape
       ELSE tape' = [tape EXCEPT !.at = IF @ = "unlink" THEN "record" ELSE "resume record"]
            /\ UNCHANGED sources
    /\ UNCHANGED <<outputs, temps, marker, sidecar, manifest, tlKills>>
Record ==
    /\ tape.at \in {"record", "resume record"}
    /\ sidecar' = sidecar \cup {marker}
    /\ tape' = [tape EXCEPT !.at = IF @ = "record" THEN "unmark" ELSE "resume unmark"]
    /\ UNCHANGED <<sources, outputs, temps, marker, manifest, tlKills>>
Unmark ==
    /\ tape.at \in {"unmark", "resume unmark"}
    /\ marker' = NoMarker
    /\ IF tape.at = "unmark" THEN GroupDone ELSE TapeFails
    /\ UNCHANGED <<sources, outputs, temps, sidecar, manifest, tlKills>>

-----------------------------------------------------------------------------
(* resume: a verified output gets its name and its sources are removed; a  *)
(* marker without an output is taken back.                                 *)
ResumeUnlinks == "resume unlink"
ResumeAt ==
    IF marker.out \in DOMAIN outputs THEN "resume unlink"
    ELSE IF marker.out \in DOMAIN temps THEN "resume rename" ELSE "resume unmark"
Resume ==
    /\ tape.at = "idle" /\ marker # NoMarker
    /\ tape' = [TapeIdle EXCEPT !.at = ResumeAt]
    /\ UNCHANGED <<sources, outputs, temps, marker, sidecar, manifest, tlKills>>

KillTape ==
    /\ tlKills < MaxTlKills /\ tape.at # "idle"
    /\ tlKills' = tlKills + 1
    /\ TapeFails
    /\ UNCHANGED <<sources, outputs, temps, marker, sidecar, manifest>>

LifecycleInit ==
    /\ sources = Sources
    /\ outputs = <<>> /\ temps = <<>> /\ marker = NoMarker
    /\ sidecar = {} /\ manifest = <<>> /\ tape = TapeIdle /\ tlKills = 0

Steps == CheckGroup \/ WriteOutput \/ Mark \/ Rename \/ Unlink \/ Record \/ Unmark
LifecycleNext == TapePlan \/ TapeApply \/ Steps \/ Resume \/ KillTape
LifecycleSpec == LifecycleInit /\ [][LifecycleNext]_tlVars

-----------------------------------------------------------------------------
(* Properties.                                                             *)

(* Type invariant; what is on record can be read, and its sources are gone. *)
LifecycleTypeOK ==
    /\ sources \subseteq Sources /\ tlKills \in 0 .. MaxTlKills
    /\ Written \subseteq 1 .. MaxOutputs
    /\ \A r \in sidecar :
        r.out \in DOMAIN outputs /\ outputs[r.out] = r.rows /\ r.rows \cap sources = {}

(* However often the program is killed, resumed and started again, the     *)
(* rows of every source are in a file that readers read.                   *)
NoRowLost == \A f \in Sources : f \in sources \/ \E n \in DOMAIN outputs : f \in outputs[n]

(* The documented promise is of identical row totals: a group that an      *)
(* apply completes is in the partition once.                               *)
RowsOnce ==
    tape.at = "unmark" =>
        \A f \in Group : Cardinality({n \in DOMAIN outputs : f \in outputs[n]}) = 1

=============================================================================

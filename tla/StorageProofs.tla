---------------------------- MODULE StorageProofs ----------------------------
(***************************************************************************)
(* Proofs about the storage programs: no row of the tape is lost           *)
(* (TapeLifecycle), a reset keeps the epochs apart (ShadowReset),          *)
(* compaction loses nothing (StorageCompaction), the mount never fills     *)
(* (StoragePressure), and an apply deletes what was approved               *)
(* (StorageRetention).                                                     *)
(*                                                                         *)
(* Each has an inductive invariant of its own.  LifecycleInv adds to       *)
(* NoRowLost where the merged rows are at each point of a merge: Files     *)
(* says how output files are named and numbered, Marked what the marker    *)
(* vouches for.  ResetInv adds that tombstones are of epochs that are over *)
(* and what a cut reset has written.  CompactionInv adds that a body whose *)
(* observation was blanked is in the payloads (Tables) and that what was   *)
(* reviewed still holds at the rebuild (Reviewed).  PressureInv adds what  *)
(* the mount can have grown by since each observation (Observed), and      *)
(* RetentionInv what a review knows of the manifest (Knows) and that what  *)
(* a running apply has still to do was approved (Approving).               *)
(***************************************************************************)
EXTENDS TapeLifecycle, ShadowReset, StorageCompaction, StoragePressure, StorageRetention,
        FiniteSetTheorems, SequenceTheorems, TLAPS

-----------------------------------------------------------------------------
(* TapeLifecycle.                                                          *)

Rows == SUBSET Sources

Working == {"check", "write", "mark", "rename", "unlink", "record", "unmark"}
Resuming == {"resume rename", "resume unlink", "resume record", "resume unmark"}

TapeShape ==
    /\ tape \in [at : {"idle"} \cup Working \cup Resuming, groups : Seq(Rows), out : Nat]
    /\ manifest \in Seq(Rows)
    /\ marker \in [out : Nat, rows : Rows]
    /\ tape.at \in Working => tape.groups # <<>>

(* A file has its temporary or its final name; names are given in order.   *)
Files ==
    /\ DOMAIN outputs \cap DOMAIN temps = {}
    /\ \A n \in DOMAIN outputs : outputs[n] \in Rows
    /\ \A n \in DOMAIN temps : temps[n] \in Rows
    /\ \E k \in 0 .. MaxOutputs :
        /\ Written = 1 .. k
        /\ tape.at = "write" => tape.out = k + 1 /\ k < MaxOutputs
    /\ tape.at = "mark" => tape.out \in DOMAIN temps /\ temps[tape.out] = Group

(* The marker names a file that holds the rows of its group.               *)
Backed(files) == marker.out \in DOMAIN files /\ files[marker.out] = marker.rows
Marked ==
    /\ marker # NoMarker => Backed(outputs) \/ Backed(temps)
    /\ tape.at \in {"rename", "resume rename"} => Backed(temps)
    /\ tape.at \in {"unlink", "record", "resume unlink", "resume record"} => Backed(outputs)
    /\ tape.at \in {"record", "resume record"} => marker.rows \cap sources = {}

LifecycleInv == LifecycleTypeOK /\ TapeShape /\ Files /\ Marked /\ NoRowLost

LEMMA ChunksTyped ==
  ASSUME NEW s \in SUBSET Sources
  PROVE Chunks(s) \in Seq(Rows)
<1>. DEFINE n == (Cardinality(s) + GroupSize - 1) \div GroupSize
<1>1. Cardinality(s) \in Nat
  BY LifecycleAssumption, FS_Subset, FS_CardinalityType
<1>2. n \in Nat
  BY <1>1, LifecycleAssumption
<1>. HIDE DEF n
<1>3. \A i \in 1 .. n :
        {f \in s : (Cardinality({g \in s : g < f}) \div GroupSize) + 1 = i} \in Rows
  BY DEF Rows
<1>4. Chunks(s) = [i \in 1 .. n |->
        {f \in s : (Cardinality({g \in s : g < f}) \div GroupSize) + 1 = i}]
  BY DEF Chunks, n
<1>. QED BY <1>2, <1>3, <1>4

(* A group ends.                                                           *)
LEMMA EndsTyped ==
  ASSUME TapeShape
  PROVE /\ TapeFails => tape'.at = "idle" /\ tape' \in [at : {"idle"}, groups : Seq(Rows), out : Nat]
        /\ tape.at \in Working /\ GroupDone =>
              /\ tape'.at \in {"idle", "check"}
              /\ tape' \in [at : {"idle", "check"}, groups : Seq(Rows), out : Nat]
              /\ tape'.at = "check" => tape'.groups # <<>>
<1>1. TapeFails => tape'.at = "idle" /\ tape' \in [at : {"idle"}, groups : Seq(Rows), out : Nat]
  BY DEF TapeFails, TapeIdle
<1>2. ASSUME tape.at \in Working, GroupDone
      PROVE /\ tape'.at \in {"idle", "check"}
            /\ tape' \in [at : {"idle", "check"}, groups : Seq(Rows), out : Nat]
            /\ tape'.at = "check" => tape'.groups # <<>>
  <2>1. CASE Len(tape.groups) = 1
    BY <1>2, <2>1 DEF GroupDone, TapeIdle
  <2>2. CASE Len(tape.groups) # 1
    <3>1. tape.groups \in Seq(Rows) /\ tape.groups # <<>>
      BY <1>2 DEF TapeShape
    <3>2. Tail(tape.groups) \in Seq(Rows) /\ Tail(tape.groups) # <<>>
      <4>1. /\ Tail(tape.groups) \in Seq(Rows) /\ Len(tape.groups) \in Nat \ {0}
            /\ Len(Tail(tape.groups)) = Len(tape.groups) - 1
        BY <3>1, HeadTailProperties, EmptySeq
      <4>. DEFINE rest == Tail(tape.groups)
      <4>2. Len(rest) # 0
        BY <2>2, <4>1
      <4>3. rest # <<>>
        <5>. HIDE DEF rest
        <5>. QED BY <4>2
      <4>. QED BY <4>1, <4>3
    <3>3. tape' = [at |-> "check", groups |-> Tail(tape.groups), out |-> 0]
      BY <1>2, <2>2 DEF GroupDone, TapeIdle
    <3>. QED BY <3>2, <3>3
  <2>. QED BY <2>1, <2>2
<1>. QED BY <1>1, <1>2

(* A step that leaves the files, and ends at rest or before a group.       *)
LEMMA Rests ==
  ASSUME LifecycleInv, UNCHANGED <<sources, outputs, temps, sidecar>>,
         marker' \in {marker, NoMarker}, manifest' \in Seq(Rows), tlKills' \in 0 .. MaxTlKills,
         tape' \in [at : {"idle", "check"}, groups : Seq(Rows), out : Nat],
         tape'.at = "check" => tape'.groups # <<>>
  PROVE LifecycleInv'
<1>1. tape'.at \in {"idle", "check"}
  OBVIOUS
<1>2. Written' = Written
  BY DEF Written
<1>3. LifecycleTypeOK'
  BY <1>2 DEF LifecycleInv, LifecycleTypeOK
<1>4. NoMarker \in [out : Nat, rows : Rows]
  BY DEF NoMarker, Rows
<1>5. TapeShape'
  <2>1. tape' \in [at : {"idle"} \cup Working \cup Resuming, groups : Seq(Rows), out : Nat]
    BY DEF Working
  <2>. QED BY <1>1, <1>4, <2>1 DEF LifecycleInv, TapeShape, Working
<1>6. Files'
  BY <1>1, <1>2 DEF LifecycleInv, Files
<1>7. Marked'
  BY <1>1 DEF LifecycleInv, Marked, Backed
<1>8. NoRowLost'
  BY DEF LifecycleInv, NoRowLost
<1>. QED BY <1>3, <1>5, <1>6, <1>7, <1>8 DEF LifecycleInv

(* A step of the program that leaves the files, but one.                   *)
LEMMA TapeAt ==
  ASSUME LifecycleInv, NEW at \in {"idle"} \cup Working \cup Resuming, NEW n \in Nat,
         at \in Working => tape.at \in Working,
         tape' = [tape EXCEPT !.at = at, !.out = n]
  PROVE /\ tape' \in [at : {"idle"} \cup Working \cup Resuming, groups : Seq(Rows), out : Nat]
        /\ tape'.at = at /\ tape'.out = n /\ tape'.groups = tape.groups
        /\ tape'.at \in Working => tape'.groups # <<>>
        /\ Group' = Group
BY DEF LifecycleInv, TapeShape, Group

LEMMA LifecyclePlans ==
  ASSUME LifecycleInv, TapePlan \/ TapeApply \/ Resume \/ KillTape
  PROVE LifecycleInv'
<1>1. /\ tape \in [at : {"idle"} \cup Working \cup Resuming, groups : Seq(Rows), out : Nat]
      /\ manifest \in Seq(Rows) /\ tlKills \in 0 .. MaxTlKills
      /\ MaxTlKills \in Nat /\ sources \in SUBSET Sources
  BY LifecycleAssumption DEF LifecycleInv, TapeShape, LifecycleTypeOK
<1>2. CASE TapePlan
  <2>1. manifest' \in Seq(Rows)
    BY <1>1, <1>2, ChunksTyped DEF TapePlan
  <2>2. tape' \in [at : {"idle", "check"}, groups : Seq(Rows), out : Nat] /\ tape'.at = "idle"
    BY <1>1, <1>2 DEF TapePlan
  <2>. QED BY <1>1, <1>2, <2>1, <2>2, Rests DEF TapePlan
<1>3. CASE TapeApply
  <2>1. tape' = [at |-> "check", groups |-> manifest, out |-> 0] /\ manifest # <<>>
    BY <1>3 DEF TapeApply, TapeIdle
  <2>2. /\ tape' \in [at : {"idle", "check"}, groups : Seq(Rows), out : Nat]
        /\ tape'.groups # <<>>
    BY <1>1, <2>1
  <2>. QED BY <1>1, <1>3, <2>2, Rests DEF TapeApply
<1>4. CASE KillTape
  <2>1. /\ tape' \in [at : {"idle", "check"}, groups : Seq(Rows), out : Nat]
        /\ tape'.at = "idle" /\ tlKills' \in 0 .. MaxTlKills
    BY <1>1, <1>4 DEF KillTape, TapeFails, TapeIdle
  <2>. QED BY <1>1, <1>4, <2>1, Rests DEF KillTape
<1>5. CASE Resume
  <2>1. /\ tape' = [at |-> ResumeAt, groups |-> <<>>, out |-> 0] /\ marker # NoMarker
        /\ UNCHANGED <<sources, outputs, temps, marker, sidecar, manifest, tlKills>>
    BY <1>5 DEF Resume, TapeIdle
  <2>2. /\ ResumeAt \in {"resume unlink", "resume rename", "resume unmark"}
        /\ ResumeAt = "resume unlink" => marker.out \in DOMAIN outputs
        /\ ResumeAt = "resume rename" => marker.out \in DOMAIN temps
    BY DEF ResumeAt
  <2>3. DOMAIN outputs \cap DOMAIN temps = {} /\ (Backed(outputs) \/ Backed(temps))
    BY <2>1 DEF LifecycleInv, Files, Marked
  <2>4. /\ ResumeAt = "resume unlink" => Backed(outputs)
        /\ ResumeAt = "resume rename" => Backed(temps)
    BY <2>2, <2>3 DEF Backed
  <2>5. tape'.at \in {"resume unlink", "resume rename", "resume unmark"} /\ tape'.at = ResumeAt
    BY <2>1, <2>2
  <2>6. TapeShape'
    <3>1. tape' \in [at : {"idle"} \cup Working \cup Resuming, groups : Seq(Rows), out : Nat]
      <4>1. ResumeAt \in {"idle"} \cup Working \cup Resuming
        BY <2>2 DEF Resuming
      <4>2. <<>> \in Seq(Rows)
        OBVIOUS
      <4>. QED BY <2>1, <4>1, <4>2
    <3>. QED BY <2>1, <2>5, <3>1 DEF LifecycleInv, TapeShape, Working
  <2>7. Marked'
    BY <2>1, <2>4, <2>5 DEF LifecycleInv, Marked, Backed
  <2>8. Written' = Written
    BY <2>1 DEF Written
  <2>9. Files'
    BY <2>1, <2>5, <2>8 DEF LifecycleInv, Files
  <2>10. LifecycleTypeOK' /\ NoRowLost'
    BY <2>1, <2>8 DEF LifecycleInv, LifecycleTypeOK, NoRowLost
  <2>. QED BY <2>6, <2>7, <2>9, <2>10 DEF LifecycleInv
<1>. QED BY <1>2, <1>3, <1>4, <1>5

(* The group at hand, and its file while it is written.                    *)
LEMMA GroupTyped ==
  ASSUME LifecycleInv, tape.at \in Working
  PROVE /\ Group \in Rows /\ tape.groups \in Seq(Rows) /\ tape.groups # <<>>
        /\ tape.out \in Nat
<1>1. tape.groups \in Seq(Rows) /\ tape.groups # <<>> /\ tape.out \in Nat
  BY DEF LifecycleInv, TapeShape
<1>. QED BY <1>1, HeadTailProperties DEF Group

LEMMA LifecycleChecks ==
  ASSUME LifecycleInv, CheckGroup
  PROVE LifecycleInv'
<1>1. /\ tape.at = "check" /\ tape.at \in Working
      /\ UNCHANGED <<sources, outputs, temps, marker, sidecar, manifest, tlKills>>
  BY DEF CheckGroup, Working
<1>2. /\ manifest \in Seq(Rows) /\ tlKills \in 0 .. MaxTlKills /\ TapeShape
  BY DEF LifecycleInv, TapeShape, LifecycleTypeOK
<1>3. CASE GroupDone \/ TapeFails
  <2>1. /\ tape' \in [at : {"idle", "check"}, groups : Seq(Rows), out : Nat]
        /\ tape'.at = "check" => tape'.groups # <<>>
    BY <1>1, <1>2, <1>3, EndsTyped
  <2>. QED BY <1>1, <1>2, <2>1, Rests
<1>4. CASE NextOutput <= MaxOutputs /\ tape' = [tape EXCEPT !.at = "write", !.out = NextOutput]
  <2>1. PICK k \in 0 .. MaxOutputs : Written = 1 .. k
    BY DEF LifecycleInv, Files
  <2>2. k \in Nat /\ Cardinality(Written) = k /\ NextOutput = k + 1 /\ MaxOutputs \in Nat
    <3>1. k \in Int /\ k \in Nat /\ MaxOutputs \in Nat /\ 1 \in Int
      BY LifecycleAssumption
    <3>2. Cardinality(1 .. k) = IF 1 > k THEN 0 ELSE k - 1 + 1
      BY <3>1, FS_Interval
    <3>. QED BY <2>1, <3>1, <3>2 DEF NextOutput
  <2>3. /\ tape' \in [at : {"idle"} \cup Working \cup Resuming, groups : Seq(Rows), out : Nat]
        /\ tape'.at = "write" /\ tape'.out = k + 1
        /\ tape'.at \in Working => tape'.groups # <<>>
    <3>1. NextOutput \in Nat /\ "write" \in {"idle"} \cup Working \cup Resuming
      BY <2>2 DEF Working
    <3>2. /\ tape' \in [at : {"idle"} \cup Working \cup Resuming, groups : Seq(Rows), out : Nat]
          /\ tape'.at = "write" /\ tape'.out = NextOutput
          /\ tape'.at \in Working => tape'.groups # <<>>
      BY <1>1, <1>4, <3>1, TapeAt
    <3>. QED BY <2>2, <3>2
  <2>4. Written' = Written
    BY <1>1 DEF Written
  <2>5. Files'
    BY <1>1, <1>4, <2>1, <2>2, <2>3, <2>4 DEF LifecycleInv, Files
  <2>6. TapeShape'
    BY <1>1, <2>3 DEF LifecycleInv, TapeShape
  <2>7. Marked'
    BY <1>1, <2>3 DEF LifecycleInv, Marked, Backed
  <2>8. LifecycleTypeOK' /\ NoRowLost'
    BY <1>1, <2>4 DEF LifecycleInv, LifecycleTypeOK, NoRowLost
  <2>. QED BY <2>5, <2>6, <2>7, <2>8 DEF LifecycleInv
<1>. QED BY <1>3, <1>4 DEF CheckGroup

LEMMA LifecycleWrites ==
  ASSUME LifecycleInv, WriteOutput
  PROVE LifecycleInv'
<1>1. /\ tape.at = "write" /\ tape.at \in Working
      /\ temps' = Put(temps, tape.out, Group)
      /\ UNCHANGED <<sources, outputs, marker, sidecar, manifest, tlKills>>
  BY DEF WriteOutput, Working
<1>2. Group \in Rows /\ tape.out \in Nat
  BY <1>1, GroupTyped
<1>3. PICK k \in 0 .. MaxOutputs : Written = 1 .. k /\ tape.out = k + 1 /\ k < MaxOutputs
  BY <1>1 DEF LifecycleInv, Files
<1>4. /\ tape' \in [at : {"idle"} \cup Working \cup Resuming, groups : Seq(Rows), out : Nat]
      /\ tape'.at = "mark" /\ tape'.out = tape.out /\ Group' = Group
      /\ tape'.at \in Working => tape'.groups # <<>>
  <2>1. tape' = [tape EXCEPT !.at = "mark", !.out = tape.out]
    <3>1. tape' = [tape EXCEPT !.at = "mark"]
      BY DEF WriteOutput
    <3>2. tape \in [at : {"idle"} \cup Working \cup Resuming, groups : Seq(Rows), out : Nat]
      BY DEF LifecycleInv, TapeShape
    <3>. QED BY <3>1, <3>2
  <2>. QED BY <1>1, <1>2, <2>1, TapeAt DEF Working
<1>5. /\ DOMAIN temps' = DOMAIN temps \cup {tape.out} /\ temps'[tape.out] = Group
      /\ \A n \in DOMAIN temps : n # tape.out => temps'[n] = temps[n]
  BY <1>1 DEF Put
<1>6. tape.out \notin Written
  BY <1>3
<1>7. Written' = Written \cup {tape.out}
  BY <1>1, <1>5 DEF Written
<1>8. Written' = 1 .. (k + 1)
  BY <1>3, <1>7
<1>9. Files'
  <2>1. DOMAIN outputs' \cap DOMAIN temps' = {}
    BY <1>1, <1>5, <1>6 DEF LifecycleInv, Files, Written
  <2>2. \A n \in DOMAIN temps' : temps'[n] \in Rows
    BY <1>2, <1>5 DEF LifecycleInv, Files
  <2>3. k + 1 \in 0 .. MaxOutputs
    BY <1>3, LifecycleAssumption
  <2>. QED BY <1>1, <1>4, <1>5, <1>8, <2>1, <2>2, <2>3 DEF LifecycleInv, Files
<1>10. TapeShape'
  BY <1>1, <1>4 DEF LifecycleInv, TapeShape
<1>11. Marked'
  <2>1. marker # NoMarker => Backed(outputs)' \/ Backed(temps)'
    <3>1. CASE Backed(outputs)
      BY <1>1, <3>1 DEF Backed
    <3>2. CASE Backed(temps)
      BY <1>1, <1>5, <1>6, <3>2 DEF Backed, Written
    <3>. QED BY <3>1, <3>2 DEF LifecycleInv, Marked
  <2>. QED BY <1>1, <1>4, <2>1 DEF Marked
<1>12. LifecycleTypeOK'
  BY <1>1, <1>3, <1>8, LifecycleAssumption DEF LifecycleInv, LifecycleTypeOK
<1>13. NoRowLost'
  BY <1>1 DEF LifecycleInv, NoRowLost
<1>. QED BY <1>9, <1>10, <1>11, <1>12, <1>13 DEF LifecycleInv

(* A step of the program that keeps its group, and the names that there are. *)
LEMMA Advances ==
  ASSUME LifecycleInv, NEW at \in {"idle"} \cup Working \cup Resuming,
         at \in Working => tape.at \in Working, tape' = [tape EXCEPT !.at = at]
  PROVE /\ tape' \in [at : {"idle"} \cup Working \cup Resuming, groups : Seq(Rows), out : Nat]
        /\ tape'.at = at /\ tape'.out = tape.out /\ Group' = Group
        /\ tape'.at \in Working => tape'.groups # <<>>
BY DEF LifecycleInv, TapeShape, Group

LEMMA LifecycleMarks ==
  ASSUME LifecycleInv, Mark
  PROVE LifecycleInv'
<1>1. /\ tape.at = "mark" /\ tape.at \in Working
      /\ marker' = [out |-> tape.out, rows |-> Group] /\ tape' = [tape EXCEPT !.at = "rename"]
      /\ UNCHANGED <<sources, outputs, temps, sidecar, manifest, tlKills>>
  BY DEF Mark, Working
<1>2. Group \in Rows /\ tape.out \in Nat
  BY <1>1, GroupTyped
<1>3. /\ tape' \in [at : {"idle"} \cup Working \cup Resuming, groups : Seq(Rows), out : Nat]
      /\ tape'.at = "rename"
      /\ tape'.at \in Working => tape'.groups # <<>>
  BY <1>1, Advances DEF Working
<1>4. tape.out \in DOMAIN temps /\ temps[tape.out] = Group
  BY <1>1 DEF LifecycleInv, Files
<1>5. marker' \in [out : Nat, rows : Rows] /\ Backed(temps)'
  BY <1>1, <1>2, <1>4 DEF Backed
<1>6. TapeShape' /\ Marked'
  BY <1>1, <1>3, <1>5 DEF LifecycleInv, TapeShape, Marked
<1>7. Written' = Written
  BY <1>1 DEF Written
<1>8. Files'
  BY <1>1, <1>3, <1>7 DEF LifecycleInv, Files
<1>9. LifecycleTypeOK' /\ NoRowLost'
  BY <1>1, <1>7 DEF LifecycleInv, LifecycleTypeOK, NoRowLost
<1>. QED BY <1>6, <1>8, <1>9 DEF LifecycleInv

LEMMA LifecycleRenames ==
  ASSUME LifecycleInv, Rename
  PROVE LifecycleInv'
<1>1. /\ tape.at \in {"rename", "resume rename"}
      /\ outputs' = Put(outputs, marker.out, temps[marker.out])
      /\ temps' = Drop(temps, marker.out)
      /\ UNCHANGED <<sources, marker, sidecar, manifest, tlKills>>
  BY DEF Rename
<1>2. /\ marker.out \in DOMAIN temps /\ temps[marker.out] = marker.rows
      /\ marker.out \notin DOMAIN outputs /\ marker.rows \in Rows
  BY <1>1 DEF LifecycleInv, Marked, Backed, Files, TapeShape
<1>3. /\ DOMAIN outputs' = DOMAIN outputs \cup {marker.out}
      /\ outputs'[marker.out] = marker.rows
      /\ \A n \in DOMAIN outputs : outputs'[n] = outputs[n]
  BY <1>1, <1>2 DEF Put
<1>4. /\ DOMAIN temps' = DOMAIN temps \ {marker.out}
      /\ \A n \in DOMAIN temps' : temps'[n] = temps[n]
  BY <1>1 DEF Drop
<1>5. Written' = Written
  BY <1>2, <1>3, <1>4 DEF Written
<1>6. /\ tape' \in [at : {"idle"} \cup Working \cup Resuming, groups : Seq(Rows), out : Nat]
      /\ tape'.at \in {"unlink", "resume unlink"}
      /\ tape'.at \in Working => tape'.groups # <<>>
  <2>1. CASE tape.at = "rename"
    BY <2>1, Advances DEF Rename, Working
  <2>2. CASE tape.at = "resume rename"
    BY <2>2, Advances DEF Rename, Working, Resuming
  <2>. QED BY <1>1, <2>1, <2>2
<1>7. Files'
  <2>1. DOMAIN outputs' \cap DOMAIN temps' = {}
    BY <1>3, <1>4 DEF LifecycleInv, Files
  <2>2. /\ \A n \in DOMAIN outputs' : outputs'[n] \in Rows
        /\ \A n \in DOMAIN temps' : temps'[n] \in Rows
    BY <1>2, <1>3, <1>4 DEF LifecycleInv, Files
  <2>. QED BY <1>5, <1>6, <2>1, <2>2 DEF LifecycleInv, Files
<1>8. TapeShape'
  BY <1>1, <1>6 DEF LifecycleInv, TapeShape
<1>9. Backed(outputs)'
  BY <1>1, <1>3 DEF Backed
<1>10. Marked'
  BY <1>6, <1>9 DEF Marked
<1>11. LifecycleTypeOK'
  <2>1. \A r \in sidecar : r.out \in DOMAIN outputs /\ outputs[r.out] = r.rows
                           /\ r.rows \cap sources = {}
    BY DEF LifecycleInv, LifecycleTypeOK
  <2>. QED BY <1>1, <1>3, <1>5, <2>1 DEF LifecycleInv, LifecycleTypeOK
<1>12. NoRowLost'
  BY <1>1, <1>3 DEF LifecycleInv, NoRowLost
<1>. QED BY <1>7, <1>8, <1>10, <1>11, <1>12 DEF LifecycleInv

LEMMA LifecycleUnlinks ==
  ASSUME LifecycleInv, Unlink
  PROVE LifecycleInv'
<1>1. /\ tape.at \in {"unlink", "resume unlink"}
      /\ UNCHANGED <<outputs, temps, marker, sidecar, manifest, tlKills>>
  BY DEF Unlink
<1>2. Backed(outputs) /\ Written' = Written
  BY <1>1 DEF LifecycleInv, Marked, Written
<1>3. CASE marker.rows \cap sources # {}
  <2>1. PICK f \in marker.rows \cap sources : sources' = sources \ {f}
    BY <1>3 DEF Unlink
  <2>2. tape' = tape
    BY <1>3 DEF Unlink
  <2>3. LifecycleTypeOK'
    BY <1>1, <1>2, <2>1 DEF LifecycleInv, LifecycleTypeOK
  <2>4. TapeShape' /\ Files'
    BY <1>1, <1>2, <2>2 DEF LifecycleInv, TapeShape, Files, Group
  <2>5. Marked'
    BY <1>1, <2>2 DEF LifecycleInv, Marked, Backed
  <2>6. NoRowLost'
    BY <1>1, <1>2, <2>1 DEF LifecycleInv, NoRowLost, Backed
  <2>. QED BY <2>3, <2>4, <2>5, <2>6 DEF LifecycleInv
<1>4. CASE marker.rows \cap sources = {}
  <2>1. sources' = sources
    BY <1>4 DEF Unlink
  <2>2. /\ tape' \in [at : {"idle"} \cup Working \cup Resuming, groups : Seq(Rows), out : Nat]
        /\ tape'.at \in {"record", "resume record"}
        /\ tape'.at \in Working => tape'.groups # <<>>
    <3>1. CASE tape.at = "unlink"
      BY <1>4, <3>1, Advances DEF Unlink, Working
    <3>2. CASE tape.at = "resume unlink"
      BY <1>4, <3>2, Advances DEF Unlink, Working, Resuming
    <3>. QED BY <1>1, <3>1, <3>2
  <2>3. LifecycleTypeOK' /\ NoRowLost'
    BY <1>1, <1>2, <2>1 DEF LifecycleInv, LifecycleTypeOK, NoRowLost
  <2>4. TapeShape' /\ Files'
    BY <1>1, <1>2, <2>2 DEF LifecycleInv, TapeShape, Files
  <2>5. Marked'
    BY <1>1, <1>2, <1>4, <2>1, <2>2 DEF Marked, Backed
  <2>. QED BY <2>3, <2>4, <2>5 DEF LifecycleInv
<1>. QED BY <1>3, <1>4

LEMMA LifecycleRecords ==
  ASSUME LifecycleInv, Record
  PROVE LifecycleInv'
<1>1. /\ tape.at \in {"record", "resume record"} /\ sidecar' = sidecar \cup {marker}
      /\ UNCHANGED <<sources, outputs, temps, marker, manifest, tlKills>>
  BY DEF Record
<1>2. Backed(outputs) /\ marker.rows \cap sources = {} /\ Written' = Written
  BY <1>1 DEF LifecycleInv, Marked, Written
<1>3. /\ tape' \in [at : {"idle"} \cup Working \cup Resuming, groups : Seq(Rows), out : Nat]
      /\ tape'.at \in {"unmark", "resume unmark"}
      /\ tape'.at \in Working => tape'.groups # <<>>
  <2>1. CASE tape.at = "record"
    BY <2>1, Advances DEF Record, Working
  <2>2. CASE tape.at = "resume record"
    BY <2>2, Advances DEF Record, Working, Resuming
  <2>. QED BY <1>1, <2>1, <2>2
<1>4. LifecycleTypeOK' /\ NoRowLost'
  BY <1>1, <1>2 DEF LifecycleInv, LifecycleTypeOK, NoRowLost, Backed
<1>5. TapeShape' /\ Files'
  BY <1>1, <1>2, <1>3 DEF LifecycleInv, TapeShape, Files
<1>6. Marked'
  BY <1>1, <1>2, <1>3 DEF Marked, Backed
<1>. QED BY <1>4, <1>5, <1>6 DEF LifecycleInv

LEMMA LifecycleUnmarks ==
  ASSUME LifecycleInv, Unmark
  PROVE LifecycleInv'
<1>1. /\ marker' = NoMarker
      /\ UNCHANGED <<sources, outputs, temps, sidecar, manifest, tlKills>>
      /\ (tape.at \in Working /\ GroupDone) \/ TapeFails
  BY DEF Unmark, Working
<1>2. /\ manifest \in Seq(Rows) /\ tlKills \in 0 .. MaxTlKills /\ TapeShape
  BY DEF LifecycleInv, TapeShape, LifecycleTypeOK
<1>3. /\ tape' \in [at : {"idle", "check"}, groups : Seq(Rows), out : Nat]
      /\ tape'.at = "check" => tape'.groups # <<>>
  BY <1>1, <1>2, EndsTyped
<1>. QED BY <1>1, <1>2, <1>3, Rests

LEMMA LifecycleBegins == LifecycleInit => LifecycleInv
<1>. SUFFICES ASSUME LifecycleInit PROVE LifecycleInv
  OBVIOUS
<1>1. /\ sources = Sources /\ outputs = <<>> /\ temps = <<>> /\ marker = NoMarker
      /\ sidecar = {} /\ manifest = <<>> /\ tape = TapeIdle /\ tlKills = 0
  BY DEF LifecycleInit
<1>2. DOMAIN outputs = {} /\ DOMAIN temps = {} /\ tape.at = "idle" /\ Written = {}
  BY <1>1 DEF Written, TapeIdle
<1>3. <<>> \in Seq(Rows)
  OBVIOUS
<1>4. TapeShape
  BY <1>1, <1>3 DEF TapeShape, TapeIdle, NoMarker, Rows, Working
<1>5. Files
  <2>1. 0 \in 0 .. MaxOutputs /\ {} = 1 .. 0
    BY LifecycleAssumption
  <2>. QED BY <1>2, <2>1 DEF Files
<1>6. Marked
  BY <1>1, <1>2 DEF Marked
<1>7. LifecycleTypeOK /\ NoRowLost
  BY <1>1, <1>2, LifecycleAssumption DEF LifecycleTypeOK, NoRowLost
<1>. QED BY <1>4, <1>5, <1>6, <1>7 DEF LifecycleInv

LEMMA LifecycleInductive == LifecycleInv /\ [LifecycleNext]_tlVars => LifecycleInv'
<1>. SUFFICES ASSUME LifecycleInv, [LifecycleNext]_tlVars PROVE LifecycleInv'
  OBVIOUS
<1>1. CASE TapePlan \/ TapeApply \/ Resume \/ KillTape
  BY <1>1, LifecyclePlans
<1>2. CASE CheckGroup
  BY <1>2, LifecycleChecks
<1>3. CASE WriteOutput
  BY <1>3, LifecycleWrites
<1>4. CASE Mark
  BY <1>4, LifecycleMarks
<1>5. CASE Rename
  BY <1>5, LifecycleRenames
<1>6. CASE Unlink
  BY <1>6, LifecycleUnlinks
<1>7. CASE Record
  BY <1>7, LifecycleRecords
<1>8. CASE Unmark
  BY <1>8, LifecycleUnmarks
<1>9. CASE UNCHANGED tlVars
  BY <1>9 DEF LifecycleInv, LifecycleTypeOK, TapeShape, Files, Marked, NoRowLost, Backed, Written,
              Group, tlVars
<1>. QED BY <1>1, <1>2, <1>3, <1>4, <1>5, <1>6, <1>7, <1>8, <1>9 DEF LifecycleNext, Steps

LEMMA LifecycleInvariance == LifecycleSpec => []LifecycleInv
BY LifecycleBegins, LifecycleInductive, PTL DEF LifecycleSpec

(***************************************************************************)
(* What the sidecar records can be read under its final name, and the      *)
(* sources it replaces are gone.                                           *)
(***************************************************************************)
THEOREM LifecycleTypeCorrect == LifecycleSpec => []LifecycleTypeOK
BY LifecycleInvariance, PTL DEF LifecycleInv

(***************************************************************************)
(* However often the merge of the tape is killed, resumed and started      *)
(* again, for any number of source files and any size of a group, the rows *)
(* of every source are in a file that readers read.                        *)
(***************************************************************************)
THEOREM NoRowLostHolds == LifecycleSpec => []NoRowLost
BY LifecycleInvariance, PTL DEF LifecycleInv

-----------------------------------------------------------------------------
(* ShadowReset.                                                            *)

Exposures == [seen : SUBSET Signals, managed : SUBSET (Signals \X (1 .. epoch))]

ResetShape ==
    /\ state \in Exposures
    /\ truth \subseteq Signals \X (1 .. epoch)
    /\ derived \in [Derived -> Nat]
    /\ reset.at \in {"idle", "write", "replace", "delete"}
    /\ reset.at # "idle" => epoch < MaxEpochs
    /\ reset.at = "replace" => written = [seen |-> state.seen, managed |-> {}]

(* A tombstone is of an epoch that is over.                                *)
Buried == \A s \in stones : s.epoch \in Nat \ {0} /\ s.epoch < epoch

ResetInv == ResetShape /\ Buried /\ ResetTypeOK /\ SeenOutlivesReset /\ CleanEpoch

LEMMA ResetBegins == ResetInit => ResetInv
<1>. SUFFICES ASSUME ResetInit PROVE ResetInv
  OBVIOUS
<1>1. /\ state = Nothing /\ derived = [f \in Derived |-> 0] /\ truth = {} /\ epoch = 1
      /\ reset.at = "idle" /\ stones = {}
  BY DEF ResetInit, ResetIdle
<1>2. ResetShape
  BY <1>1 DEF ResetShape, Nothing, Exposures
<1>3. Buried /\ SeenOutlivesReset /\ CleanEpoch
  BY <1>1 DEF Buried, SeenOutlivesReset, CleanEpoch
<1>4. ResetTypeOK
  BY <1>1, ResetAssumption DEF ResetTypeOK, Nothing
<1>. QED BY <1>2, <1>3, <1>4 DEF ResetInv

LEMMA ResetInductive == ResetInv /\ [ResetNext]_rsVars => ResetInv'
<1>. SUFFICES ASSUME ResetInv, [ResetNext]_rsVars PROVE ResetInv'
  OBVIOUS
<1>1. /\ epoch \in 1 .. MaxEpochs /\ epoch \in Nat \ {0} /\ MaxEpochs \in Nat
      /\ state \in Exposures
      /\ truth \subseteq Signals \X (1 .. epoch) /\ derived \in [Derived -> Nat]
  BY ResetAssumption DEF ResetInv, ResetShape, ResetTypeOK
<1>2. CASE See
  <2>1. PICK s \in Signals \ state.seen :
          /\ state' = [seen |-> state.seen \cup {s}, managed |-> state.managed \cup {<<s, epoch>>}]
          /\ truth' = truth \cup {<<s, epoch>>}
    BY <1>2 DEF See
  <2>2. PICK f \in Derived : derived' = [derived EXCEPT ![f] = epoch]
    BY <1>2 DEF See
  <2>3. reset.at = "idle" /\ UNCHANGED <<epoch, reset, stones>>
    BY <1>2 DEF See
  <2>4. state'.seen = state.seen \cup {s} /\ state'.managed = state.managed \cup {<<s, epoch>>}
    BY <2>1
  <2>5. derived' \in [Derived -> Nat] /\ \A g \in Derived : derived'[g] \in {derived[g], epoch}
    BY <1>1, <2>2
  <2>6. state' \in Exposures' /\ truth' \subseteq Signals \X (1 .. epoch')
    BY <1>1, <2>1, <2>3, <2>4 DEF Exposures
  <2>7. ResetShape'
    BY <2>3, <2>5, <2>6 DEF ResetShape
  <2>8. Buried' /\ SeenOutlivesReset'
    BY <2>1, <2>3, <2>4 DEF ResetInv, Buried, SeenOutlivesReset
  <2>9. ResetTypeOK'
    BY <1>1, <2>1, <2>3, <2>4, <2>5 DEF ResetInv, ResetTypeOK
  <2>10. CleanEpoch'
    BY <1>1, <2>3, <2>4, <2>5 DEF ResetInv, CleanEpoch, Buried
  <2>. QED BY <2>7, <2>8, <2>9, <2>10 DEF ResetInv
<1>3. CASE StartReset \/ KillReset
  <2>1. /\ UNCHANGED <<state, derived, truth, epoch, stones>>
        /\ reset'.at \in {"idle", "write"} /\ (reset'.at # "idle" => epoch < MaxEpochs)
    BY <1>3 DEF StartReset, KillReset, ResetIdle
  <2>2. Exposures' = Exposures
    BY <2>1 DEF Exposures
  <2>. QED BY <2>1, <2>2 DEF ResetInv, ResetShape, Buried, ResetTypeOK, SeenOutlivesReset, CleanEpoch
<1>4. CASE WriteState
  <2>1. /\ UNCHANGED <<state, derived, truth, epoch, stones>> /\ reset.at = "write"
        /\ written' = [state EXCEPT !.managed = {}] /\ reset' = [reset EXCEPT !.at = "replace"]
    BY <1>4 DEF WriteState, Cleared
  <2>2. written' = [seen |-> state.seen, managed |-> {}] /\ Exposures' = Exposures
    BY <1>1, <2>1 DEF Exposures
  <2>3. reset'.at = "replace" \/ reset'.at = reset.at
    BY <2>1
  <2>4. ResetShape'
    BY <2>1, <2>2, <2>3 DEF ResetInv, ResetShape
  <2>. QED BY <2>1, <2>3, <2>4
           DEF ResetInv, Buried, ResetTypeOK, SeenOutlivesReset, CleanEpoch
<1>5. CASE ReplaceState
  <2>1. /\ UNCHANGED <<written, derived, truth, epoch, stones>> /\ reset.at = "replace"
        /\ state' = [seen |-> state.seen, managed |-> {}] /\ reset' = [reset EXCEPT !.at = "delete"]
    BY <1>5 DEF ReplaceState, ResetInv, ResetShape
  <2>2. state'.seen = state.seen /\ state'.managed = {} /\ Exposures' = Exposures
    BY <2>1 DEF Exposures
  <2>3. state' \in Exposures
    BY <1>1, <2>1 DEF Exposures
  <2>4. reset'.at = "delete" \/ reset'.at = reset.at
    BY <2>1
  <2>5. ResetShape'
    BY <2>1, <2>2, <2>3, <2>4 DEF ResetInv, ResetShape
  <2>. QED BY <2>1, <2>2, <2>5
           DEF ResetInv, Buried, ResetTypeOK, SeenOutlivesReset, CleanEpoch
<1>6. CASE DeleteFile
  <2>1. PICK f \in Left : derived' = [derived EXCEPT ![f] = 0]
    BY <1>6 DEF DeleteFile
  <2>2. UNCHANGED <<state, written, truth, epoch, reset, stones>>
    BY <1>6 DEF DeleteFile
  <2>3. derived' \in [Derived -> Nat] /\ \A g \in Derived : derived'[g] \in {derived[g], 0}
    BY <1>1, <2>1
  <2>4. ResetShape' /\ Buried' /\ SeenOutlivesReset'
    BY <2>2, <2>3 DEF ResetInv, ResetShape, Exposures, Buried, SeenOutlivesReset
  <2>5. ResetTypeOK'
    BY <1>1, <2>2, <2>3 DEF ResetInv, ResetTypeOK
  <2>6. CleanEpoch'
    BY <2>2, <2>3 DEF ResetInv, CleanEpoch, Buried
  <2>. QED BY <2>4, <2>5, <2>6 DEF ResetInv
<1>7. CASE Bury
  <2>1. /\ UNCHANGED <<state, written, derived, truth>>
        /\ reset.at = "delete" /\ Left = {} /\ epoch' = epoch + 1 /\ reset'.at = "idle"
    BY <1>7 DEF Bury, ResetIdle
  <2>2. \A s \in stones' : s \in stones \/ s.epoch = epoch
    BY <1>7 DEF Bury
  <2>3. /\ state.managed = {} /\ epoch < MaxEpochs /\ \A f \in Derived : derived[f] = 0
    BY <2>1 DEF ResetInv, ResetShape, ResetTypeOK, Left
  <2>4. state \in Exposures' /\ truth \subseteq Signals \X (1 .. epoch')
    BY <1>1, <2>1, <2>3 DEF Exposures
  <2>5. ResetShape' /\ Buried' /\ SeenOutlivesReset'
    BY <1>1, <2>1, <2>2, <2>4 DEF ResetInv, ResetShape, Buried, SeenOutlivesReset
  <2>6. ResetTypeOK' /\ CleanEpoch'
    BY <1>1, <2>1, <2>2, <2>3 DEF ResetInv, ResetTypeOK, CleanEpoch
  <2>. QED BY <2>5, <2>6 DEF ResetInv
<1>8. CASE UNCHANGED rsVars
  BY <1>8 DEF ResetInv, ResetShape, Exposures, Buried, ResetTypeOK, SeenOutlivesReset, CleanEpoch,
              rsVars
<1>. QED BY <1>2, <1>3, <1>4, <1>5, <1>6, <1>7, <1>8 DEF ResetNext

(***************************************************************************)
(* A reset of the shadow epoch, cut short and repeated at will, keeps what *)
(* was seen and leaves nothing of the old epoch in the new one.            *)
(***************************************************************************)
THEOREM EpochsApartHolds == ResetSpec => []EpochsApart
<1>1. ResetInv => EpochsApart
  BY DEF ResetInv, EpochsApart
<1>. QED BY <1>1, ResetBegins, ResetInductive, PTL DEF ResetSpec

-----------------------------------------------------------------------------
(* StorageCompaction.                                                      *)

(* The greatest of numbers that are bounded: the shortest of the intervals *)
(* up to the bound.                                                        *)
LEMMA GreatestElement ==
  ASSUME NEW S, NEW b \in Nat, S \subseteq 0 .. b, S # {}
  PROVE \E m \in S : \A n \in S : n <= m
<1>. DEFINE T == {m .. b : m \in S}
            R == StrictSubsetOrdering(Nat)
<1>1. T \subseteq FiniteSubsetsOf(Nat)
  <2>1. ASSUME NEW m \in S PROVE m .. b \in FiniteSubsetsOf(Nat)
    <3>1. m \in Int /\ b \in Int
      OBVIOUS
    <3>2. IsFiniteSet(m .. b)
      BY <3>1, FS_Interval
    <3>. QED BY <3>2 DEF FiniteSubsetsOf
  <2>. QED BY <2>1
<1>2. T # {}
  OBVIOUS
<1>3. IsWellFoundedOn(R, FiniteSubsetsOf(Nat))
  BY FS_StrictSubsetOrderingWellFounded
<1>4. PICK x \in T : \A y \in T : ~ (<<y, x>> \in R)
  <2>. HIDE DEF T, R
  <2>. QED BY <1>1, <1>2, <1>3, WFMin
<1>5. PICK m \in S : x = m .. b
  BY <1>4
<1>6. ASSUME NEW n \in S PROVE n <= m
  <2>. SUFFICES ASSUME m < n PROVE FALSE
    OBVIOUS
  <2>1. n .. b \subseteq m .. b /\ m \in m .. b /\ m \notin n .. b
    OBVIOUS
  <2>2. n .. b \subseteq Nat /\ m .. b \subseteq Nat
    OBVIOUS
  <2>3. <<n .. b, m .. b>> \in R
    BY <2>1, <2>2 DEF StrictSubsetOrdering
  <2>. QED BY <1>4, <1>5, <2>3
<1>. QED BY <1>6

(* What the tables hold, and what a wrong body can be told by.             *)
Tables ==
    /\ obs \subseteq Observation
    /\ payloads \in [{Empty, Board} -> Bodies \cup {Unstored}]
    /\ payloads[Board] \in {Unstored, Board}
    /\ \A o \in obs : o.body # Empty => o.hash = Board
    /\ (\E o \in obs : o.body = "other") => \E o \in obs : o.body = Board

Collecting ==
    /\ hour \in 1 .. MaxHour
    /\ collector \in [at : {"off", "observation", "snapshot"}, t : 0 .. hour]
    /\ collector.at = "observation" => payloads[Board] = Board
    /\ snaps \subseteq 0 .. hour

(* What was reviewed and checked still holds when it is acted on.          *)
Reviewed ==
    /\ compact = [at |-> compact.at, keep |-> compact.keep]
    /\ plan.ready => plan.cutoff \in snaps
    /\ compact.at # "idle" => plan.ready /\ (collector.at = "off" \/ collector.t >= plan.cutoff)
    /\ compact.at = "rebuild" =>
        \A t \in Through(plan.cutoff) \ KeepTimes(plan.cutoff) : Traced(t)

CompactionInv == CompactionTypeOK /\ BodiesRestorable /\ Tables /\ Collecting /\ Reviewed

LEMMA DistinctBodies == Empty # Board /\ Empty # "other" /\ Board # "other"
                        /\ Unstored \notin {Empty, Board, "other"}
BY DEF Empty, Board, Unstored

LEMMA ObservationFields ==
  ASSUME NEW o \in Observation
  PROVE /\ o.t \in Nat /\ o.hash \in {Empty, Board} /\ o.body \in Bodies /\ o.truth \in Bodies
        /\ [o EXCEPT !.body = Empty] \in Observation
        /\ [o EXCEPT !.body = Empty].t = o.t
        /\ [o EXCEPT !.body = Empty].hash = o.hash
        /\ [o EXCEPT !.body = Empty].body = Empty
        /\ [o EXCEPT !.body = Empty].truth = o.truth
BY DEF Observation, Bodies

(* A phase that leaves the tables of bodies leaves what they restore.      *)
LEMMA BodiesSame ==
  ASSUME BodiesRestorable, Tables, UNCHANGED <<obs, payloads>>
  PROVE BodiesRestorable' /\ Tables'
BY DEF BodiesRestorable, Restored, Tables

(* The body that a hash stands for when the plan saw no conflict.          *)
LEMMA StoredFacts ==
  ASSUME BodiesRestorable, Tables, ~ HashConflict
  PROVE /\ Stored(Board) \in {Unstored, Board}
        /\ Stored(Empty) \in Bodies \cup {Unstored}
        /\ \A o \in obs : o.hash = Board /\ Stored(Board) # Unstored => o.truth = Stored(Board)
        /\ payloads[Board] # Unstored => Stored(Board) = payloads[Board]
<1>1. \A o \in obs : o.body # Empty => o.body = Board /\ o.truth = Board
  <2>. SUFFICES ASSUME NEW o \in obs, o.body # Empty PROVE o.body = Board /\ o.truth = Board
    OBVIOUS
  <2>1. o.truth = o.body /\ o.body \in Bodies /\ o.hash = Board
    BY ObservationFields DEF BodiesRestorable, Restored, Tables
  <2>2. CASE o.body = "other"
    <3>1. PICK p \in obs : p.body = Board
      BY <2>2 DEF Tables
    <3>2. p.hash = Board
      BY <3>1, DistinctBodies DEF Tables
    <3>. QED BY <2>1, <2>2, <3>1, <3>2, DistinctBodies DEF HashConflict, SourceConflict
  <2>. QED BY <2>1, <2>2 DEF Bodies
<1>. DEFINE bodies(h) == {o.body : o \in {p \in obs : p.hash = h /\ p.body # Empty}}
<1>2. bodies(Board) \subseteq {Board} /\ bodies(Empty) = {}
  BY <1>1, DistinctBodies DEF Tables
<1>3. bodies(Board) # {} => (CHOOSE b \in bodies(Board) : TRUE) = Board
  <2>. HIDE DEF bodies
  <2>. QED BY <1>2
<1>4. Stored(Board) = IF payloads[Board] # Unstored THEN payloads[Board]
                      ELSE IF bodies(Board) # {} THEN CHOOSE b \in bodies(Board) : TRUE
                      ELSE Unstored
  BY DistinctBodies DEF Stored
<1>5. Stored(Empty) \in {payloads[Empty], Empty, Unstored}
  BY <1>2 DEF Stored
<1>6. payloads[Empty] \in Bodies \cup {Unstored} /\ Empty \in Bodies
  BY DEF Tables, Bodies
<1>7. ASSUME NEW o \in obs, o.hash = Board, Stored(Board) # Unstored
      PROVE o.truth = Stored(Board)
  <2>1. Stored(Board) = Board
    BY <1>3, <1>4, <1>7 DEF Tables
  <2>2. CASE o.body # Empty
    BY <1>1, <2>1, <2>2
  <2>3. CASE o.body = Empty
    <3>1. o.truth = payloads[Board] /\ o.truth \in Bodies
      BY <1>7, <2>3, DistinctBodies, ObservationFields DEF BodiesRestorable, Restored, Tables
    <3>. QED BY <2>1, <3>1, DistinctBodies DEF Tables, Bodies
  <2>. QED BY <2>2, <2>3
<1>8. Stored(Board) \in {Unstored, Board}
  BY <1>3, <1>4 DEF Tables
<1>. QED BY <1>4, <1>5, <1>6, <1>7, <1>8

LEMMA BodiesNormalized ==
  ASSUME BodiesRestorable, Tables, Normalize
  PROVE BodiesRestorable' /\ Tables'
<1>1. CASE UNCHANGED <<obs, payloads>>
  BY <1>1, BodiesSame
<1>2. CASE /\ ~ HashConflict /\ \A o \in obs : Stored(o.hash) # Unstored
           /\ payloads' = [h \in DOMAIN payloads |-> Stored(h)]
           /\ obs' = {[o EXCEPT !.body = Empty] : o \in obs}
  <2>1. payloads'[Board] = Stored(Board) /\ payloads'[Empty] = Stored(Empty)
        /\ DOMAIN payloads' = {Empty, Board}
    BY <1>2 DEF Tables
  <2>2. \A o \in obs' : \E p \in obs : /\ o \in Observation /\ o.hash = p.hash
                                       /\ o.body = Empty /\ o.truth = p.truth
    <3>. SUFFICES ASSUME NEW p \in obs
                  PROVE LET o == [p EXCEPT !.body = Empty] IN
                        /\ o \in Observation /\ o.hash = p.hash
                        /\ o.body = Empty /\ o.truth = p.truth
      BY <1>2
    <3>. QED BY ObservationFields DEF Tables
  <2>3. Tables'
    <3>1. obs' \subseteq Observation /\ \A o \in obs' : o.body = Empty
      BY <2>2
    <3>2. payloads' \in [{Empty, Board} -> Bodies \cup {Unstored}]
      <4>1. Stored(Board) \in Bodies \cup {Unstored} /\ Stored(Empty) \in Bodies \cup {Unstored}
        BY <1>2, StoredFacts DEF Bodies
      <4>2. payloads' = [h \in {Empty, Board} |-> Stored(h)]
        BY <1>2 DEF Tables
      <4>. QED BY <4>1, <4>2
    <3>3. payloads'[Board] \in {Unstored, Board}
      BY <1>2, <2>1, StoredFacts
    <3>. QED BY <3>1, <3>2, <3>3, DistinctBodies DEF Tables
  <2>4. ASSUME NEW o \in obs' PROVE Restored(o)' = o.truth
    <3>1. PICK p \in obs : o.hash = p.hash /\ o.body = Empty /\ o.truth = p.truth
      BY <2>2, <2>4
    <3>2. CASE o.hash = Empty
      <4>1. p.body = Empty
        BY <3>1, <3>2, DistinctBodies DEF Tables
      <4>2. p.truth = Empty
        BY <3>1, <3>2, <4>1 DEF BodiesRestorable, Restored
      <4>. QED BY <3>1, <3>2, <4>2 DEF Restored
    <3>3. CASE o.hash = Board
      <4>1. p.truth = Stored(Board)
        BY <1>2, <3>1, <3>3, StoredFacts
      <4>. QED BY <2>1, <3>1, <3>3, <4>1, DistinctBodies DEF Restored
    <3>. QED BY <2>2, <3>2, <3>3, ObservationFields
  <2>. QED BY <2>3, <2>4 DEF BodiesRestorable
<1>. QED BY <1>1, <1>2 DEF Normalize

LEMMA BodiesCollected ==
  ASSUME BodiesRestorable, Tables, Collecting, StorePayload \/ StoreObservation
  PROVE BodiesRestorable' /\ Tables'
<1>1. CASE StorePayload
  <2>1. obs' = obs /\ payloads' = [payloads EXCEPT ![Board] = IF @ = Unstored THEN Board ELSE @]
    BY <1>1 DEF StorePayload
  <2>2. /\ payloads' \in [{Empty, Board} -> Bodies \cup {Unstored}]
        /\ payloads'[Board] = Board /\ payloads'[Empty] = payloads[Empty]
    BY <2>1, DistinctBodies DEF Tables, Bodies
  <2>3. Tables'
    BY <2>1, <2>2 DEF Tables
  <2>4. ASSUME NEW o \in obs PROVE Restored(o)' = o.truth
    <3>1. Restored(o) = o.truth /\ o.truth \in Bodies /\ o.hash \in {Empty, Board}
      BY ObservationFields DEF BodiesRestorable, Tables
    <3>2. CASE o.body # Empty \/ o.hash = Empty
      BY <3>1, <3>2 DEF Restored
    <3>3. CASE o.body = Empty /\ o.hash = Board
      <4>1. payloads[Board] = o.truth
        BY <3>1, <3>3, DistinctBodies DEF Restored
      <4>2. o.truth = Board
        BY <3>1, <4>1, DistinctBodies DEF Tables, Bodies
      <4>. QED BY <2>2, <3>3, <4>2, DistinctBodies DEF Restored
    <3>. QED BY <3>1, <3>2, <3>3
  <2>. QED BY <2>1, <2>3, <2>4 DEF BodiesRestorable
<1>2. CASE StoreObservation
  <2>. DEFINE new == [t |-> collector.t, hash |-> Board, body |-> Empty, truth |-> Board]
  <2>1. obs' = obs \cup {new} /\ payloads' = payloads /\ payloads[Board] = Board
    BY <1>2 DEF StoreObservation, Collecting
  <2>2. collector.t \in Nat
    BY DEF Collecting
  <2>3. new \in Observation
    BY <2>2 DEF Observation, Bodies
  <2>4. new.hash = Board /\ new.body = Empty /\ new.truth = Board
    OBVIOUS
  <2>. HIDE DEF new
  <2>5. Tables'
    <3>1. obs' \subseteq Observation
      BY <2>1, <2>3 DEF Tables
    <3>2. \A o \in obs' : o.body # Empty => o \in obs
      BY <2>1, <2>4
    <3>3. (\E o \in obs' : o.body = "other") => \E o \in obs' : o.body = Board
      BY <2>1, <3>2, DistinctBodies DEF Tables
    <3>. QED BY <2>1, <3>1, <3>2, <3>3 DEF Tables
  <2>6. \A o \in obs' : Restored(o)' = o.truth
    BY <2>1, <2>4, DistinctBodies DEF BodiesRestorable, Restored
  <2>. QED BY <2>5, <2>6 DEF BodiesRestorable
<1>. QED BY <1>1, <1>2

(* The snapshots that a plan keeps, and thins.                             *)
LEMMA KeptFacts ==
  ASSUME Collecting, NEW cutoff \in snaps
  PROVE /\ cutoff \in KeepTimes(cutoff) /\ KeepTimes(cutoff) \subseteq Through(cutoff)
        /\ Through(cutoff) \subseteq snaps /\ IsFiniteSet(Through(cutoff))
        /\ \A t \in Through(cutoff) \ KeepTimes(cutoff) :
              \E u \in KeepTimes(cutoff) : u > t /\ BinOf(u) = BinOf(t)
<1>1. snaps \subseteq 0 .. hour /\ hour \in Nat
  BY CompactionAssumption DEF Collecting
<1>2. cutoff \in Nat /\ \A t \in Through(cutoff) : t <= cutoff /\ t \in Nat
  BY <1>1 DEF Through
<1>3. cutoff \in KeepTimes(cutoff) /\ KeepTimes(cutoff) \subseteq Through(cutoff)
  BY <1>2 DEF KeepTimes, Through
<1>4. IsFiniteSet(0 .. hour)
  <2>1. 0 \in Int /\ hour \in Int
    BY <1>1
  <2>. QED BY <2>1, FS_Interval
<1>5. Through(cutoff) \subseteq snaps /\ IsFiniteSet(Through(cutoff))
  <2>1. Through(cutoff) \subseteq 0 .. hour /\ Through(cutoff) \subseteq snaps
    BY <1>1 DEF Through
  <2>. QED BY <1>4, <2>1, FS_Subset
<1>6. ASSUME NEW t \in Through(cutoff) \ KeepTimes(cutoff)
      PROVE \E u \in KeepTimes(cutoff) : u > t /\ BinOf(u) = BinOf(t)
  <2>. DEFINE bin == {u \in Through(cutoff) : BinOf(u) = BinOf(t)}
  <2>1. bin \subseteq 0 .. hour /\ t \in bin
    BY <1>1 DEF Through
  <2>2. PICK m \in bin : \A n \in bin : n <= m
    <3>. HIDE DEF bin
    <3>. QED BY <1>1, <2>1, GreatestElement
  <2>3. m \in KeepTimes(cutoff) /\ BinOf(m) = BinOf(t)
    BY <2>2 DEF KeepTimes
  <2>4. t <= m /\ t # m /\ t \in Nat /\ m \in Nat
    BY <1>2, <2>1, <2>2, <2>3
  <2>. QED BY <2>3, <2>4
<1>. QED BY <1>3, <1>5, <1>6

(* A phase that leaves the snapshots, the plan and the program.            *)
LEMMA ReviewedSame ==
  ASSUME Reviewed, UNCHANGED <<snaps, plan>>, compact' = compact \/ compact' = CompactIdle,
         \A t : Traced(t) => Traced(t)',
         compact.at # "idle" /\ plan.ready =>
            collector'.at = "off" \/ (collector'.t = collector.t /\ collector.at # "off")
                                  \/ collector'.t >= plan.cutoff
  PROVE Reviewed'
BY DEF Reviewed, Through, KeepTimes, CompactIdle

LEMMA TracedSame ==
  ASSUME Tables, obs' = obs \/ obs' = {[o EXCEPT !.body = Empty] : o \in obs} \/ obs \subseteq obs'
  PROVE \A t : Traced(t) => Traced(t)'
<1>1. CASE obs' = {[o EXCEPT !.body = Empty] : o \in obs}
  <2>. SUFFICES ASSUME NEW t, NEW o \in obs, o.t = t, o.hash = Board
                PROVE \E p \in obs' : p.t = t /\ p.hash = Board
    BY DEF Traced
  <2>1. /\ [o EXCEPT !.body = Empty] \in obs'
        /\ [o EXCEPT !.body = Empty].t = t /\ [o EXCEPT !.body = Empty].hash = Board
    BY <1>1, ObservationFields DEF Tables
  <2>. QED BY <2>1
<1>2. CASE obs \subseteq obs'
  BY <1>2 DEF Traced
<1>. QED BY <1>1, <1>2

LEMMA CompactionTyped ==
  ASSUME Collecting', Tables', BodiesRestorable',
         plan'.ready => plan'.keep \in 1 .. plan'.source - 1,
         compact'.at \in {"idle", "normalize", "normalized", "leaderboard", "rebuild"}
  PROVE CompactionTypeOK'
<1>1. (snaps \subseteq 0 .. MaxHour)'
  BY CompactionAssumption DEF Collecting
<1>2. (\A o \in obs : o.body \in {Empty, o.truth})'
  BY DEF BodiesRestorable, Restored
<1>. QED BY <1>1, <1>2 DEF CompactionTypeOK

LEMMA CompactionBegins == CompactionInit => CompactionInv
<1>. SUFFICES ASSUME CompactionInit PROVE CompactionInv
  OBVIOUS
<1>1. /\ hour = 1 /\ obs \in OldRows /\ payloads = [h \in {Empty, Board} |-> Unstored]
      /\ snaps \in {{0}, {0, 1}} /\ collector = CollectorOff /\ ~ plan.ready
      /\ compact = CompactIdle /\ compact.at = "idle"
  BY DEF CompactionInit, NoPlan, CompactIdle
<1>2. /\ obs \subseteq Observation
      /\ \A o \in obs : o.truth = o.body /\ (o.hash = Empty <=> o.body = Empty)
      /\ (\E o \in obs : o.body = "other") => \E o \in obs : o.body = Board
  BY <1>1, OldRowsAssumption
<1>3. Tables
  <2>1. /\ payloads \in [{Empty, Board} -> Bodies \cup {Unstored}] /\ payloads[Board] = Unstored
    BY <1>1
  <2>2. \A o \in obs : o.body # Empty => o.hash = Board
    BY <1>2, ObservationFields
  <2>. QED BY <1>2, <2>1, <2>2 DEF Tables
<1>4. BodiesRestorable
  BY <1>2 DEF BodiesRestorable, Restored
<1>5. Collecting
  BY <1>1, CompactionAssumption DEF Collecting, CollectorOff
<1>6. Reviewed
  BY <1>1 DEF Reviewed, CompactIdle
<1>7. CompactionTypeOK
  <2>1. snaps \subseteq 0 .. MaxHour
    BY <1>5, CompactionAssumption DEF Collecting
  <2>. QED BY <1>1, <1>2, <2>1 DEF CompactionTypeOK
<1>. QED BY <1>3, <1>4, <1>5, <1>6, <1>7 DEF CompactionInv

(* The collectors.                                                         *)
LEMMA CollectKeeps ==
  ASSUME CompactionInv, Collect \/ HourPasses
  PROVE CompactionInv'
<1>1. /\ Collecting /\ Tables /\ BodiesRestorable /\ Reviewed /\ CompactionTypeOK
      /\ hour \in 1 .. MaxHour /\ hour \in Nat /\ MaxHour \in Nat
      /\ collector \in [at : {"off", "observation", "snapshot"}, t : 0 .. hour]
  BY CompactionAssumption DEF CompactionInv, Collecting
<1>2. plan.ready => plan.cutoff \in Nat /\ plan.cutoff <= hour
  BY <1>1 DEF Reviewed, Collecting
<1>0. /\ plan.ready => plan.keep \in 1 .. plan.source - 1
      /\ compact.at \in {"idle", "normalize", "normalized", "leaderboard", "rebuild"}
  BY DEF CompactionInv, CompactionTypeOK
<1>3. UNCHANGED <<plan, compact>>
  BY DEF Collect, StorePayload, StoreObservation, UpsertLeaderboard, KillCollector, HourPasses
<1>4. CASE StorePayload \/ StoreObservation
  <2>1. BodiesRestorable' /\ Tables'
    BY <1>1, <1>4, BodiesCollected
  <2>2. Collecting' /\ snaps' = snaps /\ obs \subseteq obs'
    <3>1. CASE StorePayload
      <4>1. payloads'[Board] = Board
        BY <1>1, <3>1, DistinctBodies DEF StorePayload, Tables
      <4>. QED BY <1>1, <3>1, <4>1 DEF StorePayload, Collecting
    <3>2. CASE StoreObservation
      BY <1>1, <3>2 DEF StoreObservation, Collecting
    <3>. QED BY <1>4, <3>1, <3>2
  <2>3. Reviewed'
    <3>1. \A t : Traced(t) => Traced(t)'
      BY <1>1, <2>2, TracedSame
    <3>2. plan.ready => collector'.at = "off" \/ (collector'.t = collector.t /\ collector.at # "off")
                                \/ collector'.t >= plan.cutoff
      BY <1>1, <1>2, <1>4 DEF StorePayload, StoreObservation
    <3>. QED BY <1>1, <1>3, <2>2, <3>1, <3>2, ReviewedSame
  <2>4. CompactionTypeOK'
    BY <1>0, <1>3, <2>1, <2>2, CompactionTyped
  <2>. QED BY <2>1, <2>2, <2>3, <2>4 DEF CompactionInv
<1>5. CASE KillCollector \/ HourPasses
  <2>1. /\ UNCHANGED <<obs, payloads, snaps>> /\ hour' \in 1 .. MaxHour /\ hour' >= hour
        /\ collector' = collector \/ collector' = CollectorOff
    BY <1>1, <1>5 DEF KillCollector, HourPasses, ScKill
  <2>2. BodiesRestorable' /\ Tables'
    BY <1>1, <2>1, BodiesSame
  <2>3. Collecting'
    BY <1>1, <2>1 DEF Collecting, CollectorOff
  <2>4. Reviewed'
    <3>1. \A t : Traced(t) => Traced(t)'
      BY <1>1, <2>1, TracedSame
    <3>2. collector'.at = "off" \/ (collector'.t = collector.t /\ collector.at # "off")
      BY <2>1 DEF CollectorOff
    <3>. QED BY <1>1, <1>3, <2>1, <3>1, <3>2, ReviewedSame
  <2>5. CompactionTypeOK'
    BY <1>0, <1>3, <2>2, <2>3, CompactionTyped
  <2>. QED BY <2>2, <2>3, <2>4, <2>5 DEF CompactionInv
<1>6. CASE UpsertLeaderboard
  <2>1. /\ UNCHANGED <<hour, obs, payloads>> /\ collector' = CollectorOff
        /\ collector.at = "snapshot"
        /\ snaps' = snaps \/ snaps' = snaps \cup {collector.t}
    BY <1>6 DEF UpsertLeaderboard
  <2>2. BodiesRestorable' /\ Tables'
    BY <1>1, <2>1, BodiesSame
  <2>3. Collecting'
    <3>1. collector' \in [at : {"off", "observation", "snapshot"}, t : 0 .. hour]
          /\ collector'.at = "off"
      BY <1>1, <2>1 DEF CollectorOff
    <3>2. snaps' \subseteq 0 .. hour
      BY <1>1, <2>1 DEF Collecting
    <3>. QED BY <1>1, <2>1, <3>1, <3>2 DEF Collecting
  <2>4. Reviewed'
    <3>1. \A t : Traced(t)' <=> Traced(t)
      BY <2>1 DEF Traced
    <3>2. compact.at # "idle" => Through(plan.cutoff)' = Through(plan.cutoff)
      BY <1>1, <1>2, <1>3, <2>1 DEF Reviewed, Through
    <3>3. compact.at # "idle" => KeepTimes(plan.cutoff)' = KeepTimes(plan.cutoff)
      BY <1>3, <3>2 DEF KeepTimes
    <3>. QED BY <1>1, <1>3, <2>1, <3>1, <3>2, <3>3 DEF Reviewed, CollectorOff
  <2>5. CompactionTypeOK'
    BY <1>0, <1>3, <2>2, <2>3, CompactionTyped
  <2>. QED BY <2>2, <2>3, <2>4, <2>5 DEF CompactionInv
<1>. QED BY <1>4, <1>5, <1>6 DEF Collect

(* The review.                                                             *)
LEMMA PlanKeeps ==
  ASSUME CompactionInv, BuildPlan
  PROVE CompactionInv'
<1>1. /\ Collecting /\ Tables /\ BodiesRestorable /\ Reviewed
      /\ snaps \subseteq 0 .. hour /\ hour \in Nat /\ snaps # {}
      /\ compact.at = "idle"
      /\ UNCHANGED <<hour, obs, payloads, snaps, collector, compact>>
  BY CompactionAssumption DEF CompactionInv, BuildPlan, Collecting
<1>. DEFINE cutoff == Max(snaps)
            source == Cardinality(Through(cutoff))
            keep == Cardinality(KeepTimes(cutoff))
<1>2. cutoff \in snaps
  <2>1. \E m \in snaps : \A n \in snaps : m >= n
    <3>1. \E m \in snaps : \A n \in snaps : n <= m
      BY <1>1, GreatestElement
    <3>. QED BY <1>1, <3>1
  <2>. QED BY <2>1 DEF Max
<1>3. /\ ~ PlanRefused(cutoff)
      /\ plan' = [ready |-> TRUE, at |-> hour, cutoff |-> cutoff, source |-> source,
                  keep |-> keep, rows |-> Cardinality(obs)]
  BY DEF BuildPlan
<1>4. keep # source
  BY <1>3 DEF PlanRefused
<1>. HIDE DEF cutoff
<1>5. keep \in 1 .. source - 1
  <2>1. /\ cutoff \in KeepTimes(cutoff) /\ KeepTimes(cutoff) \subseteq Through(cutoff)
        /\ IsFiniteSet(Through(cutoff))
    BY <1>1, <1>2, KeptFacts
  <2>2. IsFiniteSet(KeepTimes(cutoff)) /\ keep <= source
    BY <2>1, FS_Subset
  <2>3. keep \in Nat /\ source \in Nat
    BY <2>1, <2>2, FS_CardinalityType
  <2>4. keep # 0
    BY <2>1, <2>2, FS_EmptySet
  <2>. QED BY <1>4, <2>2, <2>3, <2>4
<1>. HIDE DEF keep, source
<1>6. plan'.cutoff = cutoff /\ plan'.keep = keep /\ plan'.source = source
  BY <1>3
<1>7. BodiesRestorable' /\ Tables' /\ Collecting'
  BY <1>1, BodiesSame DEF Collecting
<1>8. Reviewed'
  BY <1>1, <1>2, <1>6 DEF Reviewed
<1>9. CompactionTypeOK'
  BY <1>1, <1>5, <1>6, <1>7, CompactionTyped
<1>. QED BY <1>7, <1>8, <1>9 DEF CompactionInv

(* The phases before the last.                                             *)
LEMMA PhaseKeeps ==
  ASSUME CompactionInv,
         Preflight \/ Normalize \/ SecondPreflight \/ CheckLeaderboard \/ KillCompaction
  PROVE CompactionInv'
<1>1. /\ Collecting /\ Tables /\ BodiesRestorable /\ Reviewed
      /\ UNCHANGED <<hour, snaps, collector, plan>>
      /\ plan.ready => plan.keep \in 1 .. plan.source - 1
      /\ compact.at \in {"idle", "normalize", "normalized", "leaderboard", "rebuild"}
      /\ compact = [at |-> compact.at, keep |-> compact.keep]
  BY DEF CompactionInv, CompactionTypeOK, Reviewed, Preflight, Normalize, SecondPreflight,
         CheckLeaderboard, KillCompaction
<1>2. BodiesRestorable' /\ Tables'
  <2>1. CASE Normalize
    BY <1>1, <2>1, BodiesNormalized
  <2>2. CASE UNCHANGED <<obs, payloads>>
    BY <1>1, <2>2, BodiesSame
  <2>. QED BY <2>1, <2>2 DEF Preflight, SecondPreflight, CheckLeaderboard, KillCompaction
<1>3. Collecting'
  <2>1. payloads[Board] = Board => payloads'[Board] = Board
    <3>1. CASE UNCHANGED payloads
      BY <3>1
    <3>2. CASE /\ Normalize /\ ~ HashConflict
               /\ payloads' = [h \in DOMAIN payloads |-> Stored(h)]
      <4>1. payloads'[Board] = Stored(Board)
        BY <1>1, <3>2 DEF Tables
      <4>. QED BY <1>1, <3>2, <4>1, StoredFacts, DistinctBodies
    <3>. QED BY <3>1, <3>2 DEF Preflight, Normalize, SecondPreflight, CheckLeaderboard,
                               KillCompaction
  <2>. QED BY <1>1, <2>1 DEF Collecting
<1>4. \A t : Traced(t) => Traced(t)'
  <2>1. obs' = obs \/ obs' = {[o EXCEPT !.body = Empty] : o \in obs}
    BY DEF Preflight, Normalize, SecondPreflight, CheckLeaderboard, KillCompaction
  <2>. QED BY <1>1, <2>1, TracedSame
<1>5. Reviewed' /\ compact'.at \in {"idle", "normalize", "normalized", "leaderboard", "rebuild"}
  <2>1. CASE compact' = CompactIdle
    <3>1. compact'.at = "idle"
      BY <2>1 DEF CompactIdle
    <3>. QED BY <1>1, <1>4, <2>1, <3>1, ReviewedSame
  <2>2. CASE Preflight
    <3>1. compact' = [at |-> "normalize", keep |-> 0] /\ plan.ready /\ collector.at = "off"
      BY <2>2 DEF Preflight, CompactIdle, PlanFresh
    <3>. QED BY <1>1, <3>1 DEF Reviewed
  <2>3. CASE /\ compact.at # "idle" /\ UNCHANGED obs
             /\ \E at \in {"normalized", "leaderboard"} : compact' = [compact EXCEPT !.at = at]
    BY <1>1, <2>3 DEF Reviewed
  <2>4. CASE /\ compact.at # "idle" /\ compact' = [compact EXCEPT !.at = "normalized"]
    BY <1>1, <2>4 DEF Reviewed
  <2>5. CASE /\ CheckLeaderboard
             /\ \E n : compact' = [at |-> "rebuild", keep |-> n]
             /\ ~ Untraced(Through(plan.cutoff) \ KeepTimes(plan.cutoff))
    <3>1. compact.at # "idle" /\ compact'.at = "rebuild" /\ UNCHANGED obs
          /\ compact' = [at |-> compact'.at, keep |-> compact'.keep]
      BY <2>5 DEF CheckLeaderboard
    <3>2. /\ Through(plan.cutoff)' = Through(plan.cutoff)
          /\ KeepTimes(plan.cutoff)' = KeepTimes(plan.cutoff)
      BY <1>1 DEF Through, KeepTimes
    <3>. QED BY <1>1, <1>4, <2>5, <3>1, <3>2 DEF Reviewed, Untraced
  <2>6. Normalize => compact' = CompactIdle
                     \/ (compact.at # "idle" /\ compact' = [compact EXCEPT !.at = "normalized"])
    BY DEF Normalize, Fails
  <2>7. SecondPreflight => \/ compact' = CompactIdle
                           \/ /\ compact.at # "idle" /\ UNCHANGED obs
                              /\ compact' = [compact EXCEPT !.at = "leaderboard"]
    BY DEF SecondPreflight
  <2>8. CheckLeaderboard => \/ compact' = CompactIdle
                            \/ /\ \E n : compact' = [at |-> "rebuild", keep |-> n]
                               /\ ~ Untraced(Through(plan.cutoff) \ KeepTimes(plan.cutoff))
    BY DEF CheckLeaderboard, Fails
  <2>9. KillCompaction => compact' = CompactIdle
    BY DEF KillCompaction, Fails
  <2>. QED BY <2>1, <2>2, <2>3, <2>4, <2>5, <2>6, <2>7, <2>8, <2>9
<1>6. CompactionTypeOK'
  BY <1>1, <1>2, <1>3, <1>5, CompactionTyped
<1>. QED BY <1>2, <1>3, <1>5, <1>6 DEF CompactionInv

LEMMA RebuildKeeps ==
  ASSUME CompactionInv, Rebuild
  PROVE /\ CompactionInv'
        /\ \A t \in snaps \ snaps' :
              /\ t <= plan.cutoff /\ Traced(t)
              /\ \E u \in snaps' : u > t /\ BinOf(u) = BinOf(t)
<1>1. /\ Collecting /\ Tables /\ BodiesRestorable /\ Reviewed
      /\ compact.at = "rebuild" /\ compact' = CompactIdle /\ compact'.at = "idle"
      /\ UNCHANGED <<hour, obs, payloads, collector, plan>>
      /\ snaps' \in {snaps, Rebuilt}
  BY DEF CompactionInv, Rebuild, Fails, CompactIdle
<1>2. /\ plan.cutoff \in snaps /\ plan.keep \in 1 .. plan.source - 1
      /\ \A t \in Through(plan.cutoff) \ KeepTimes(plan.cutoff) : Traced(t)
  BY <1>1 DEF CompactionInv, CompactionTypeOK, Reviewed
<1>3. /\ plan.cutoff \in KeepTimes(plan.cutoff)
      /\ KeepTimes(plan.cutoff) \subseteq snaps
      /\ \A t \in Through(plan.cutoff) \ KeepTimes(plan.cutoff) :
            \E u \in KeepTimes(plan.cutoff) : u > t /\ BinOf(u) = BinOf(t)
  BY <1>1, <1>2, KeptFacts
<1>4. Rebuilt \subseteq snaps /\ plan.cutoff \in Rebuilt
  BY <1>3 DEF Rebuilt
<1>5. BodiesRestorable' /\ Tables' /\ Collecting'
  BY <1>1, <1>4, BodiesSame DEF Collecting
<1>6. Reviewed'
  BY <1>1, <1>2, <1>4 DEF Reviewed, CompactIdle
<1>7. CompactionTypeOK'
  BY <1>1, <1>2, <1>5, CompactionTyped
<1>8. ASSUME NEW t \in snaps \ Rebuilt
      PROVE /\ t <= plan.cutoff /\ Traced(t)
            /\ \E u \in Rebuilt : u > t /\ BinOf(u) = BinOf(t)
  <2>4. \A u \in snaps : u \in Nat
    BY <1>1, CompactionAssumption DEF Collecting
  <2>1. t \in Nat /\ plan.cutoff \in Nat
    <3>1. t \in snaps
      BY <1>8
    <3>2. plan.cutoff \in snaps
      BY <1>2
    <3>. QED BY <2>4, <3>1, <3>2
  <2>2. t <= plan.cutoff
    BY <1>8, <2>1 DEF Rebuilt
  <2>3. t \in Through(plan.cutoff) \ KeepTimes(plan.cutoff)
    BY <1>8, <2>2 DEF Rebuilt, Through
  <2>. QED BY <1>2, <1>3, <2>2, <2>3 DEF Rebuilt
<1>. QED BY <1>1, <1>5, <1>6, <1>7, <1>8 DEF CompactionInv

LEMMA CompactionInductive ==
  ASSUME CompactionInv, [CompactionNext]_scVars
  PROVE /\ CompactionInv'
        /\ \A t \in snaps \ snaps' :
              /\ t <= plan.cutoff /\ Traced(t)
              /\ \E u \in snaps' : u > t /\ BinOf(u) = BinOf(t)
<1>1. CASE Collect \/ HourPasses
  <2>1. snaps \subseteq snaps'
    BY <1>1 DEF Collect, StorePayload, StoreObservation, UpsertLeaderboard, KillCollector, HourPasses
  <2>. QED BY <1>1, <2>1, CollectKeeps
<1>2. CASE BuildPlan
  BY <1>2, PlanKeeps DEF BuildPlan
<1>3. CASE Preflight \/ Normalize \/ SecondPreflight \/ CheckLeaderboard \/ KillCompaction
  <2>1. snaps' = snaps
    BY <1>3 DEF Preflight, Normalize, SecondPreflight, CheckLeaderboard, KillCompaction
  <2>. QED BY <1>3, <2>1, PhaseKeeps
<1>4. CASE Rebuild
  BY <1>4, RebuildKeeps
<1>5. CASE UNCHANGED scVars
  BY <1>5 DEF CompactionInv, CompactionTypeOK, BodiesRestorable, Restored, Tables, Collecting,
              Reviewed, Through, KeepTimes, Traced, scVars
<1>. QED BY <1>1, <1>2, <1>3, <1>4, <1>5 DEF CompactionNext

(***************************************************************************)
(* Compaction loses nothing, for any tables it finds and whatever the      *)
(* collectors write between its sessions: every body that was received can *)
(* be restored in every state, and a snapshot is thinned out only behind   *)
(* the reviewed cutoff, with its raw leaderboard on record and a later     *)
(* snapshot of its bin kept.                                               *)
(***************************************************************************)
THEOREM CompactionLosesNothingHolds == CompactionSpec => CompactionLosesNothing
<1>1. CompactionInv /\ [CompactionNext]_scVars => CompactionInv'
  BY CompactionInductive
<1>2. CompactionInv /\ [CompactionNext]_scVars =>
        [\A t \in snaps \ snaps' :
            /\ t <= plan.cutoff /\ Traced(t)
            /\ \E u \in snaps' : u > t /\ BinOf(u) = BinOf(t)]_scVars
  BY CompactionInductive
<1>3. CompactionInv => CompactionTypeOK /\ BodiesRestorable
  BY DEF CompactionInv
<1>. QED BY <1>1, <1>2, <1>3, CompactionBegins, PTL
         DEF CompactionSpec, CompactionLosesNothing, ThinnedNotLost

-----------------------------------------------------------------------------
(* StoragePressure.                                                        *)

Sizes == [db : Nat, tape : Nat, other : Nat]
HourReading == [at : Nat, failed : BOOLEAN, pressure : BOOLEAN, action : {"STOP", "WARN", "ALLOW"},
                size : Sizes, within : BOOLEAN]
WrittenIn(hours) == Burst * hours

(* Since it was observed, the mount grew by no more than the capture writes. *)
Observed ==
    \A i \in DOMAIN history :
        /\ history[i].at \in 1 .. clock
        /\ history[i].failed => history[i].action = "STOP"
        /\ history[i].action # "STOP" => Used < StopUsed + WrittenIn(clock - history[i].at)
PressureInv ==
    /\ clock \in 1 .. LastHour /\ done \subseteq {"decide", "guard"}
    /\ size \in Sizes /\ history \in Seq(HourReading)
    /\ Observed
    /\ "guard" \in done /\ capturing => Used < StopUsed + WrittenIn(MaxDecisionAge)
    /\ NeverFull

LEMMA WrittenFacts ==
    ASSUME NEW m \in Nat, NEW n \in Nat
    PROVE  /\ WrittenIn(m) \in Nat /\ WrittenIn(m + 1) = WrittenIn(m) + Burst
           /\ m <= n => WrittenIn(m) <= WrittenIn(n)
<1>1. Burst \in Nat
    BY PressureAssumption
<1>2. Burst * m \in Nat /\ Burst * n \in Nat /\ Burst * (m + 1) = Burst * m + Burst
    BY <1>1
<1>3. m <= n => Burst * m <= Burst * n
    <2> SUFFICES ASSUME m <= n PROVE Burst * m <= Burst * n
        OBVIOUS
    <2>1. n - m \in Nat /\ n = m + (n - m)
        OBVIOUS
    <2>2. Burst * (n - m) \in Nat
        BY <1>1, <2>1
    <2>3. Burst * n = Burst * m + Burst * (n - m)
        BY <1>1, <2>1
    <2> QED BY <1>2, <2>2, <2>3
<1> QED BY <1>2, <1>3 DEF WrittenIn

LEMMA PressureRanges ==
    ASSUME PressureInv
    PROVE  /\ clock \in Nat /\ Used \in Nat /\ {StopUsed, Capacity, MaxDecisionAge, Burst, HistoryWindow} \subseteq Nat /\ Burst # 0
           /\ Len(history) \in Nat /\ DOMAIN history = 1 .. Len(history)
           /\ \A i \in DOMAIN history : history[i].at \in Nat /\ clock - history[i].at \in Nat
           /\ history # <<>> => Len(history) \in DOMAIN history
<1>1. /\ {StopUsed, Capacity, MaxDecisionAge, Burst, HistoryWindow, LastHour} \subseteq Nat /\ Burst # 0
    BY PressureAssumption
<1>2. clock \in Nat /\ size.db \in Nat /\ size.tape \in Nat /\ size.other \in Nat
    BY <1>1 DEF PressureInv, Sizes
<1>3. Len(history) \in Nat /\ DOMAIN history = 1 .. Len(history) /\ (history # <<>> => Len(history) \in DOMAIN history)
    BY LenProperties, EmptySeq DEF PressureInv
<1>4. \A i \in DOMAIN history : history[i].at \in Nat /\ clock - history[i].at \in Nat
    BY <1>2 DEF PressureInv, Observed
<1>5. Used \in Nat
    BY <1>2 DEF Used
<1> QED BY <1>1, <1>2, <1>3, <1>4, <1>5

LEMMA PressureStart == PressureInit => PressureInv
<1> SUFFICES ASSUME PressureInit PROVE PressureInv
    OBVIOUS
<1>1. clock \in 1 .. LastHour /\ size \in Sizes
    BY PressureAssumption DEF PressureInit, Sizes
<1>2. history \in Seq(HourReading) /\ DOMAIN history = {} /\ "guard" \notin done /\ done \subseteq {"decide", "guard"}
    BY DEF PressureInit
<1> QED BY <1>1, <1>2 DEF PressureInv, Observed, PressureInit, NeverFull

(* A decision that may be kept says how full the mount was. *)
LEMMA DecideFits == ASSUME PressureInv, NEW baseline \in BOOLEAN, Decide(baseline) PROVE PressureInv'
<1> DEFINE stops == Stops(Pressure, baseline)
           o == [at |-> clock, failed |-> CannotDecide(baseline), pressure |-> stops,
                 action |-> IF stops THEN "STOP" ELSE IF Used >= WarnUsed THEN "WARN" ELSE "ALLOW",
                 size |-> size, within |-> Within /\ Used < BoundUsed]
           a == Append(history, o)
<1>1. /\ history' = Bounded(a) /\ done' = done \cup {"decide"}
      /\ UNCHANGED <<clock, size, capturing>> /\ history \in Seq(HourReading)
    BY DEF Decide, PressureInv
<1>2. o \in HourReading
    <2>1. CannotDecide(baseline) \in BOOLEAN /\ stops \in BOOLEAN /\ (Within /\ Used < BoundUsed) \in BOOLEAN
        BY DEF CannotDecide, Stops
    <2>2. size \in Sizes /\ clock \in Nat
        BY PressureRanges DEF PressureInv
    <2> HIDE DEF stops
    <2> QED BY <2>1, <2>2 DEF HourReading
<1>3. /\ o.at = clock
      /\ o.failed => o.action = "STOP"
      /\ o.action # "STOP" => Used < StopUsed
    <2>1. o.failed => stops
        BY DEF Stops
    <2>2. ~stops => Used < StopUsed
        BY PressureRanges DEF Stops, Pressure, PressureNow
    <2> HIDE DEF stops
    <2> QED BY <2>1, <2>2
<1> HIDE DEF o
<1>4. /\ a \in Seq(HourReading) /\ DOMAIN a = 1 .. Len(history) + 1 /\ Len(history) \in Nat
      /\ \A i \in DOMAIN a : (i \in DOMAIN history /\ a[i] = history[i]) \/ a[i] = o
    <2>1. /\ a \in Seq(HourReading) /\ Len(a) = Len(history) + 1 /\ DOMAIN a = 1 .. Len(history) + 1 /\ Len(history) \in Nat
          /\ \A i \in 1 .. Len(history) : a[i] = history[i]
          /\ a[Len(history) + 1] = o
        BY <1>1, <1>2, AppendProperties, LenProperties
    <2>2. DOMAIN history = 1 .. Len(history)
        BY PressureRanges
    <2> QED BY <2>1, <2>2
<1>5. /\ history' \in Seq(HourReading)
      /\ \A i \in DOMAIN history' : \E j \in DOMAIN a : history'[i] = a[j]
    <2>1. a # <<>> /\ Len(a) = Len(history) + 1
        BY <1>4, LenProperties, EmptySeq
    <2>2. CASE Len(a) > HistoryWindow
        <3>1. history' = Tail(a)
            BY <1>1, <2>2 DEF Bounded
        <3>2. Tail(a) \in Seq(HourReading) /\ Len(Tail(a)) = Len(a) - 1 /\ \A i \in 1 .. Len(Tail(a)) : Tail(a)[i] = a[i + 1]
            BY <1>4, <2>1, HeadTailProperties
        <3>3. DOMAIN Tail(a) = 1 .. Len(history)
            BY <2>1, <3>2, LenProperties
        <3>4. \A i \in DOMAIN Tail(a) : i + 1 \in DOMAIN a
            BY <1>4, <3>3
        <3> QED BY <1>4, <2>1, <3>1, <3>2, <3>3, <3>4
    <2>3. CASE ~(Len(a) > HistoryWindow)
        <3>1. history' = a
            BY <1>1, <2>3 DEF Bounded
        <3> QED BY <1>4, <3>1
    <2> QED BY <2>2, <2>3
<1>6. Used' = Used
    BY <1>1 DEF Used
<1>7. Observed'
    <2>1. \A j \in DOMAIN a : /\ a[j].at \in 1 .. clock
                              /\ a[j].failed => a[j].action = "STOP"
                              /\ a[j].action # "STOP" => Used < StopUsed + WrittenIn(clock - a[j].at)
        <3>1. WrittenIn(0) \in Nat /\ clock - clock = 0 /\ clock \in 1 .. clock
            BY PressureRanges, WrittenFacts DEF PressureInv
        <3>2. o.at \in 1 .. clock /\ (o.failed => o.action = "STOP") /\ (o.action # "STOP" => Used < StopUsed + WrittenIn(clock - o.at))
            BY <1>3, <3>1, PressureRanges
        <3>3. \A i \in DOMAIN history : /\ history[i].at \in 1 .. clock
                                        /\ history[i].failed => history[i].action = "STOP"
                                        /\ history[i].action # "STOP" => Used < StopUsed + WrittenIn(clock - history[i].at)
            BY DEF PressureInv, Observed
        <3> HIDE DEF a
        <3> SUFFICES ASSUME NEW j \in DOMAIN a
                     PROVE  /\ a[j].at \in 1 .. clock
                            /\ a[j].failed => a[j].action = "STOP"
                            /\ a[j].action # "STOP" => Used < StopUsed + WrittenIn(clock - a[j].at)
            OBVIOUS
        <3>4. CASE a[j] = o
            BY <3>2, <3>4
        <3>5. CASE j \in DOMAIN history /\ a[j] = history[j]
            BY <3>3, <3>5
        <3> QED BY <1>4, <3>4, <3>5
    <2> HIDE DEF a
    <2> QED BY <1>1, <1>5, <1>6, <2>1 DEF Observed
<1>8. "guard" \in done' => "guard" \in done
    BY <1>1
<1> QED BY <1>1, <1>5, <1>6, <1>7, <1>8 DEF PressureInv, NeverFull

(* The capture runs on only by a fresh decision. *)
LEMMA FreshFits ==
    ASSUME PressureInv, DecisionFresh, Latest.action # "STOP"
    PROVE  Used < StopUsed + WrittenIn(MaxDecisionAge)
<1> DEFINE age == clock - Latest.at
<1>1. Len(history) \in DOMAIN history
    BY PressureRanges DEF DecisionFresh
<1>2. age \in Nat /\ age <= MaxDecisionAge /\ Used < StopUsed + WrittenIn(age)
    BY <1>1, PressureRanges DEF DecisionFresh, Latest, PressureInv, Observed
<1>3. WrittenIn(age) <= WrittenIn(MaxDecisionAge) /\ WrittenIn(age) \in Nat /\ WrittenIn(MaxDecisionAge) \in Nat
    BY <1>2, WrittenFacts, PressureRanges
<1> HIDE DEF age
<1> QED BY <1>2, <1>3, PressureRanges

LEMMA HourFits == ASSUME MarginCovers, PressureInv, HourEnds PROVE PressureInv'
<1>1. PICK grown \in (IF capturing THEN {0, 1, Burst} ELSE {0}) : size' = [size EXCEPT !.tape = @ + grown]
    BY DEF HourEnds
<1>2. /\ clock' = clock + 1 /\ clock < LastHour /\ done' = {} /\ history' = history /\ "guard" \in done
    BY DEF HourEnds
<1>3. grown \in Nat /\ grown <= Burst /\ (grown # 0 => capturing)
    BY PressureRanges
<1>4. size' \in Sizes /\ Used' = Used + grown
    BY <1>1, <1>3 DEF PressureInv, Sizes, Used
<1>5. clock' \in 1 .. LastHour
    BY <1>2, PressureRanges, PressureAssumption DEF PressureInv
<1>6. Observed'
    <2> SUFFICES ASSUME NEW i \in DOMAIN history
                 PROVE  /\ history[i].at \in 1 .. clock'
                        /\ history[i].failed => history[i].action = "STOP"
                        /\ history[i].action # "STOP" => Used' < StopUsed + WrittenIn(clock' - history[i].at)
        BY <1>2 DEF Observed
    <2> DEFINE age == clock - history[i].at
    <2>1. /\ age \in Nat /\ clock' - history[i].at = age + 1 /\ history[i].at \in 1 .. clock'
          /\ history[i].failed => history[i].action = "STOP"
          /\ history[i].action # "STOP" => Used < StopUsed + WrittenIn(age)
        BY <1>2, PressureRanges DEF PressureInv, Observed
    <2> HIDE DEF age
    <2>2. WrittenIn(age + 1) = WrittenIn(age) + Burst /\ WrittenIn(age) \in Nat
        BY <2>1, WrittenFacts
    <2> QED BY <1>3, <1>4, <2>1, <2>2, PressureRanges
<1>7. Used' < Capacity
    <2>1. CASE grown = 0
        BY <1>4, <2>1, PressureRanges DEF PressureInv, NeverFull
    <2>2. CASE capturing
        <3>1. Used < StopUsed + WrittenIn(MaxDecisionAge)
            BY <1>2, <2>2 DEF PressureInv
        <3>2. WrittenIn(MaxDecisionAge + 1) = WrittenIn(MaxDecisionAge) + Burst /\ WrittenIn(MaxDecisionAge) \in Nat
            BY WrittenFacts, PressureRanges
        <3>3. (MaxDecisionAge + 1) * Burst = WrittenIn(MaxDecisionAge + 1)
            BY PressureRanges DEF WrittenIn
        <3> QED BY <1>3, <1>4, <3>1, <3>2, <3>3, PressureRanges DEF MarginCovers
    <2> QED BY <1>3, <2>1, <2>2
<1>8. "guard" \notin done' /\ done' \subseteq {"decide", "guard"} /\ history' \in Seq(HourReading)
    BY <1>2 DEF PressureInv
<1> QED BY <1>4, <1>5, <1>6, <1>7, <1>8 DEF PressureInv, NeverFull

LEMMA ReclaimFits == ASSUME PressureInv, Reclaim PROVE PressureInv'
<1>1. /\ UNCHANGED <<clock, capturing, history, done>> /\ size' = [size EXCEPT !.db = 1] /\ size.db > 1
    BY DEF Reclaim
<1>2. size' \in Sizes /\ Used' <= Used /\ Used' \in Nat
    <2>1. size \in [db : Nat, tape : Nat, other : Nat]
        BY DEF PressureInv, Sizes
    <2>2. size.db \in Nat /\ size.tape \in Nat /\ size.other \in Nat
        BY <2>1
    <2>3. size'.db = 1 /\ size'.tape = size.tape /\ size'.other = size.other
        BY <1>1, <2>1
    <2>4. size' \in [db : Nat, tape : Nat, other : Nat]
        BY <1>1, <2>1
    <2> QED BY <1>1, <2>2, <2>3, <2>4 DEF Sizes, Used
<1>3. Observed'
    <2> SUFFICES ASSUME NEW i \in DOMAIN history
                 PROVE  /\ history[i].at \in 1 .. clock
                        /\ history[i].failed => history[i].action = "STOP"
                        /\ history[i].action # "STOP" => Used' < StopUsed + WrittenIn(clock - history[i].at)
        BY <1>1 DEF Observed
    <2>1. WrittenIn(clock - history[i].at) \in Nat
        BY PressureRanges, WrittenFacts
    <2> QED BY <1>2, <2>1, PressureRanges DEF PressureInv, Observed
<1>4. "guard" \in done' /\ capturing' => Used' < StopUsed + WrittenIn(MaxDecisionAge)
    <2>1. WrittenIn(MaxDecisionAge) \in Nat
        BY PressureRanges, WrittenFacts
    <2> QED BY <1>1, <1>2, <2>1, PressureRanges DEF PressureInv
<1>5. Used' < Capacity
    BY <1>2, PressureRanges DEF PressureInv, NeverFull
<1> QED BY <1>1, <1>2, <1>3, <1>4, <1>5 DEF PressureInv, NeverFull

LEMMA PressureStep == MarginCovers /\ PressureInv /\ [PressureNext]_spVars => PressureInv'
<1> SUFFICES ASSUME MarginCovers, PressureInv, [PressureNext]_spVars PROVE PressureInv'
    OBVIOUS
<1>1. ASSUME NEW baseline \in BOOLEAN, Decide(baseline) PROVE PressureInv'
    BY <1>1, DecideFits
<1>2. CASE Guard
    <2>1. /\ UNCHANGED <<clock, size, history>> /\ done' = done \cup {"guard"}
          /\ capturing' = (capturing /\ DecisionFresh /\ Latest.action # "STOP")
        BY <1>2 DEF Guard
    <2>2. capturing' => Used < StopUsed + WrittenIn(MaxDecisionAge)
        BY <2>1, FreshFits
    <2> QED BY <2>1, <2>2 DEF PressureInv, Observed, NeverFull, Used
<1>3. CASE ResumeCapture
    <2>1. UNCHANGED <<clock, size, history, done>> /\ DecisionFresh /\ Latest.action = "ALLOW"
        BY <1>3 DEF ResumeCapture
    <2>2. Used < StopUsed + WrittenIn(MaxDecisionAge)
        BY <2>1, FreshFits
    <2> QED BY <2>1, <2>2 DEF PressureInv, Observed, NeverFull, Used
<1>4. CASE HourEnds
    BY <1>4, HourFits
<1>5. CASE Reclaim
    BY <1>5, ReclaimFits
<1>6. CASE Evaluate
    BY <1>6 DEF Evaluate, PressureInv, Observed, NeverFull, Used
<1>7. CASE UNCHANGED spVars
    BY <1>7 DEF spVars, PressureInv, Observed, NeverFull, Used
<1> QED BY <1>1, <1>2, <1>3, <1>4, <1>5, <1>6, <1>7 DEF PressureNext

(***************************************************************************)
(* The storage decision and the guard that obeys it: whenever the          *)
(* controller fails to run or to read, and however the capture bursts, the *)
(* mount never fills, if between the stop threshold and the capacity there *)
(* is room for what the capture writes while a decision is fresh, and in   *)
(* the hour until the guard runs again.                                    *)
(***************************************************************************)
THEOREM PressureHandledHolds == ASSUME MarginCovers PROVE PressureSpec => []PressureHandled
<1>1. PressureInv => PressureHandled
    BY DEF PressureInv, Observed, PressureHandled, PressureTypeOK
<1>2. PressureInv /\ [PressureNext]_spVars => PressureInv'
    BY PressureStep
<1> QED BY <1>1, <1>2, PressureStart, PTL DEF PressureSpec

-----------------------------------------------------------------------------
(* StorageRetention.                                                       *)

Planned(row) == row = [path |-> row.path, bytes |-> row.bytes, inode |-> row.inode]
Listed(row) == [path |-> row.path, bytes |-> row.bytes]

RetentionShape ==
    /\ audit = [no |-> audit.no, fresh |-> audit.fresh, rows |-> audit.rows, kept |-> audit.kept,
                day |-> audit.day, known |-> audit.known]
    /\ prefix = [no |-> prefix.no, rows |-> prefix.rows]
    /\ reviewTask = [at |-> reviewTask.at, no |-> reviewTask.no, rows |-> reviewTask.rows,
                     kept |-> reviewTask.kept, exact |-> reviewTask.exact]
    /\ deletion = [at |-> deletion.at, exact |-> deletion.exact, todo |-> deletion.todo]
    /\ audit.no \in Nat /\ prefix.no \in Nat /\ reviewTask.no \in Nat
    /\ \A r \in audit.rows : Listed(r) = r
    /\ \A row \in prefix.rows \cup reviewTask.rows \cup deletion.todo : Planned(row)

(* A review of the manifest on disk keeps no coin that the manifest does not. *)
Knows ==
    /\ audit.known \subseteq audit.kept
    /\ reviewTask.no = audit.no => reviewTask.kept \subseteq audit.kept

(* What a running apply has still to do was approved.                      *)
Approving ==
    /\ deletion.at \in {"idle", "run"}
    /\ deletion.at = "run" =>
        /\ reviewTask.at = "accepted"
        /\ deletion.exact => deletion.todo \subseteq reviewTask.rows
        /\ \A row \in deletion.todo : Coin(row.path) \notin reviewTask.kept

RetentionInv == RetentionTypeOK /\ RetentionShape /\ Knows /\ Approving

LEMMA RetentionBegins == RetentionInit => RetentionInv
BY DEF RetentionInit, RetentionInv, RetentionTypeOK, RetentionShape, Knows, Approving,
       NoAudit, NoPrefix, NoReview, DeletionIdle

(* What may be planned or applied now comes from the manifest. *)
LEMMA IdentifiedFacts ==
  ASSUME RetentionShape, NEW row \in Identified
  PROVE /\ Planned(row) /\ Listed(row) \in audit.rows
        /\ Valid => Coin(row.path) \notin audit.kept
<1>1. PICK r \in audit.rows :
        row = [path |-> r.path, bytes |-> r.bytes, inode |-> parts[r.path].inode]
  BY DEF Identified
<1>2. Planned(row) /\ Listed(row) = Listed(r) /\ row.path = r.path
  BY <1>1 DEF Planned, Listed
<1>. QED BY <1>1, <1>2 DEF RetentionShape, Valid

LEMMA AuditKeeps ==
  ASSUME RetentionInv, Audit
  PROVE RetentionInv'
<1>1. /\ audit' = [no |-> audit.no + 1, fresh |-> TRUE,
                   rows |-> {[path |-> p, bytes |-> parts[p].bytes] : p \in Candidates},
                   kept |-> Protected, day |-> today, known |-> funnel.positive]
      /\ deletion.at = "idle"
      /\ UNCHANGED <<today, parts, freed, funnel, prefix, reviewTask, deletion, srBudget>>
  BY DEF Audit
<1>2. /\ audit'.no = audit.no + 1 /\ audit'.kept = Protected /\ audit'.known = funnel.positive
      /\ audit'.rows = {[path |-> p, bytes |-> parts[p].bytes] : p \in Candidates}
  BY <1>1
<1>3. /\ audit.no \in Nat /\ prefix.no \in Nat /\ reviewTask.no \in Nat
      /\ prefix.no <= audit.no /\ reviewTask.no <= audit.no
  BY DEF RetentionInv, RetentionShape, RetentionTypeOK
<1>4. audit'.no \in Nat /\ prefix.no < audit'.no /\ reviewTask.no < audit'.no
  BY <1>2, <1>3
<1>5. RetentionTypeOK'
  BY <1>1, <1>3, <1>4 DEF RetentionInv, RetentionTypeOK
<1>6. \A r \in audit'.rows : Listed(r) = r
  BY <1>2 DEF Listed
<1>7. audit' = [no |-> audit'.no, fresh |-> audit'.fresh, rows |-> audit'.rows,
                kept |-> audit'.kept, day |-> audit'.day, known |-> audit'.known]
  BY <1>1
<1>8. RetentionShape'
  BY <1>1, <1>4, <1>6, <1>7 DEF RetentionInv, RetentionShape, Planned, Listed
<1>9. Knows'
  BY <1>1, <1>2, <1>3, <1>4 DEF Knows, Protected
<1>10. Approving'
  BY <1>1 DEF RetentionInv, Approving
<1>. QED BY <1>5, <1>8, <1>9, <1>10 DEF RetentionInv

LEMMA DryRunKeeps ==
  ASSUME RetentionInv, DryRun
  PROVE RetentionInv'
<1>1. PICK rows \in SUBSET Identified : prefix' = [no |-> audit.no, rows |-> rows]
  BY DEF DryRun
<1>2. UNCHANGED <<today, parts, freed, funnel, audit, reviewTask, deletion, srBudget>>
  BY DEF DryRun
<1>3. prefix'.no = audit.no /\ prefix'.rows = rows
  BY <1>1
<1>4. \A row \in rows : Planned(row) /\ Listed(row) \in audit.rows
  BY IdentifiedFacts DEF RetentionInv
<1>5. RetentionTypeOK'
  <2>1. {[path |-> r.path, bytes |-> r.bytes] : r \in prefix'.rows} \subseteq audit'.rows
    BY <1>2, <1>3, <1>4 DEF Listed
  <2>2. prefix'.no <= audit'.no
    BY <1>2, <1>3 DEF RetentionInv, RetentionShape
  <2>. QED BY <1>2, <2>1, <2>2 DEF RetentionInv, RetentionTypeOK
<1>6. RetentionShape'
  <2>1. \A row \in prefix'.rows \cup reviewTask'.rows \cup deletion'.todo : Planned(row)
    BY <1>2, <1>3, <1>4 DEF RetentionInv, RetentionShape
  <2>2. prefix' = [no |-> prefix'.no, rows |-> prefix'.rows]
    BY <1>1
  <2>. QED BY <1>2, <1>3, <2>1, <2>2 DEF RetentionInv, RetentionShape, Planned, Listed
<1>. QED BY <1>2, <1>5, <1>6 DEF RetentionInv, Knows, Approving

(* The review. *)
LEMMA ReviewKeeps ==
  ASSUME RetentionInv, AskReview \/ ReviewRuns \/ VerifyReview \/ DirectReview \/ ReviewAgain
  PROVE RetentionInv'
<1>1. UNCHANGED <<today, parts, freed, funnel, audit, prefix, deletion, srBudget>>
  BY DEF AskReview, ReviewRuns, VerifyReview, DirectReview, ReviewAgain
<1>2. reviewTask.at # "accepted"
  BY DEF AskReview, ReviewRuns, VerifyReview, DirectReview, ReviewAgain
<1>. DEFINE Blank == reviewTask'.no = 0 /\ reviewTask'.rows = {} /\ reviewTask'.kept = {}
            Same == /\ reviewTask'.no = reviewTask.no /\ reviewTask'.rows = reviewTask.rows
                    /\ reviewTask'.kept = reviewTask.kept
            Asked == /\ reviewTask'.no = audit.no /\ reviewTask'.rows = prefix.rows
                     /\ reviewTask'.kept = audit.known
            Formed == /\ reviewTask'.at \in {"none", "running", "done", "accepted", "blocked",
                                             "stale", "rejected"}
                      /\ reviewTask' = [at |-> reviewTask'.at, no |-> reviewTask'.no,
                                        rows |-> reviewTask'.rows, kept |-> reviewTask'.kept,
                                        exact |-> reviewTask'.exact]
<1>3. reviewTask = [at |-> reviewTask.at, no |-> reviewTask.no, rows |-> reviewTask.rows,
                    kept |-> reviewTask.kept, exact |-> reviewTask.exact]
  BY DEF RetentionInv, RetentionShape
<1>4. Formed /\ (Blank \/ Same \/ Asked)
  <2>1. CASE AskReview
    BY <2>1 DEF AskReview
  <2>2. CASE ReviewRuns
    <3>1. PICK exact \in BOOLEAN : \/ reviewTask' = NoReview
                                   \/ reviewTask' = [reviewTask EXCEPT !.at = "done", !.exact = exact]
      BY <2>2 DEF ReviewRuns
    <3>2. CASE reviewTask' = NoReview
      BY <3>2 DEF NoReview
    <3>3. CASE reviewTask' = [reviewTask EXCEPT !.at = "done", !.exact = exact]
      <4>1. reviewTask' = [at |-> "done", no |-> reviewTask.no, rows |-> reviewTask.rows,
                           kept |-> reviewTask.kept, exact |-> exact]
        BY <1>3, <3>3
      <4>. QED BY <4>1
    <3>. QED BY <3>1, <3>2, <3>3
  <2>3. CASE VerifyReview
    <3>1. PICK at \in {"accepted", "blocked"} : reviewTask' = [reviewTask EXCEPT !.at = at]
      BY <2>3 DEF VerifyReview
    <3>2. reviewTask' = [at |-> at, no |-> reviewTask.no, rows |-> reviewTask.rows,
                         kept |-> reviewTask.kept, exact |-> reviewTask.exact]
      BY <1>3, <3>1
    <3>. QED BY <3>2
  <2>4. CASE DirectReview
    <3>1. PICK end \in {"stale", "rejected"} : reviewTask' = [NoReview EXCEPT !.at = end]
      BY <2>4 DEF DirectReview
    <3>2. reviewTask' = [at |-> end, no |-> 0, rows |-> {}, kept |-> {}, exact |-> FALSE]
      BY <3>1 DEF NoReview
    <3>. QED BY <3>2
  <2>5. CASE ReviewAgain
    BY <2>5 DEF ReviewAgain, NoReview
  <2>. QED BY <2>1, <2>2, <2>3, <2>4, <2>5
<1>. HIDE DEF Blank, Same, Asked, Formed
<1>5. reviewTask'.no \in Nat /\ reviewTask'.no <= audit.no
  BY <1>4 DEF Blank, Same, Asked, RetentionInv, RetentionShape, RetentionTypeOK
<1>6. RetentionTypeOK'
  BY <1>1, <1>4, <1>5 DEF Formed, RetentionInv, RetentionTypeOK
<1>7. \A row \in reviewTask'.rows : Planned(row)
  BY <1>4 DEF Blank, Same, Asked, RetentionInv, RetentionShape
<1>8. RetentionShape'
  BY <1>1, <1>4, <1>5, <1>7 DEF Formed, RetentionInv, RetentionShape, Planned, Listed
<1>9. Knows'
  BY <1>1, <1>4 DEF Blank, Same, Asked, RetentionInv, Knows
<1>10. Approving'
  BY <1>1, <1>2 DEF RetentionInv, Approving
<1>. QED BY <1>6, <1>8, <1>9, <1>10 DEF RetentionInv

(* An apply begins with rows that were approved. *)
LEMMA ApplyKeeps ==
  ASSUME RetentionInv, ApplyExact \/ ApplyToTarget
  PROVE RetentionInv'
<1>1. /\ Approved /\ Valid
      /\ UNCHANGED <<today, parts, freed, funnel, audit, prefix, reviewTask, srBudget>>
  BY DEF ApplyExact, ApplyToTarget
<1>2. PICK exact \in BOOLEAN, todo \in SUBSET Identified :
        /\ deletion' = [at |-> "run", exact |-> exact, todo |-> todo]
        /\ exact => todo \subseteq reviewTask.rows
  <2>1. CASE ApplyExact
    <3>1. /\ prefix.rows \subseteq Identified /\ prefix.rows = reviewTask.rows
          /\ deletion' = [at |-> "run", exact |-> TRUE, todo |-> prefix.rows]
      BY <2>1 DEF ApplyExact
    <3>. QED BY <3>1
  <2>2. CASE ApplyToTarget
    <3>1. deletion' = [at |-> "run", exact |-> FALSE, todo |-> Identified]
      BY <2>2 DEF ApplyToTarget
    <3>. QED BY <3>1
  <2>. QED BY <2>1, <2>2
<1>3. deletion'.at = "run" /\ deletion'.exact = exact /\ deletion'.todo = todo
  BY <1>2
<1>4. \A row \in todo : Planned(row) /\ Coin(row.path) \notin audit.kept
  BY <1>1, IdentifiedFacts DEF RetentionInv
<1>5. reviewTask.at = "accepted" /\ reviewTask.kept \subseteq audit.kept
  BY <1>1 DEF Approved, RetentionInv, Knows
<1>6. RetentionShape'
  <2>1. \A row \in prefix'.rows \cup reviewTask'.rows \cup deletion'.todo : Planned(row)
    BY <1>1, <1>3, <1>4 DEF RetentionInv, RetentionShape
  <2>2. deletion' = [at |-> deletion'.at, exact |-> deletion'.exact, todo |-> deletion'.todo]
    BY <1>2
  <2>. QED BY <1>1, <2>1, <2>2 DEF RetentionInv, RetentionShape, Planned, Listed
<1>7. Approving'
  BY <1>1, <1>2, <1>3, <1>4, <1>5 DEF Approving, Coin
<1>. QED BY <1>1, <1>6, <1>7 DEF RetentionInv, RetentionTypeOK, Knows

(* A running apply leaves what was approved, and takes from what it has to do. *)
LEMMA DeletionKeeps ==
  ASSUME RetentionInv, UNCHANGED <<audit, prefix, reviewTask>>,
         DOMAIN parts' \subseteq DOMAIN parts,
         \/ deletion' = DeletionIdle
         \/ \E rows \in SUBSET deletion.todo : deletion' = [deletion EXCEPT !.todo = rows]
  PROVE RetentionInv'
<1>1. deletion = [at |-> deletion.at, exact |-> deletion.exact, todo |-> deletion.todo]
  BY DEF RetentionInv, RetentionShape
<1>2. /\ deletion' = [at |-> deletion'.at, exact |-> deletion'.exact, todo |-> deletion'.todo]
      /\ deletion'.todo \subseteq deletion.todo
      /\ deletion'.at = "idle" \/ (deletion'.at = deletion.at /\ deletion'.exact = deletion.exact)
  <2>1. CASE deletion' = DeletionIdle
    BY <2>1 DEF DeletionIdle
  <2>2. CASE \E rows \in SUBSET deletion.todo : deletion' = [deletion EXCEPT !.todo = rows]
    <3>1. PICK rows \in SUBSET deletion.todo : deletion' = [deletion EXCEPT !.todo = rows]
      BY <2>2
    <3>2. deletion' = [at |-> deletion.at, exact |-> deletion.exact, todo |-> rows]
      BY <1>1, <3>1
    <3>. QED BY <3>2
  <2>. QED BY <2>1, <2>2
<1>3. RetentionTypeOK'
  BY DEF RetentionInv, RetentionTypeOK
<1>4. RetentionShape'
  BY <1>2 DEF RetentionInv, RetentionShape, Planned, Listed
<1>5. Approving'
  BY <1>2 DEF RetentionInv, Approving, Coin
<1>. QED BY <1>3, <1>4, <1>5 DEF RetentionInv, Knows

(* The clock, another program and the expiry of the manifest. *)
LEMMA AroundKeeps ==
  ASSUME RetentionInv, Touch \/ FunnelReports \/ Expire \/ Midnight
  PROVE RetentionInv'
<1>1. UNCHANGED <<prefix, reviewTask, deletion>>
  BY DEF Touch, FunnelReports, Expire, Midnight
<1>2. DOMAIN parts' \subseteq DOMAIN parts
  <2>1. CASE Touch
    <3>1. PICK p \in DOMAIN parts : \/ parts' = [parts EXCEPT ![p].bytes = @ + 1]
                                    \/ parts' = [parts EXCEPT ![p].inode = @ + 1]
                                    \/ parts' = Without(p)
      BY <2>1 DEF Touch
    <3>. QED BY <3>1 DEF Without
  <2>2. CASE FunnelReports \/ Expire \/ Midnight
    BY <2>2 DEF FunnelReports, Expire, Midnight
  <2>. QED BY <2>1, <2>2
<1>3. CASE audit' = audit
  <2>1. RetentionTypeOK'
    BY <1>1, <1>2, <1>3 DEF RetentionInv, RetentionTypeOK
  <2>2. RetentionShape'
    BY <1>1, <1>3 DEF RetentionInv, RetentionShape, Planned, Listed
  <2>. QED BY <1>1, <1>3, <2>1, <2>2 DEF RetentionInv, Knows, Approving, Coin
<1>4. ASSUME NEW fresh, audit' = [audit EXCEPT !.fresh = fresh] PROVE RetentionInv'
  <2>1. audit' = [no |-> audit.no, fresh |-> fresh, rows |-> audit.rows, kept |-> audit.kept,
                  day |-> audit.day, known |-> audit.known]
    BY <1>4 DEF RetentionInv, RetentionShape
  <2>2. /\ audit'.no = audit.no /\ audit'.rows = audit.rows /\ audit'.kept = audit.kept
        /\ audit'.known = audit.known
        /\ audit' = [no |-> audit'.no, fresh |-> audit'.fresh, rows |-> audit'.rows,
                     kept |-> audit'.kept, day |-> audit'.day, known |-> audit'.known]
    BY <2>1
  <2>3. RetentionTypeOK'
    BY <1>1, <1>2, <2>2 DEF RetentionInv, RetentionTypeOK
  <2>4. RetentionShape'
    BY <1>1, <2>2 DEF RetentionInv, RetentionShape, Planned, Listed
  <2>. QED BY <1>1, <2>2, <2>3, <2>4 DEF RetentionInv, Knows, Approving, Coin
<1>. QED BY <1>3, <1>4 DEF Touch, FunnelReports, Expire, Midnight

(* A step of the apply removes at most the partition of the first row. *)
LEMMA DeletionRemoves ==
  ASSUME DeleteNext
  PROVE \E row \in deletion.todo :
            \/ /\ deletion' = [deletion EXCEPT !.todo = @ \ {row}] \/ deletion' = DeletionIdle
               /\ parts' = parts
            \/ /\ deletion' = [deletion EXCEPT !.todo = @ \ {row}]
               /\ row.path \in DOMAIN parts /\ ~ Changed(row) /\ parts' = Without(row.path)
BY DEF DeleteNext, ApplyEnds

LEMMA RetentionInductive == RetentionInv /\ [RetentionNext]_srVars => RetentionInv'
<1>. SUFFICES ASSUME RetentionInv, [RetentionNext]_srVars PROVE RetentionInv'
  OBVIOUS
<1>1. CASE DeleteNext
  <2>1. UNCHANGED <<audit, prefix, reviewTask>>
    BY <1>1 DEF DeleteNext
  <2>2. PICK row \in deletion.todo :
            \/ /\ deletion' = [deletion EXCEPT !.todo = @ \ {row}] \/ deletion' = DeletionIdle
               /\ parts' = parts
            \/ /\ deletion' = [deletion EXCEPT !.todo = @ \ {row}]
               /\ row.path \in DOMAIN parts /\ ~ Changed(row) /\ parts' = Without(row.path)
    BY <1>1, DeletionRemoves
  <2>3. DOMAIN parts' \subseteq DOMAIN parts
    BY <2>2 DEF Without
  <2>4. deletion.todo \ {row} \in SUBSET deletion.todo
    OBVIOUS
  <2>. QED BY <2>1, <2>2, <2>3, <2>4, DeletionKeeps
<1>2. CASE DeletionDone \/ KillDeletion
  <2>1. UNCHANGED <<audit, prefix, reviewTask, parts>> /\ deletion' = DeletionIdle
    BY <1>2 DEF DeletionDone, KillDeletion, ApplyEnds
  <2>. QED BY <2>1, DeletionKeeps
<1>3. CASE UNCHANGED srVars
  BY <1>3 DEF srVars, RetentionInv, RetentionTypeOK, RetentionShape, Knows, Approving, Planned,
              Listed, Coin
<1>. QED BY <1>1, <1>2, <1>3, AuditKeeps, DryRunKeeps, ReviewKeeps, ApplyKeeps, AroundKeeps
         DEF RetentionNext

LEMMA RetentionInvariance == RetentionSpec => []RetentionInv
BY RetentionBegins, RetentionInductive, PTL DEF RetentionSpec

(* What a step of an apply removes is the partition of a row it had to do. *)
LEMMA DeletedWasPlanned ==
  ASSUME RetentionInv, NEW p \in Deleted
  PROVE \E row \in deletion.todo :
            /\ p = row.path /\ deletion.at = "run"
            /\ row = [path |-> p, bytes |-> parts[p].bytes, inode |-> parts[p].inode]
<1>1. DeleteNext /\ p \in DOMAIN parts \ DOMAIN parts'
  BY DEF Deleted
<1>2. PICK row \in deletion.todo :
          \/ parts' = parts
          \/ row.path \in DOMAIN parts /\ ~ Changed(row) /\ parts' = Without(row.path)
  BY <1>1, DeletionRemoves
<1>3. ~ Changed(row) /\ p = row.path
  BY <1>1, <1>2 DEF Without
<1>4. parts[p].bytes = row.bytes /\ parts[p].inode = row.inode
  BY <1>3 DEF Changed
<1>5. Planned(row)
  BY DEF RetentionInv, RetentionShape
<1>6. deletion.at = "run"
  BY <1>1 DEF DeleteNext
<1>. QED BY <1>3, <1>4, <1>5, <1>6 DEF Planned

-----------------------------------------------------------------------------
(***************************************************************************)
(* Whatever is written, replaced, audited again or interrupted between the *)
(* review and the apply, an apply of the exact plan removes the very       *)
(* directories that were approved, and no apply removes the tape of a coin *)
(* that was known to be profitable when the approved manifest was written. *)
(***************************************************************************)
THEOREM DeletesOnlyTheReviewedHolds == RetentionSpec => DeletesOnlyTheReviewed
<1>1. RetentionInv /\ [RetentionNext]_srVars =>
        [\A p \in Deleted : deletion.exact =>
            [path |-> p, bytes |-> parts[p].bytes, inode |-> parts[p].inode] \in reviewTask.rows]_srVars
  BY DeletedWasPlanned DEF RetentionInv, Approving
<1>2. RetentionInv /\ [RetentionNext]_srVars =>
        [\A p \in Deleted : Coin(p) \notin reviewTask.kept]_srVars
  BY DeletedWasPlanned DEF RetentionInv, Approving
<1>3. RetentionInv => RetentionTypeOK
  BY DEF RetentionInv
<1>. QED BY <1>1, <1>2, <1>3, RetentionInvariance, PTL
         DEF RetentionSpec, DeletesOnlyTheReviewed, OnlyTheReviewed, ProfitableKept

=============================================================================

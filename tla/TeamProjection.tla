--------------------------- MODULE TeamProjection ---------------------------
(***************************************************************************)
(* The projection of the ledger on a Trello board: the event files of      *)
(* scripts/ai_team_runtime_ledger.py and scripts/trello_team_bridge.py,    *)
(* which drains them.                                                      *)
(*                                                                         *)
(* The orchestrator updates a row of its ledger and then writes an event;  *)
(* it can be killed in between.  The bridge is a process of its own, one   *)
(* at a time (it takes a lock), that may be killed between any two calls   *)
(* to Trello, and whose calls may fail or be answered too late.  After the *)
(* events it goes over the ledger itself, to repair what was missed.       *)
(*                                                                         *)
(* The steps an issue goes through stand for the rows of its ledger; texts,*)
(* estimates and the credentials are left out.                             *)
(***************************************************************************)
EXTENDS Integers, Sequences, FiniteSets, SequencesExt

CONSTANTS
    PrIssues,       \* issue numbers
    Parents,        \* the issues that are finalized by a child issue
    PassLimit,      \* --max-events
    MaxPrFaults     \* bound on kills of the orchestrator and of the bridge, and lost replies

ASSUME ProjectionAssumption ==
    /\ PrIssues \subseteq Nat /\ IsFiniteSet(PrIssues) /\ Parents \subseteq PrIssues
    /\ {PassLimit, MaxPrFaults} \subseteq Nat

VARIABLES
    prStep,     \* how far the ledger has got with each issue; 0 is not begun
    outbox,     \* the event files, oldest first
    boardCards, \* per issue: the list of its card and how many duplicates are open
    pass,       \* the running pass of the bridge
    commented,  \* history: the events that were announced on their card
    prFaults    \* how many kills and lost replies there were

prVars == <<prStep, outbox, boardCards, pass, commented, prFaults>>

-----------------------------------------------------------------------------
(* The steps of an issue, and the list that phase() and reconcile_ledger   *)
(* derive from the event and from the newest row.                          *)

(* Assigned; built, and the row of the builder is done; completed.         *)
Life == <<[event |-> "IN_PROGRESS", row |-> "IN_PROGRESS", status |-> "PENDING"],
          [event |-> "REVIEW_CI",   row |-> "IN_PROGRESS", status |-> "DONE"],
          [event |-> "DONE",        row |-> "DONE",        status |-> "DONE"]>>
Completed == Len(Life)

EventList(e) == Life[e.step].event

(* A row is terminal by its lifecycle phase, which the finalization of a   *)
(* parent does not write.                                                  *)
RowList(i) ==
    IF prStep[i] = Completed /\ i \in Parents THEN "IN_PROGRESS" ELSE Life[prStep[i]].row

Notify(e) == e.step = Completed

-----------------------------------------------------------------------------
(* The orchestrator.                                                       *)

PrFault == prFaults < MaxPrFaults /\ prFaults' = prFaults + 1

(* event() follows the update of the row.                                  *)
Advance(i) ==
    /\ prStep[i] < Completed
    /\ prStep' = [prStep EXCEPT ![i] = @ + 1]
    /\ \/ outbox' = Append(outbox, [issue |-> i, step |-> prStep[i] + 1]) /\ UNCHANGED prFaults
       \/ PrFault /\ UNCHANGED outbox
    /\ UNCHANGED <<boardCards, pass, commented>>

-----------------------------------------------------------------------------
(* The bridge.  A pass works through a listing of the files and then, with *)
(* what is left of its limit, through the newest rows of the ledger.       *)

BridgeIdle == [at |-> "idle", todo |-> <<>>, repair |-> <<>>, used |-> 0, failed |-> {},
               known |-> 0]
FirstOf(s, n) == SubSeq(s, 1, IF Len(s) < n THEN Len(s) ELSE n)
FromOutbox == pass.todo # <<>>
Current == IF FromOutbox THEN Head(pass.todo) ELSE Head(pass.repair)
CurrentList == IF FromOutbox THEN EventList(Current) ELSE RowList(Current.issue)

StartPass ==
    /\ pass.at = "idle"
    /\ pass' = [BridgeIdle EXCEPT !.at = "next", !.todo = FirstOf(outbox, PassLimit)]
    /\ UNCHANGED <<prStep, outbox, boardCards, commented, prFaults>>

(* reconcile: an issue with a failed event keeps its later events waiting. *)
SkipNothing == FALSE
SkipFailed == pass.todo # <<>> /\ Head(pass.todo).issue \in pass.failed
NextItem ==
    /\ pass.at = "next"
    /\ IF SkipFailed
       THEN pass' = [pass EXCEPT !.todo = Tail(@), !.used = @ + 1]
       ELSE pass' = [pass EXCEPT !.at = IF FromOutbox THEN "upsert" ELSE "rows"]
    /\ UNCHANGED <<prStep, outbox, boardCards, commented, prFaults>>

RepairBudget == PassLimit - pass.used

(* reconcile_ledger: one newest row per issue.                             *)
ReadRows ==
    /\ pass.at = "rows"
    /\ \E order \in SetToSeqs({i \in PrIssues : prStep[i] > 0}) :
        pass' = [pass EXCEPT !.at = "repair",
                             !.repair = [n \in DOMAIN FirstOf(order, RepairBudget) |->
                                            [issue |-> order[n], step |-> 0]]]
    /\ UNCHANGED <<prStep, outbox, boardCards, commented, prFaults>>
NextRow ==
    /\ pass.at = "repair"
    /\ pass' = IF pass.repair = <<>> THEN BridgeIdle ELSE [pass EXCEPT !.at = "upsert"]
    /\ UNCHANGED <<prStep, outbox, boardCards, commented, prFaults>>

(* What comes after an item, done or failed.                               *)
NextAt == IF FromOutbox THEN "next" ELSE "repair"
Fail ==
    pass' = [pass EXCEPT !.at = NextAt, !.known = 0,
                         !.todo = IF FromOutbox THEN Tail(@) ELSE @,
                         !.used = IF FromOutbox THEN @ + 1 ELSE @,
                         !.failed = IF FromOutbox THEN @ \cup {Current.issue} ELSE @,
                         !.repair = IF FromOutbox THEN @ ELSE Tail(@)]

(* sync: the board is searched every time, so a card that was created by a *)
(* killed pass is found.  A creation whose reply was lost is repeated.     *)
Upsert ==
    /\ pass.at = "upsert"
    /\ boardCards' = [boardCards EXCEPT ![Current.issue].list = CurrentList]
    /\ pass' = [pass EXCEPT !.at = "archive", !.known = boardCards[Current.issue].dups]
    /\ UNCHANGED <<prStep, outbox, commented, prFaults>>
UpsertFails ==
    /\ pass.at = "upsert"
    /\ Fail
    /\ UNCHANGED <<prStep, outbox, boardCards, commented, prFaults>>
UpsertReplyLost ==
    /\ pass.at = "upsert" /\ PrFault
    /\ boardCards[Current.issue].list = "none"
    /\ boardCards' = [boardCards EXCEPT ![Current.issue] = [list |-> CurrentList, dups |-> 1]]
    /\ pass' = [pass EXCEPT !.at = "archive", !.known = 0]
    /\ UNCHANGED <<prStep, outbox, commented>>

(* The duplicates that the search found are archived after the update.     *)
ArchiveDuplicates ==
    pass.at = "archive" /\ boardCards' = [boardCards EXCEPT ![Current.issue].dups = @ - pass.known]
Archive ==
    /\ ArchiveDuplicates
    /\ pass' = [pass EXCEPT !.at = "comment", !.known = 0]
    /\ UNCHANGED <<prStep, outbox, commented, prFaults>>
ArchiveFails ==
    /\ pass.at = "archive" /\ pass.known > 0
    /\ Fail
    /\ UNCHANGED <<prStep, outbox, boardCards, commented, prFaults>>

(* A repair is not announced; an event is, before its file is removed.     *)
Comment ==
    /\ pass.at = "comment"
    /\ commented' = IF FromOutbox /\ Notify(Current) THEN commented \cup {Current} ELSE commented
    /\ pass' = [pass EXCEPT !.at = "unlink"]
    /\ UNCHANGED <<prStep, outbox, boardCards, prFaults>>
CommentFailsQuietly ==
    /\ pass.at = "comment" /\ FromOutbox /\ Notify(Current)
    /\ pass' = [pass EXCEPT !.at = "unlink"]
    /\ UNCHANGED <<prStep, outbox, boardCards, commented, prFaults>>
CommentFails ==
    /\ pass.at = "comment" /\ FromOutbox /\ Notify(Current)
    /\ Fail
    /\ UNCHANGED <<prStep, outbox, boardCards, commented, prFaults>>

Unlink ==
    /\ pass.at = "unlink"
    /\ IF FromOutbox THEN \E n \in DOMAIN outbox : outbox[n] = Current /\ outbox' = RemoveAt(outbox, n)
       ELSE UNCHANGED outbox
    /\ pass' = [pass EXCEPT !.at = NextAt,
                            !.todo = IF FromOutbox THEN Tail(@) ELSE @,
                            !.used = IF FromOutbox THEN @ + 1 ELSE @,
                            !.repair = IF FromOutbox THEN @ ELSE Tail(@)]
    /\ UNCHANGED <<prStep, boardCards, commented, prFaults>>

KillBridge ==
    /\ PrFault /\ pass.at # "idle"
    /\ pass' = BridgeIdle
    /\ UNCHANGED <<prStep, outbox, boardCards, commented>>

ProjectInit ==
    /\ prStep = [i \in PrIssues |-> 0]
    /\ outbox = <<>>
    /\ boardCards = [i \in PrIssues |-> [list |-> "none", dups |-> 0]]
    /\ pass = BridgeIdle
    /\ commented = {}
    /\ prFaults = 0

Bridge == StartPass \/ NextItem \/ ReadRows \/ NextRow \/ Unlink
TrelloFails == UpsertFails \/ ArchiveFails \/ CommentFails
ProjectNext ==
    \/ \E i \in PrIssues : Advance(i)
    \/ Bridge \/ Upsert \/ UpsertReplyLost \/ Archive \/ Comment \/ TrelloFails \/ KillBridge

ProjectSpec == ProjectInit /\ [][ProjectNext]_prVars

-----------------------------------------------------------------------------
(* Properties.                                                             *)

(* Type invariant.                                                         *)
ProjectTypeOK ==
    /\ \A i \in PrIssues : /\ prStep[i] \in 0 .. Completed
                           /\ boardCards[i].list \in {"none", "IN_PROGRESS", "REVIEW_CI", "DONE"}
                           /\ boardCards[i].dups \in 0 .. 1
    /\ pass.used \in 0 .. PassLimit /\ Len(pass.repair) <= PassLimit - pass.used

(* The events of an issue reach the board in their order: what is being    *)
(* projected from the outbox is the oldest event left of its issue.        *)
EventsInOrder ==
    pass.at = "archive" /\ FromOutbox =>
        \A n \in DOMAIN outbox : outbox[n].issue = Current.issue => outbox[n].step >= Current.step

(* A worker that is done is not an issue that is done.                     *)
DoneOnlyWhenCompleted == \A i \in PrIssues : boardCards[i].list = "DONE" => prStep[i] = Completed

(* An event file is not removed before it was announced.                   *)
AnnouncedBeforeForgotten ==
    [][\A n \in DOMAIN outbox :
        Notify(outbox[n]) /\ outbox[n] \notin Range(outbox') => outbox[n] \in commented]_prVars

(* The board never tells more than the ledger: events come in order, none  *)
(* is dropped before it was announced, and done is what was accepted.      *)
BoardFollowsLedger ==
    []ProjectTypeOK /\ []EventsInOrder /\ []DoneOnlyWhenCompleted /\ AnnouncedBeforeForgotten

(* Whatever was lost, killed or refused on the way: once the ledger rests, *)
(* the board comes to show what the ledger says on one card of each issue, *)
(* and keeps showing it; what lost replies left behind is archived.        *)
BoardSettles ==
    <>[](\A i \in PrIssues : prStep[i] > 0 => boardCards[i].list = RowList(i) /\ boardCards[i].dups = 0)

=============================================================================

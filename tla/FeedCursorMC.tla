----------------------------- MODULE FeedCursorMC -----------------------------
(***************************************************************************)
(* Instances of FeedCursor for TLC.                                        *)
(***************************************************************************)
EXTENDS FeedCursor

CONSTANTS b1, b2

Sig(b, action, time) == [base |-> b, action |-> action, time |-> time]

(* One trade and the entry of another. *)
TradeAndEntry == {Sig(b1, "open", 1), Sig(b1, "close", 2), Sig(b2, "open", 2)}

OneTrade == {Sig(b1, "open", 1), Sig(b1, "close", 2)}

=============================================================================

--------------------------- MODULE PipelineLedger ---------------------------
(* The sale pipeline keeps the ledger of SaleLedger.                       *)
EXTENDS SalePipeline

\* A sales row without the columns that say whether and why it was reverted.
EntryOf(s) ==
  [rule |-> s.rule, fp |-> s.fp, seller |-> s.seller, buyer |-> s.buyer, poll |-> s.poll]

Counted == {EntryOf(s) : s \in ActiveSales}
Undone  == {EntryOf(s) : s \in sales \ ActiveSales}

Ledger == INSTANCE SaleLedger
            WITH counted <- Counted, undone <- Undone, booked <- Len(polls)

\* Polls, bans, anomaly days, restarts and clears only ever enter, undo or wipe
\* sales the way the ledger allows: no reverted sale is counted again, and a sale
\* is entered by its own poll only (write_poll_result, revert_sales_for_account_ban,
\* revert_anomaly_day_sales, clear_market_tables).
KeepsLedger == Ledger!Spec
=============================================================================

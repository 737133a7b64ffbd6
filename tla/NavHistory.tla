----------------------------- MODULE NavHistory -----------------------------
(***************************************************************************)
(* What the ingestion of fund data promises the readers of                 *)
(* fund_nav_history and fund_market_history: the history only grows, one   *)
(* batch at a time; a batch is the work of one refresh, or of a backfill   *)
(* for one fund, and is published once; it has no second row for an        *)
(* observation that is there before it.  That it has no observation twice  *)
(* itself is not promised: see NoDuplicates of FundRefresh.                *)
(***************************************************************************)
VARIABLES history,     \* rows with a table, a fund, a date and a batch, as run
          published    \* the batches that have been published

Same(r, s) == r.table = s.table /\ r.fund = s.fund /\ r.date = s.date

Init == history = {} /\ published = {}

Publish(n) ==
    /\ n \notin published
    /\ published' = published \cup {n}
    /\ history \subseteq history'
    /\ \A r \in history' \ history :
          r.run = n /\ \A s \in history : ~Same(r, s)

Next == \E n \in published' : Publish(n)

Spec == Init /\ [][Next]_<<history, published>>
=============================================================================

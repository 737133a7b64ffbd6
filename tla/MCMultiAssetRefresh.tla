------------------------- MODULE MCMultiAssetRefresh -------------------------
(* Instances of MultiAssetRefresh for TLC: files of at most two rows. *)
EXTENDS MultiAssetRefresh

Row(csv, entity, day, defect) == [csv |-> csv, entity |-> entity, day |-> day, defect |-> defect]
Readable(rows) == [state |-> "readable", rows |-> rows]
In(state) == [state |-> state, rows |-> <<>>]

One == Readable(<<Row(1, "x", 1, "none")>>)
Two == Readable(<<Row(1, "x", 1, "none"), Row(2, "x", 2, "none")>>)
\* One natural key under two CSV keys.
SameKey == Readable(<<Row(1, "x", 1, "none"), Row(2, "x", 1, "none")>>)
Late == Readable(<<Row(1, "x", 1, "none"), Row(2, "x", 2, "valid_until")>>)
Bad(defect) == Readable(<<Row(1, "x", 1, "none"), Row(2, "x", 2, defect)>>)

FileSets == [d \in Datasets |->
    CASE d = "market_indices" -> {In("missing"), In("broken"), One}
      [] d = "market_instruments" -> {SameKey}
      [] d = "inflation" -> {Bad("future"), One}
      [] d = "bank_products" -> {Two, SameKey, Late}]
WellFormed == [d \in Datasets |-> {One}]

\* Two of the datasets have been imported before, two have not.
Past == {[d \in Datasets |->
    IF d \in {"market_instruments", "inflation"} THEN <<Row(1, "x", 1, "none")>> ELSE <<>>]}
=============================================================================

---------------------------- MODULE MCFundRefresh ----------------------------
(* Instances of FundRefresh for TLC. *)
EXTENDS FundRefresh, TLC

\* All jobs are threads of one process, or every job is a process of its own.
SameProcess == [j \in Jobs |-> CHOOSE p \in Processes : TRUE]
OwnProcess == [j \in Jobs |-> j]
JobSymmetry == Permutations(Jobs)

Record(f, d, hasNav, hasMarket, isActive) ==
    [fund |-> f, date |-> d, nav |-> hasNav, market |-> hasMarket, active |-> isActive]

\* A CSV file: the empty file, a fund repeated for one date, a file without
\* NAV, a file of two funds.
CsvCatalogues == {
    <<>>,
    <<Record(1, 1, TRUE, TRUE, TRUE), Record(1, 1, TRUE, TRUE, TRUE)>>,
    <<Record(2, 1, FALSE, TRUE, FALSE)>>,
    <<Record(2, 2, TRUE, FALSE, TRUE), Record(1, 1, TRUE, TRUE, TRUE)>>}

\* The FIPIRAN catalogue on two days; one fund has been wound up on the second.
FipiranCatalogues == {
    <<Record(1, 1, TRUE, FALSE, TRUE), Record(2, 1, TRUE, FALSE, TRUE)>>,
    <<Record(1, 2, TRUE, FALSE, FALSE), Record(2, 2, TRUE, FALSE, TRUE)>>}
\* A history is empty, or overlaps with the catalogue's dates and repeats one.
FipiranHistories == {<<>>, <<1, 3, 3>>}
NoHistories == {<<>>}
OneCatalogue == {<<Record(1, 1, TRUE, FALSE, TRUE), Record(2, 1, TRUE, FALSE, TRUE)>>}
OneHistory == {<<1, 2>>}
=============================================================================

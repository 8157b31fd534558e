---------------------------- MODULE MCKpiScore ----------------------------
(* Instances of KpiScore for TLC.                                          *)
EXTENDS KpiScore

\* Every band of a target of 100 in both directions, and another sign.
SampleAmounts == {-1, 90, 110, 200}

\* From September of year 1 to July of year 2; one month has two days, the others one.
SampleDays == 1 .. 12
SampleMonthOf == <<20, 21, 22, 23, 24, 25, 26, 27, 27, 28, 29, 30>>
=============================================================================

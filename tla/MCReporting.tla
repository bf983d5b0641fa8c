---------------------------- MODULE MCReporting ----------------------------
(* Three entries around the beginning of a month, whose cash position can  *)
(* be a few cents below zero.  Day 0, a Monday, begins a month, and the    *)
(* clock walks past its beginning.                                         *)
EXTENDS Reporting, TLC

CONSTANTS e1, e2, e3

MCAmount == (e1 :> 150) @@ (e2 :> 155) @@ (e3 :> -1)
MCKind == (e1 :> "revenue") @@ (e2 :> "expense") @@ (e3 :> "revenue")
MCMonthStarts == {-30, 0}
MCDays == -1 .. 0
MCDates == {-9, -1, 1}
MCFirst == -1
=============================================================================

----------------------------- MODULE MCHolidays -----------------------------
(* Holidays for TLC: years around the one in which the clock starts.       *)
EXTENDS Holidays

MCYears == -4 .. 3

(* Two holidays of US stocks a year, one of them the last of the answer,   *)
(* and one of another exchange between them.                               *)
MCOrder == <<USStocks, Elsewhere, USStocks>>
=============================================================================

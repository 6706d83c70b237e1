----------------------------- MODULE MCDefinitions -----------------------------
(***************************************************************************)
(* Definitions with a few settings and dates, for TLC.                     *)
(***************************************************************************)
EXTENDS Definitions

\* A log, and one whose name is the other's with a month behind it.
MCNames == {<<"a">>, <<"a", "_", "2025", "_", "10">>}

\* By months, to be removed or not; by days in directories of their own; and
\* without periods or stamps.
MCSettings ==
  LET monthly == log_type(New(<<"p">>), "PerMonth")
  IN  {monthly,
       auto_remove_definition(monthly, TRUE),
       auto_remove_definition(options(New(<<"p">>), {"UseSubDirectories"}), TRUE),
       options(header(log_type(New(<<"p">>), "NoSplit"), "h"), {"NoAddDateToLog"})}

At(month, day, hour, minute) ==
  [year |-> "2025", month |-> month, day |-> day, hour |-> hour, minute |-> minute]

\* The same time on two days.
MCCalendar == <<At("10", "26", "02", "30"), At("10", "27", "02", "30")>>

================================================================================

--------------------------- MODULE Interval2csvMC ---------------------------
(* Record files for the checks of Interval2csv: with intervals, without,   *)
(* with runs of start lines, and with a start on the last line.            *)
EXTENDS Interval2csv

SmallTexts ==
  {<<"s", "e">>, <<"s", "s", "e", "x", "s", "s", "s", "e", "s">>, <<"e", "x">>}
=============================================================================

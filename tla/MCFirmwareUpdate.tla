--------------------------- MODULE MCFirmwareUpdate ---------------------------
(***************************************************************************)
(* Instances of FirmwareUpdate for TLC.  "big" has a record across a page  *)
(* boundary, two records in one page, and a gap; "small" has a gap where   *)
(* "big" has data.                                                         *)
(***************************************************************************)
EXTENDS FirmwareUpdate

MCRecordsOf == [img \in {"big", "small"} |->
    IF img = "big" THEN {<<0, 0>>, <<1, 2>>, <<4, 4>>} ELSE {<<1, 1>>, <<5, 5>>}]

\* Below the base, on data already there, and off the end.
MCMisplaced == {<<-1, 0>>, <<1, 1>>, <<5, 6>>}
=============================================================================

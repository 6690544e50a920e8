--------------------------- MODULE MCDiskPrograms ---------------------------
(***************************************************************************)
(* DiskPrograms with a tRead of three blocks.                               *)
(***************************************************************************)
EXTENDS DiskPrograms

Readers == <<"t0", "t1", "t2">>
=============================================================================

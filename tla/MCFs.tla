-------------------------------- MODULE MCFs --------------------------------
(***************************************************************************)
(* The file system for TLC: three processes, a small disk, one power        *)
(* failure.                                                                 *)
(***************************************************************************)
EXTENDS FsTests

MCFiles == <<"README", "echo", "cat">>
=============================================================================

-------------------------------- MODULE MCEnvKey --------------------------------
(***************************************************************************)
(* EnvKey on small instances.                                              *)
(***************************************************************************)
EXTENDS EnvKey

(* The bytes that are escaped and a letter between them in order.          *)
Bytes == {Semicolon, Equals, 65, Backslash}
================================================================================

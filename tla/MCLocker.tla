------------------------------ MODULE MCLocker ------------------------------
(* KumLock on small instances, for TLC. *)
EXTENDS KumLock

CONSTANTS k1, k2, o1, o2

ShortChars    == {<<1>>, <<2, 3>>}
ShortPassword == <<1>>
=============================================================================

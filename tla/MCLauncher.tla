----------------------------- MODULE MCLauncher -----------------------------
(***************************************************************************)
(* KumLauncher.tla for TLC: desktop files, of which one hides a program and *)
(* two have the same name, and programs.                                   *)
(***************************************************************************)
EXTENDS KumLauncher

a == "a"
b == "b"

File(n, e, h) == [name |-> n, exec |-> e, hidden |-> h]

MCKeys  == {<<"a">>, <<"b">>, <<"c3", "a9">>}
MCLead  == {"c3"}
MCTrail == {"a9"}

(* Names in the order strcasecmp() gives them *)
InOrder == << <<a>>, <<a, b>>, <<a, "c3", "a9">>, <<b>>, <<b, a>>, <<b, b>> >>
MCNameOrder ==
    UNION {{<<InOrder[i], InOrder[j]>> : j \in i .. Len(InOrder)} : i \in DOMAIN InOrder}

MCFiles ==
    { File(<<b, a>>, <<b>>, FALSE), File(<<a>>, <<a, b>>, FALSE),
      File(<<b, a>>, <<a>>, FALSE), File(<<b, b>>, <<b>>, TRUE) }

MCPrograms == { <<a, b>>, <<b>>, <<a>>, <<a, "c3", "a9">>, <<b, a>> }
=============================================================================

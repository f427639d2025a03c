---------------------------- MODULE MCExceptions ----------------------------
(***************************************************************************)
(* The boot thread prints up to two messages while two keys are pressed    *)
(* and, at any time, an exception comes; the screen is so small that the   *)
(* messages wrap and scroll.  Of the dump there are a label, a number and  *)
(* the end of a line.                                                      *)
(***************************************************************************)
EXTENDS Exceptions

MCMessages == {[text |-> <<"x", "LF">>, color |-> "red"]}
MCascii == [c \in Scancodes |-> IF c = "release" THEN NUL ELSE c]
MCDumps == {<<[print |-> "printf", text |-> <<"V">>, color |-> "red"],
              [print |-> "print_hex64", text |-> <<"7">>, color |-> "red"],
              [print |-> "printf", text |-> <<"LF">>, color |-> "red"]>>}
=============================================================================

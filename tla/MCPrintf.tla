------------------------------ MODULE MCPrintf ------------------------------
(***************************************************************************)
(* All messages of three directives, on a screen of two lines, which they  *)
(* wrap and scroll: every control character that put_char knows, strings,  *)
(* and numbers of eight bits in a buffer of six characters.                *)
(***************************************************************************)
EXTENDS Printf

Char(c) == [kind |-> "char", arg |-> c]
Number(kind, n) == [kind |-> kind, arg |-> n]

MCDirectives ==
  {Char(c) : c \in {"a", "LF", "CR", "HT", "BS"}}
  \cup {Number("d", n) : n \in {0, -5, 127, -128}}
  \cup {Number("x", n) : n \in {0, 31, 127, -1}}
  \cup {[kind |-> "s", arg |-> <<>>], [kind |-> "s", arg |-> <<"b", "c", "LF", "d">>],
        [kind |-> "c", arg |-> "c"], [kind |-> "%"], [kind |-> "unknown"]}
=============================================================================

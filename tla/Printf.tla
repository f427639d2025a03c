------------------------------- MODULE Printf -------------------------------
(***************************************************************************)
(* printf of src/drivers/fb.c: the formatting of a message into out_buf,   *)
(* and its characters on the screen of Terminal.tla.  Nobody else prints   *)
(* here; Console.tla has the lock and the interrupts.                      *)
(*                                                                         *)
(* A format is a sequence of directives, each with its argument: ordinary  *)
(* characters, %s, %c, %d, %x, %% and a letter that printf does not know.  *)
(* It does not end in a single '%', behind which printf would read past    *)
(* its end.  An int has the values MinInt..MaxInt; the negation of MinInt  *)
(* is undefined in C, and is MinInt where it is compiled to a neg.         *)
(***************************************************************************)
EXTENDS Terminal, SequencesExt

CONSTANTS Directives,     \* what a format may be made of
          MaxDirectives,  \* bound on the directives of all messages together
          SIZE,           \* of out_buf (1024)
          MaxInt          \* of an int

MinInt == -MaxInt - 1
NUMBERS == {"d", "x"}

ASSUME PrintfConstants ==
  /\ MaxDirectives \in Nat /\ SIZE \in Nat /\ SIZE > 1 /\ MaxInt \in Nat
  /\ \A d \in Directives :
       \/ d.kind \in {"char", "c"} /\ d.arg \in STRING
       \/ d.kind = "s" /\ d.arg \in Seq(STRING)
       \/ d.kind \in NUMBERS /\ d.arg \in MinInt..MaxInt
       \/ d.kind \in {"%", "unknown"}

VARIABLES fmt,      \* the format of the last call
          out_buf,  \* what it has been formatted to: buf_idx characters
          next,     \* i of the loop that prints them
          used,     \* directives of all calls so far
          smashed   \* printf has written behind out_buf

printf_vars == <<display, fmt, out_buf, next, used, smashed>>

-----------------------------------------------------------------------------
(* print_num_to_buf *)

\* Division as in C, toward zero.
Quotient(v, base) == IF v >= 0 THEN v \div base ELSE -((-v) \div base)
Remainder(v, base) == v - base * Quotient(v, base)

Numerals == <<"0", "1", "2", "3", "4", "5", "6", "7", "8", "9",
              "A", "B", "C", "D", "E", "F">>
BeforeZero == <<"/", ".", "-", ",", "+", "*", ")", "(", "'", "&", "%", "$", "#", "\"", "!">>

\* '0' + d or 'A' + d - 10, for the negative remainders of a negative val too.
DigitChar(d) == IF d < 0 THEN BeforeZero[-d] ELSE Numerals[d + 1]

\* tmp, with the digit that was found last in front.
Digits(val, base) ==
  LET digits[v \in MinInt..MaxInt] ==
        IF v = 0 THEN <<>>
        ELSE Append(digits[Quotient(v, base)], DigitChar(Remainder(v, base)))
  IN  digits[val]

Negated(val) == IF val = MinInt THEN MinInt ELSE -val

Num(val, base) ==
  CASE val = 0              -> <<"0">>
    [] base = 10 /\ val < 0 -> <<"-">> \o Digits(Negated(val), base)
    [] OTHER                -> Digits(val, base)

-----------------------------------------------------------------------------
(* printf *)

\* The characters a directive stands for, without regard to the buffer.
Rendered(d) ==
  CASE d.kind \in {"char", "c"} -> <<d.arg>>
    [] d.kind = "s"             -> d.arg
    [] d.kind = "d"             -> Num(d.arg, 10)
    [] d.kind = "x"             -> Num(d.arg, 16)
    [] d.kind = "%"             -> <<"%">>
    [] OTHER                    -> <<>>

Room(buf) == SIZE - 1 - Len(buf)
FirstOf(s, n) == SubSeq(s, 1, IF n < Len(s) THEN n ELSE Len(s))

PutUnchecked(buf, d) == IF Room(buf) <= 0 THEN buf ELSE buf \o Rendered(d)

\* One round of the loop, which stops at a full buffer: a string is cut to
\* the room that is left, a number is not.
Put(buf, d) ==
  IF Room(buf) <= 0 THEN buf
  ELSE buf \o (IF d.kind \in NUMBERS THEN Rendered(d) ELSE FirstOf(Rendered(d), Room(buf)))

Formatted(f) == FoldLeft(Put, <<>>, f)

PrintfInit ==
  /\ DisplayInit
  /\ fmt = <<>> /\ out_buf = <<>> /\ next = 0 /\ used = 0 /\ smashed = FALSE

\* The terminating NUL is behind out_buf's last character.
Call(f) ==
  /\ next = Len(out_buf) /\ ~smashed
  /\ used + Len(f) <= MaxDirectives
  /\ used' = used + Len(f)
  /\ fmt' = f /\ out_buf' = Formatted(f) /\ next' = 0
  /\ smashed' = (Len(Formatted(f)) >= SIZE)
  /\ UNCHANGED display

\* What a message does that has overrun its buffer is not defined.
PutNext ==
  /\ next < Len(out_buf) /\ ~smashed
  /\ put_char(out_buf[next + 1], "white")
  /\ next' = next + 1
  /\ UNCHANGED <<fmt, out_buf, used, smashed>>

Formats == UNION {[1..n -> Directives] : n \in 1..MaxDirectives}

PrintfNext == PutNext \/ \E f \in Formats : Call(f)

PrintfSpec == PrintfInit /\ [][PrintfNext]_printf_vars

-----------------------------------------------------------------------------
(* Properties *)

\* Reading digits: the number they are written for.
DigitValue(c) == SelectInSeq(Numerals, LAMBDA n : n = c) - 1
ReadBack(digits, base) == FoldLeft(LAMBDA n, c : base * n + DigitValue(c), 0, digits)

Numeral(s, n, base) ==
  /\ s # <<>> /\ \A k \in DOMAIN s : DigitValue(s[k]) \in 0..(base - 1)
  /\ s[1] = "0" => s = <<"0">>
  /\ ReadBack(s, base) = n

\* %d of any int but MinInt is a decimal numeral, and %x of an int that is
\* not negative a hexadecimal one.
WellWritten(d, s) ==
  CASE d.kind = "d" /\ d.arg >= 0     -> Numeral(s, d.arg, 10)
    [] d.kind = "d" /\ d.arg < 0      -> /\ s[1] = "-"
                                         /\ d.arg # MinInt => Numeral(Tail(s), -d.arg, 10)
    [] d.kind = "x" /\ d.arg >= 0     -> Numeral(s, d.arg, 16)
    [] OTHER                          -> TRUE

Text(f) == FlattenSeq([k \in DOMAIN f |-> Rendered(f[k])])

(***************************************************************************)
(* printf prints what its format says, with numbers that read back as the  *)
(* numbers they were, and cuts a message that is too long for its buffer;  *)
(* only a number that begins less than its length before the end writes    *)
(* behind the buffer, and nothing that comes after it in the format.       *)
(***************************************************************************)
MessageAsMeant ==
  /\ \A k \in DOMAIN fmt : WellWritten(fmt[k], Rendered(fmt[k]))
  /\ IsPrefix(out_buf, Text(fmt))
  /\ Len(Text(fmt)) < SIZE => out_buf = Text(fmt)
  /\ ~smashed => Len(out_buf) < SIZE
  /\ smashed => \E k \in DOMAIN fmt :
                  /\ fmt[k].kind \in NUMBERS
                  /\ Len(Text(SubSeq(fmt, 1, k - 1))) < SIZE - 1
                  /\ out_buf = Text(SubSeq(fmt, 1, k))
=============================================================================

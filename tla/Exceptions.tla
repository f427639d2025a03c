----------------------------- MODULE Exceptions -----------------------------
(***************************************************************************)
(* CPU exceptions: the stubs of isr.asm and exception_handler              *)
(* (src/arch/x86_64/exceptions.c), on the Console.                         *)
(*                                                                         *)
(* An exception pushes an activation like an interrupt, with interrupts    *)
(* off, but in code that cannot go on.  exception_handler prints in two    *)
(* ways.  Its labels go through printf, which takes fb_lock and then turns *)
(* interrupts on.  Its numbers go through print_hex64, which calls         *)
(* put_char without the lock: a handler may print in the middle of a       *)
(* put_char.  There are at most MaxFaults exceptions.                      *)
(***************************************************************************)
EXTENDS Console

CONSTANTS Dumps,      \* what exception_handler prints: sequences of calls
          MaxFaults   \* bound on the exceptions

DumpCall == [print : {"printf", "print_hex64"}, text : Seq(STRING), color : Colors]

ASSUME ExceptionsConstants == MaxFaults \in Nat /\ Dumps \subseteq Seq(DumpCall)

VARIABLES dump,     \* the calls that exception_handler has still to make
          faults    \* history: how many exceptions there were

exception_vars == <<vars, dump, faults>>

ExceptionInit == Init /\ dump = <<>> /\ faults = 0

-----------------------------------------------------------------------------
(* exception_handler *)

\* The instruction at which Top stands faults: in the code between two
\* printf, or in put_char, which stores to the frame buffer.
Exception(d) ==
  /\ faults < MaxFaults
  /\ Top.at \in {"run", "put"}
  /\ faults' = faults + 1
  /\ dump' = d
  /\ stack' = Append(stack, Activation(FAULT, "dump", intr))
  /\ intr' = FALSE
  /\ UNCHANGED <<irr, isr, port60, locked, default_fg, boot, history, display>>

NextCall(print) == At(FAULT, "dump") /\ dump # <<>> /\ Head(dump).print = print

DumpPrintf ==
  /\ NextCall("printf")
  /\ printf(Head(dump).text, Head(dump).color)
  /\ dump' = Tail(dump)
  /\ UNCHANGED <<faults, intr, irr, isr, port60, locked, boot, pressed, shown, display>>

DumpHex ==
  /\ NextCall("print_hex64")
  /\ stack' = [stack EXCEPT ![Len(stack)] =
                 [@ EXCEPT !.at = "draw", !.text = Head(dump).text, !.color = Head(dump).color]]
  /\ dump' = Tail(dump)
  /\ UNCHANGED <<faults, intr, irr, isr, port60, locked, default_fg, boot, history, display>>

(***************************************************************************)
(* put_char in two steps, for a handler may run between its stores to the  *)
(* cursor: the character is drawn and cursor_x moved; then the cursor is   *)
(* brought back to the screen.  The other places at which a handler may    *)
(* run, inside the second step and inside scroll, are left out.            *)
(***************************************************************************)
HexDraw ==
  /\ At(FAULT, "draw") /\ Top.text # <<>>
  /\ screen' = Drawn(Head(Top.text), Top.color)
  /\ paper' = Typed(Head(Top.text), Top.color)
  /\ cursor_x' = cursor_x + 1
  /\ Goto("wrap")
  /\ UNCHANGED <<cursor_y, row, dump, faults, intr, irr, isr, port60, locked, default_fg,
                 boot, history>>

\* put_char's test for the end of the line
EndOfLineLate == cursor_x > cols
EndOfLine == cursor_x >= cols

HexWrap ==
  /\ At(FAULT, "wrap")
  /\ LET down == IF EndOfLine THEN 1 ELSE 0
         y    == cursor_y + down
     IN  /\ cursor_x' = IF down = 1 THEN 0 ELSE cursor_x
         /\ cursor_y' = IF y >= rows THEN rows - 1 ELSE y
         /\ screen' = IF y >= rows THEN scroll(screen) ELSE screen
         /\ paper' = Feed(paper, down) /\ row' = row + down
  /\ stack' = [stack EXCEPT ![Len(stack)].text = Tail(@), ![Len(stack)].at = "draw"]
  /\ UNCHANGED <<dump, faults, intr, irr, isr, port60, locked, default_fg, boot, history>>

HexEnd ==
  /\ At(FAULT, "draw") /\ Top.text = <<>>
  /\ Goto("dump")
  /\ UNCHANGED <<dump, faults, intr, irr, isr, port60, locked, default_fg, boot, history,
                 display>>

HltOnly ==
  /\ At(FAULT, "dump") /\ dump = <<>>
  /\ Goto("halt")
  /\ UNCHANGED <<dump, faults, intr, irr, isr, port60, locked, default_fg, boot, history,
                 display>>

\* cli; hlt
CliHlt ==
  /\ At(FAULT, "dump") /\ dump = <<>>
  /\ intr' = FALSE
  /\ Goto("halt")
  /\ UNCHANGED <<dump, faults, irr, isr, port60, locked, default_fg, boot, history, display>>

-----------------------------------------------------------------------------

\* The CPU stands still, in spin_lock or in hlt.
StandStill ==
  /\ \/ Top.at = "test_and_set" /\ locked
     \/ Top.at = "halt"
  /\ UNCHANGED exception_vars

DumpStep ==
  \/ DumpPrintf \/ DumpHex \/ HexDraw \/ HexWrap \/ HexEnd \/ CliHlt
  \/ Top.irq = FAULT /\ Printing /\ UNCHANGED <<dump, faults>>

ExceptionNext ==
  \/ Next /\ UNCHANGED <<dump, faults>>
  \/ \E d \in Dumps : Exception(d)
  \/ DumpStep \/ StandStill

(***************************************************************************)
(* The CPU executes what is on top of the stack.  Ticks are ten            *)
(* milliseconds apart, so that code which is interrupted again and again   *)
(* still goes on, and a key that keeps being requested is delivered.       *)
(***************************************************************************)
ExceptionSpec ==
  /\ ExceptionInit /\ [][ExceptionNext]_exception_vars
  /\ SF_exception_vars(\/ (BootStep \/ KeyboardStep) /\ UNCHANGED <<dump, faults>>
                       \/ DumpStep)
  /\ WF_exception_vars(TimerStep /\ UNCHANGED <<dump, faults>>)
  /\ SF_exception_vars(Deliver(KEYBOARD) /\ UNCHANGED <<dump, faults>>)

-----------------------------------------------------------------------------
(* Properties *)

\* The exception came while what it interrupted held fb_lock.
HolderFaulted ==
  \E k \in 2..Len(stack) :
    /\ stack[k].irq = FAULT
    /\ \E j \in 1..(k - 1) : stack[j].at = "put"

(***************************************************************************)
(* An exception outside of fb_lock prints its dump to the end and halts    *)
(* for good, with interrupts off, however many interrupts the dump lets    *)
(* in.  (Within fb_lock the first printf of the dump waits for the lock    *)
(* for ever, and nothing is printed.)                                      *)
(***************************************************************************)
DumpHalts ==
  (Faulted /\ ~HolderFaulted) ~> [](At(FAULT, "halt") /\ ~intr /\ dump = <<>>)

(***************************************************************************)
(* Only in the middle of a put_char of print_hex64, which holds no lock,   *)
(* may a handler find the cursor outside of the screen; and whatever it    *)
(* draws then, the cursor is back when the dump goes on.                   *)
(***************************************************************************)
CursorSafe ==
  CursorOnScreen \/ \E k \in DOMAIN stack : stack[k].at = "wrap"
=============================================================================

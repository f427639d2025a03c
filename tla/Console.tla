------------------------------ MODULE Console ------------------------------
(***************************************************************************)
(* Who writes on the screen: printf (src/drivers/fb.c) under fb_lock       *)
(* (spinlock.h), called by the boot thread (_start in main.c) and by the   *)
(* keyboard interrupt (keyboard.c, irq.c), with the interrupt controller   *)
(* in between (pic.c).                                                     *)
(*                                                                         *)
(* One CPU, one thread.  stack is its stack of activations: the boot       *)
(* thread at the bottom, above it the interrupt handlers that interrupted  *)
(* one another.  Handlers start with interrupts off, but spin_unlock turns *)
(* them on without asking, so that the keyboard handler is interruptible   *)
(* from the end of its printf on: by the timer, and after its EOI by the   *)
(* next key.                                                               *)
(*                                                                         *)
(* Texts are given formatted; the formatting of printf is not modelled.    *)
(* The timer handler calls schedule, which returns at once: there is one   *)
(* thread (Scheduler.tla has the others).                                  *)
(***************************************************************************)
EXTENDS Terminal, FiniteSets, FiniteSetsExt, SequencesExt

CONSTANTS Messages,     \* what the boot thread may print: [text, color]
          Colors,       \* of text
          Scancodes,    \* what the keyboard may send
          ascii,        \* scancode_to_ascii; NUL for no character
          NUL,
          MaxPrints,    \* bound on the boot thread's printf calls
          MaxKeys       \* bound on the keys pressed

ASSUME ConsoleConstants ==
  /\ \A m \in Messages : m.text \in Seq(STRING) /\ m.color \in Colors
  /\ {"white", "none"} \subseteq Colors
  /\ ascii \in [Scancodes -> STRING \cup {NUL}]
  /\ NUL \notin Scancodes /\ NUL \notin 0..2    \* nor an interrupt
  /\ MaxPrints \in Nat /\ MaxKeys \in Nat

VARIABLES stack,        \* the activations, the running one last
          intr,         \* IF, the CPU's interrupt flag
          irr, isr,     \* PIC: interrupts requested, and in service
          mask,         \* PIC: interrupts masked
          port60,       \* the scancode the keyboard holds, NUL when none
          locked,       \* fb_lock
          default_fg,
          fb_vfs_node,  \* whether the frame buffer device exists
          booted,       \* how far _start has come
          prints, pressed, shown   \* history: printf calls, keys, characters

boot == <<booted, mask, fb_vfs_node>>
history == <<prints, pressed, shown>>
vars == <<stack, intr, irr, isr, port60, locked, default_fg, boot, history, display>>

TIMER == 0
KEYBOARD == 1
FAULT == 2    \* a CPU exception, see Exceptions.tla

\* An activation: irq says whose (NUL for the boot thread), at what it does
\* next; text and color are its printf's, id numbers the printf calls, and
\* flags is the IF that its iretq restores.
Activation(irq, at, flags) ==
  [irq |-> irq, at |-> at, text |-> <<>>, color |-> "none", id |-> 0, flags |-> flags]

Top == stack[Len(stack)]
At(irq, where) == Top.irq = irq /\ Top.at = where
Goto(where) == stack' = [stack EXCEPT ![Len(stack)].at = where]

\* After printf the boot thread goes on, the keyboard handler sends its EOI.
After(a) ==
  CASE a.irq = NUL -> "run" [] a.irq = KEYBOARD -> "eoi" [] a.irq = FAULT -> "dump"

\* _start once init_fb and clear are done: interrupts off, all masked.
Init ==
  /\ stack = <<Activation(NUL, "run", FALSE)>>
  /\ intr = FALSE /\ irr = {} /\ isr = {} /\ mask = {TIMER, KEYBOARD}
  /\ port60 = NUL /\ locked = FALSE /\ default_fg = "white"
  /\ fb_vfs_node = FALSE /\ booted = "early"
  /\ prints = 0 /\ pressed = <<>> /\ shown = <<>>
  /\ DisplayInit

-----------------------------------------------------------------------------
(* printf *)

\* default_fg is set before the lock is taken.
printf(text, color) ==
  /\ default_fg' = color
  /\ prints' = prints + 1
  /\ stack' = [stack EXCEPT ![Len(stack)] =
                 [@ EXCEPT !.at = "cli", !.text = text, !.color = color,
                           !.id = prints + 1]]

NoCli ==
  /\ Top.at = "cli"
  /\ Goto("test_and_set")
  /\ UNCHANGED <<intr, irr, isr, port60, locked, default_fg, boot, history, display>>

\* spin_lock
Cli ==
  /\ Top.at = "cli"
  /\ intr' = FALSE
  /\ Goto("test_and_set")
  /\ UNCHANGED <<irr, isr, port60, locked, default_fg, boot, history, display>>

TestAndSet ==
  /\ Top.at = "test_and_set" /\ ~locked
  /\ locked' = TRUE
  /\ Goto("put")
  /\ UNCHANGED <<intr, irr, isr, port60, default_fg, boot, history, display>>

\* The device's write has no colour of its own.
ForegroundOf(a) == IF fb_vfs_node THEN default_fg ELSE a.color

LockPerCharacter ==
  /\ Top.at = "put" /\ Top.text # <<>>
  /\ put_char(Head(Top.text), ForegroundOf(Top))
  /\ shown' = Append(shown, [id |-> Top.id, irq |-> Top.irq, ch |-> Head(Top.text),
                             fg |-> ForegroundOf(Top), color |-> Top.color,
                             device |-> fb_vfs_node])
  /\ stack' = [stack EXCEPT ![Len(stack)].text = Tail(@), ![Len(stack)].at = "cli"]
  /\ locked' = FALSE /\ intr' = TRUE
  /\ UNCHANGED <<irr, isr, port60, default_fg, boot, prints, pressed>>

PutChar ==
  /\ Top.at = "put" /\ Top.text # <<>>
  /\ put_char(Head(Top.text), ForegroundOf(Top))
  /\ shown' = Append(shown, [id |-> Top.id, irq |-> Top.irq, ch |-> Head(Top.text),
                             fg |-> ForegroundOf(Top), color |-> Top.color,
                             device |-> fb_vfs_node])
  /\ stack' = [stack EXCEPT ![Len(stack)].text = Tail(@)]
  /\ UNCHANGED <<intr, irr, isr, port60, locked, default_fg, boot, prints, pressed>>

\* spin_unlock
Clear ==
  /\ Top.at = "put" /\ Top.text = <<>>
  /\ locked' = FALSE
  /\ Goto("sti")
  /\ UNCHANGED <<intr, irr, isr, port60, default_fg, boot, history, display>>

Sti ==
  /\ Top.at = "sti"
  /\ intr' = TRUE
  /\ Goto(After(Top))
  /\ UNCHANGED <<irr, isr, port60, locked, default_fg, boot, history, display>>

-----------------------------------------------------------------------------
(* _start *)

BootPrintf(m) ==
  /\ At(NUL, "run") /\ prints < MaxPrints
  /\ printf(m.text, m.color)
  /\ UNCHANGED <<intr, irr, isr, port60, locked, boot, pressed, shown, display>>

\* Drain the keyboard, then open the timer and the keyboard.  A request goes
\* with the scancode that it was for: the controller drops its line when port
\* 0x60 is read, as an 8042 does.
Unmask ==
  /\ At(NUL, "run") /\ booted = "early"
  /\ port60' = NUL /\ irr' = irr \ {KEYBOARD} /\ pressed' = <<>>
  /\ mask' = {} /\ booted' = "unmasked"
  /\ UNCHANGED <<stack, intr, isr, locked, default_fg, fb_vfs_node, prints, shown,
                 display>>

EnableInterrupts ==
  /\ At(NUL, "run") /\ booted = "unmasked"
  /\ intr' = TRUE /\ booted' = "enabled"
  /\ UNCHANGED <<stack, irr, isr, mask, port60, locked, default_fg, fb_vfs_node,
                 history, display>>

fb_create_vfs_node ==
  /\ At(NUL, "run") /\ booted = "enabled"
  /\ fb_vfs_node' = TRUE /\ booted' = "registered"
  /\ UNCHANGED <<stack, intr, irr, isr, mask, port60, locked, default_fg, history,
                 display>>

-----------------------------------------------------------------------------
(* Interrupts *)

DeliverAnyPriority(irq) ==
  /\ intr /\ irq \in irr \ mask
  /\ irr' = irr \ {irq} /\ isr' = isr \cup {irq}
  /\ intr' = FALSE
  /\ stack' = Append(stack, Activation(irq, IF irq = TIMER THEN "eoi" ELSE "inb", TRUE))
  /\ UNCHANGED <<port60, locked, default_fg, boot, history, display>>

\* The PIC delivers what is requested, not masked, and of higher priority
\* than all that is in service.
Deliver(irq) ==
  /\ intr /\ irq \in irr \ mask
  /\ \A s \in isr : irq < s
  /\ irr' = irr \ {irq} /\ isr' = isr \cup {irq}
  /\ intr' = FALSE
  /\ stack' = Append(stack, Activation(irq, IF irq = TIMER THEN "eoi" ELSE "inb", TRUE))
  /\ UNCHANGED <<port60, locked, default_fg, boot, history, display>>

EchoAll ==
  /\ At(KEYBOARD, "inb")
  /\ port60' = NUL
  /\ printf(<<ascii[port60]>>, "white")
  /\ UNCHANGED <<intr, irr, isr, locked, boot, pressed, shown, display>>

ReleaseWithoutEoi ==
  /\ At(KEYBOARD, "inb")
  /\ port60' = NUL
  /\ IF ascii[port60] = NUL
     THEN Goto("iretq") /\ UNCHANGED <<default_fg, prints>>
     ELSE printf(<<ascii[port60]>>, "white")
  /\ UNCHANGED <<intr, irr, isr, locked, boot, pressed, shown, display>>

\* keyboard_handler_main: a key that has no character prints nothing.
keyboard_handler_main ==
  /\ At(KEYBOARD, "inb")
  /\ port60' = NUL
  /\ IF ascii[port60] = NUL
     THEN Goto("eoi") /\ UNCHANGED <<default_fg, prints>>
     ELSE printf(<<ascii[port60]>>, "white")
  /\ UNCHANGED <<intr, irr, isr, locked, boot, pressed, shown, display>>

\* The unspecific EOI ends the interrupt of the highest priority.
pic_send_eoi ==
  /\ Top.at = "eoi"
  /\ isr' = isr \ {Min(isr)}
  /\ Goto("iretq")
  /\ UNCHANGED <<intr, irr, port60, locked, default_fg, boot, history, display>>

Iretq ==
  /\ Top.at = "iretq"
  /\ intr' = Top.flags
  /\ stack' = Front(stack)
  /\ UNCHANGED <<irr, isr, port60, locked, default_fg, boot, history, display>>

Tick ==
  /\ TIMER \notin irr
  /\ irr' = irr \cup {TIMER}
  /\ UNCHANGED <<stack, intr, isr, port60, locked, default_fg, boot, history, display>>

\* The keyboard keeps further keys to itself until port60 has been read.
KeyPress(code) ==
  /\ port60 = NUL /\ Len(pressed) < MaxKeys
  /\ port60' = code /\ irr' = irr \cup {KEYBOARD}
  /\ pressed' = Append(pressed, code)
  /\ UNCHANGED <<stack, intr, isr, locked, default_fg, boot, prints, shown, display>>

-----------------------------------------------------------------------------

Printing == Cli \/ TestAndSet \/ PutChar \/ Clear \/ Sti
BootStep ==
  Top.irq = NUL /\ (Printing \/ Unmask \/ EnableInterrupts \/ fb_create_vfs_node
                    \/ \E m \in Messages : BootPrintf(m))
KeyboardStep ==
  Top.irq = KEYBOARD /\ (Printing \/ keyboard_handler_main \/ pic_send_eoi \/ Iretq)
TimerStep == Top.irq = TIMER /\ (pic_send_eoi \/ Iretq)

Next ==
  \/ BootStep \/ KeyboardStep \/ TimerStep
  \/ \E irq \in {TIMER, KEYBOARD} : Deliver(irq)
  \/ Tick
  \/ \E code \in Scancodes : KeyPress(code)

-----------------------------------------------------------------------------
(* Properties *)

\* Activations, the interrupt controller and the steps of the boot are well formed.
TypeOK ==
  /\ stack \in Seq([irq : {NUL, TIMER, KEYBOARD, FAULT},
                    at : {"run", "cli", "test_and_set", "put", "sti", "inb", "eoi",
                          "iretq", "dump", "draw", "wrap", "halt"},
                    text : Seq(STRING), color : Colors, id : Nat, flags : BOOLEAN])
  /\ intr \in BOOLEAN /\ locked \in BOOLEAN /\ fb_vfs_node \in BOOLEAN
  /\ irr \subseteq {TIMER, KEYBOARD} /\ isr \subseteq {TIMER, KEYBOARD}
  /\ mask \subseteq {TIMER, KEYBOARD}
  /\ port60 \in Scancodes \cup {NUL}
  /\ booted \in {"early", "unmasked", "enabled", "registered"}
  /\ prints \in Nat /\ pressed \in Seq(Scancodes)

(***************************************************************************)
(* A message is never torn: keys echoed by the interrupt handler appear    *)
(* between two printf calls and not in the middle of one.  It has one      *)
(* colour, and as long as the frame buffer device does not exist that is   *)
(* the one it asked for.  With the device it is default_fg, which a key    *)
(* pressed before the lock is taken turns white.                           *)
(***************************************************************************)
MessagesWhole ==
  /\ \A i, k \in DOMAIN shown : \A j \in i..k :
       shown[i].id = shown[k].id => shown[j].id = shown[i].id
  /\ \A i, j \in DOMAIN shown :
       /\ shown[i].id = shown[j].id => shown[i].fg = shown[j].fg
       /\ ~shown[i].device => shown[i].fg = shown[i].color

\* The characters of the keys pressed, and those the handler has echoed.
Character(code) == IF ascii[code] = NUL THEN <<>> ELSE <<ascii[code]>>
Typing == FlattenSeq([n \in DOMAIN pressed |-> Character(pressed[n])])
Echo == FlattenSeq([n \in DOMAIN shown |->
                      IF shown[n].irq = KEYBOARD THEN <<shown[n].ch>> ELSE <<>>])

(***************************************************************************)
(* Keys are echoed once each and in the order in which they were pressed,  *)
(* however the handler's activations nest, and none is left out once the   *)
(* keyboard is read and all handlers have returned.                        *)
(***************************************************************************)
EchoInOrder ==
  /\ IsPrefix(Echo, Typing)
  /\ Len(stack) = 1 /\ port60 = NUL => Echo = Typing

(***************************************************************************)
(* What the PIC holds in service is what really is: the unspecific EOI of  *)
(* a nested handler never ends the interrupt of the handler below it.      *)
(***************************************************************************)
InService ==
  \A irq \in {TIMER, KEYBOARD} :
    Cardinality({i \in DOMAIN stack : stack[i].irq = irq /\ stack[i].at # "iretq"})
      = IF irq \in isr THEN 1 ELSE 0

(***************************************************************************)
(* No printf waits for ever for fb_lock, held by an activation that it has *)
(* itself interrupted: the boot thread always comes back from printf, if   *)
(* no exception ends it.                                                   *)
(***************************************************************************)
Faulted == \E k \in DOMAIN stack : stack[k].irq = FAULT
PrintfReturns == stack[1].at # "run" ~> (stack[1].at = "run" \/ Faulted)

\* Once the keyboard is unmasked, every key is read, if no exception halts
\* the machine.
KeysAreRead == (port60 # NUL /\ KEYBOARD \notin mask) ~> (port60 = NUL \/ Faulted)

(***************************************************************************)
(* Nested activations and the PIC agree: the handlers on the stack are     *)
(* well formed and those in service are the ones that have not sent their  *)
(* EOI.                                                                    *)
(***************************************************************************)
ConsoleInv == TypeOK /\ InService
=============================================================================

--------------------------- MODULE ConsoleProofs ---------------------------
(***************************************************************************)
(* Proofs about printf, the keyboard and timer interrupts and the          *)
(* exceptions of Console.tla and Exceptions.tla, for any messages, any     *)
(* number of keys and any number of exceptions.                            *)
(*                                                                         *)
(* The inductive invariant has four parts.  Shape says which activation    *)
(* may stand where: only below an exception does an activation hold        *)
(* fb_lock, or wait for it, without being on top; a timer handler is on    *)
(* top always; what the PIC has in service is the one activation that has  *)
(* not sent its EOI.  Story says what of each pending message has been     *)
(* shown.  Cursor says where put_char leaves the cursor.  Keys says that   *)
(* what has been typed and not echoed is what port 0x60 and the one        *)
(* keyboard handler hold.                                                  *)
(*                                                                         *)
(* What FlattenSeq makes of a sequence is a fold, proved by an induction   *)
(* on its length that rests on < being well-founded on Nat.                *)
(***************************************************************************)
EXTENDS Exceptions, FiniteSetTheorems, WellFoundedInduction, TLAPS

Act == [irq : {NUL, TIMER, KEYBOARD, FAULT},
        at : {"run", "cli", "test_and_set", "put", "sti", "inb", "eoi",
              "iretq", "dump", "draw", "wrap", "halt"},
        text : Seq(STRING), color : Colors, id : Nat, flags : BOOLEAN]

Shown == [id : Nat, irq : {NUL, TIMER, KEYBOARD, FAULT}, ch : STRING,
          fg : Colors, color : Colors, device : BOOLEAN]

\* What the activation of an interrupt, of an exception and of _start may
\* be doing.
Printf == {"cli", "test_and_set", "put", "sti"}
Place(irq) ==
  IF irq = NUL THEN {"run"} \cup Printf
  ELSE IF irq = TIMER THEN {"eoi", "iretq"}
  ELSE IF irq = KEYBOARD THEN {"inb", "eoi", "iretq"} \cup Printf
  ELSE {"dump", "draw", "wrap", "halt"} \cup Printf

Types ==
  /\ stack \in Seq(Act) /\ stack # <<>>
  /\ intr \in BOOLEAN /\ locked \in BOOLEAN /\ fb_vfs_node \in BOOLEAN
  /\ irr \subseteq {TIMER, KEYBOARD} /\ isr \subseteq {TIMER, KEYBOARD}
  /\ mask \subseteq {TIMER, KEYBOARD}
  /\ port60 \in Scancodes \cup {NUL}
  /\ booted \in {"early", "unmasked", "enabled", "registered"}
  /\ prints \in Nat /\ pressed \in Seq(Scancodes)
  /\ shown \in Seq(Shown) /\ default_fg \in Colors /\ dump \in Seq(DumpCall)

\* The keyboard requests an interrupt for a key that it holds, and holds it
\* until the handler has read it.
KeyHeld ==
  /\ KEYBOARD \in irr => port60 # NUL
  /\ \A k \in DOMAIN stack : stack[k].at = "inb" => port60 # NUL /\ KEYBOARD \notin irr

\* The places at which nothing comes between but an exception, at "put"; and
\* a character that has been drawn is still in the text.
Stacked ==
  \A k \in DOMAIN stack :
    /\ stack[k].at \in Place(stack[k].irq)
    /\ k = 1 <=> stack[k].irq = NUL
    /\ stack[k].at = "wrap" => stack[k].text # <<>>
    /\ stack[k].at \in {"test_and_set", "put", "inb"} \/ stack[k].irq = TIMER =>
         IF k = Len(stack) THEN ~intr
         ELSE stack[k].at = "put" /\ stack[k + 1].irq = FAULT

\* fb_lock is held by an activation, and by one only.
LockHeld ==
  /\ locked <=> \E k \in DOMAIN stack : stack[k].at = "put"
  /\ \A j, k \in DOMAIN stack : stack[j].at = "put" /\ stack[k].at = "put" => j = k

Serves(k, irq) == stack[k].irq = irq /\ stack[k].at # "iretq"

Served ==
  \A irq \in {TIMER, KEYBOARD} :
    /\ irq \in isr <=> \E k \in DOMAIN stack : Serves(k, irq)
    /\ \A j, k \in DOMAIN stack : Serves(j, irq) /\ Serves(k, irq) => j = k

Shape == Types /\ KeyHeld /\ Stacked /\ LockHeld /\ Served

\* Messages that are not yet shown to their end.
Pending == {k \in DOMAIN stack : stack[k].at \in {"cli", "test_and_set", "put"}}

Numbers ==
  /\ \A i \in DOMAIN shown : shown[i].id <= prints
  /\ \A k \in Pending : stack[k].id <= prints
  /\ \A j, k \in Pending : stack[j].id = stack[k].id => j = k

\* Nothing is shown before the lock is taken; what is shown of the message
\* of the one that holds it stands at the end.
Begun ==
  \A k \in Pending : \A i \in DOMAIN shown :
    shown[i].id = stack[k].id =>
      /\ stack[k].at = "put"
      /\ \A j \in i..Len(shown) : shown[j].id = shown[i].id
      /\ k = Len(stack) => shown[i].fg = ForegroundOf(stack[k])

Story == Numbers /\ Begun /\ MessagesWhole

Cursor ==
  /\ cursor_x \in Nat /\ cursor_y \in 0..(rows - 1)
  /\ cursor_x < cols \/ \E k \in DOMAIN stack : stack[k].at = "wrap"

IInv == Shape /\ Story /\ Cursor

-----------------------------------------------------------------------------
(* The stack *)

LEMMA StackIs ==
  ASSUME Types
  PROVE  /\ Len(stack) \in Nat \ {0} /\ DOMAIN stack = 1..Len(stack)
         /\ Top \in Act /\ Len(stack) \in DOMAIN stack
         /\ \A k \in DOMAIN stack : stack[k] \in Act
<1>1. stack \in Seq(Act) /\ stack # <<>>
  BY DEF Types
<1>2. Len(stack) \in Nat /\ DOMAIN stack = 1..Len(stack) /\ Len(stack) # 0
  BY <1>1
<1> QED
  BY <1>1, <1>2 DEF Top

\* The running activation changes.
LEMMA Replaced ==
  ASSUME Types, NEW a \in Act, stack' = [stack EXCEPT ![Len(stack)] = a]
  PROVE  /\ stack' \in Seq(Act) /\ stack' # <<>> /\ Len(stack') = Len(stack)
         /\ Top' = a /\ DOMAIN stack' = DOMAIN stack
         /\ \A k \in DOMAIN stack : stack'[k] = IF k = Len(stack) THEN a ELSE stack[k]
<1>1. stack \in Seq(Act) /\ Len(stack) \in Nat \ {0} /\ DOMAIN stack = 1..Len(stack)
  BY StackIs DEF Types
<1>2. stack' \in Seq(Act) /\ Len(stack') = Len(stack) /\ DOMAIN stack' = DOMAIN stack
  BY <1>1
<1>3. \A k \in DOMAIN stack : stack'[k] = IF k = Len(stack) THEN a ELSE stack[k]
  BY <1>1
<1>4. stack' # <<>>
  BY <1>1, <1>2
<1> QED
  BY <1>1, <1>2, <1>3, <1>4 DEF Top

\* An interrupt or an exception comes.
LEMMA Pushed ==
  ASSUME Types, NEW a \in Act, stack' = Append(stack, a)
  PROVE  /\ stack' \in Seq(Act) /\ stack' # <<>> /\ Len(stack') = Len(stack) + 1
         /\ Top' = a /\ DOMAIN stack' = 1..(Len(stack) + 1) /\ stack'[Len(stack) + 1] = a
         /\ \A k \in DOMAIN stack : stack'[k] = stack[k]
<1>1. stack \in Seq(Act) /\ Len(stack) \in Nat \ {0} /\ DOMAIN stack = 1..Len(stack)
  BY StackIs DEF Types
<1>2. stack' \in Seq(Act) /\ Len(stack') = Len(stack) + 1 /\ DOMAIN stack' = 1..(Len(stack) + 1)
  BY <1>1
<1>3. stack'[Len(stack) + 1] = a /\ \A k \in DOMAIN stack : stack'[k] = stack[k]
  BY <1>1
<1>4. stack' # <<>>
  BY <1>1, <1>2
<1> QED
  BY <1>1, <1>2, <1>3, <1>4 DEF Top

\* An interrupt returns to what it has interrupted.
LEMMA Popped ==
  ASSUME Types, Len(stack) > 1, stack' = Front(stack)
  PROVE  /\ stack' \in Seq(Act) /\ stack' # <<>> /\ Len(stack') = Len(stack) - 1
         /\ Top' = stack[Len(stack) - 1] /\ DOMAIN stack' = 1..(Len(stack) - 1)
         /\ \A k \in 1..(Len(stack) - 1) : stack'[k] = stack[k]
<1>1. stack \in Seq(Act) /\ Len(stack) \in Nat \ {0} /\ DOMAIN stack = 1..Len(stack)
  BY StackIs DEF Types
<1>2. stack' = SubSeq(stack, 1, Len(stack) - 1)
  BY DEF Front
<1>3. /\ stack' \in Seq(Act) /\ Len(stack') = Len(stack) - 1 /\ DOMAIN stack' = 1..(Len(stack) - 1)
      /\ \A k \in 1..(Len(stack) - 1) : stack'[k] = stack[k]
  BY <1>1, <1>2
<1>4. stack' # <<>>
  BY <1>1, <1>3
<1> QED
  BY <1>1, <1>3, <1>4 DEF Top

LEMMA Numbered == /\ NUL # TIMER /\ NUL # KEYBOARD /\ NUL # FAULT
                  /\ TIMER # KEYBOARD /\ TIMER # FAULT /\ KEYBOARD # FAULT
  BY ConsoleConstants DEF TIMER, KEYBOARD, FAULT

-----------------------------------------------------------------------------
(* Which activation stands where *)

LEMMA ReplacedShape ==
  ASSUME Shape, NEW a \in Act, stack' = [stack EXCEPT ![Len(stack)] = a],
         a.irq = Top.irq, a.at \in Place(a.irq), Top.at # "iretq",
         a.at = "wrap" => a.text # <<>>,
         a.at \in {"test_and_set", "put", "inb"} \/ a.irq = TIMER => ~intr',
         a.at = "put" => Top.at = "put" \/ ~locked,
         locked' <=> (locked /\ Top.at # "put") \/ a.at = "put",
         isr' = IF a.at = "iretq" THEN isr \ {Top.irq} ELSE isr
  PROVE  Stacked' /\ LockHeld' /\ Served'
<1> PICK n : n = Len(stack)
  OBVIOUS
<1>1. /\ n \in Nat \ {0} /\ DOMAIN stack = 1..n /\ Top = stack[n] /\ n \in DOMAIN stack
      /\ DOMAIN stack' = 1..n /\ Len(stack') = n
      /\ \A k \in 1..n : stack'[k] = IF k = n THEN a ELSE stack[k]
  BY Replaced, StackIs DEF Shape, Top
<1>2. Stacked'
  <2>1. /\ stack'[n].at \in Place(stack'[n].irq) /\ stack'[n].irq = stack[n].irq
        /\ stack'[n].at = "wrap" => stack'[n].text # <<>>
    BY <1>1
  <2>2. ASSUME NEW k \in 1..n, k # n
        PROVE  /\ stack'[k] = stack[k] /\ k + 1 \in 1..n /\ stack'[k + 1].irq = stack[k + 1].irq
               /\ stack[k].at \in Place(stack[k].irq) /\ (k = 1 <=> stack[k].irq = NUL)
               /\ stack[k].at = "wrap" => stack[k].text # <<>>
               /\ stack[k].at \in {"test_and_set", "put", "inb"} \/ stack[k].irq = TIMER =>
                    stack[k].at = "put" /\ stack[k + 1].irq = FAULT
    BY <1>1, <2>1, <2>2 DEF Shape, Stacked
  <2>3. n = 1 <=> stack[n].irq = NUL
    BY <1>1 DEF Shape, Stacked
  <2> QED
    BY <1>1, <2>1, <2>2, <2>3 DEF Stacked
<1>3. LockHeld'
  <2>1. \A k \in 1..n : stack'[k].at = "put" <=> (k # n /\ stack[k].at = "put") \/ (k = n /\ a.at = "put")
    BY <1>1
  <2>2. locked <=> \E k \in 1..n : stack[k].at = "put"
    BY <1>1 DEF Shape, LockHeld
  <2>3. \A j, k \in 1..n : stack[j].at = "put" /\ stack[k].at = "put" => j = k
    BY <1>1 DEF Shape, LockHeld
  <2>4. locked' <=> \E k \in 1..n : stack'[k].at = "put"
    BY <1>1, <2>1, <2>2, <2>3
  <2>5. \A j, k \in 1..n : stack'[j].at = "put" /\ stack'[k].at = "put" => j = k
    BY <1>1, <2>1, <2>2, <2>3
  <2> QED
    BY <1>1, <2>4, <2>5 DEF LockHeld
<1>4. Served'
  <2> SUFFICES ASSUME NEW irq \in {TIMER, KEYBOARD}
               PROVE  /\ irq \in isr' <=> \E k \in DOMAIN stack' : Serves(k, irq)'
                      /\ \A j, k \in DOMAIN stack' : Serves(j, irq)' /\ Serves(k, irq)' => j = k
    BY DEF Served
  <2>1. /\ irq \in isr <=> \E k \in 1..n : Serves(k, irq)
        /\ \A j, k \in 1..n : Serves(j, irq) /\ Serves(k, irq) => j = k
    BY <1>1 DEF Shape, Served
  <2>2. \A k \in 1..n : Serves(k, irq)' <=> Serves(k, irq) /\ ~(k = n /\ a.at = "iretq")
    BY <1>1 DEF Serves
  <2>3. Serves(n, irq) <=> Top.irq = irq
    BY <1>1 DEF Serves
  <2> QED
    BY <1>1, <2>1, <2>2, <2>3
<1> QED
  BY <1>2, <1>3, <1>4

LEMMA PushedShape ==
  ASSUME Shape, NEW a \in Act, stack' = Append(stack, a),
         a.irq # NUL, a.at \in Place(a.irq), a.at \notin {"put", "iretq", "test_and_set", "wrap"}, ~intr',
         locked' = locked,
         \/ intr /\ a.irq \in {TIMER, KEYBOARD} \ isr /\ isr' = isr \cup {a.irq}
         \/ Top.at \in {"run", "put"} /\ a.irq = FAULT /\ isr' = isr
  PROVE  Stacked' /\ LockHeld' /\ Served'
<1> PICK n : n = Len(stack)
  OBVIOUS
<1>1. /\ n \in Nat \ {0} /\ DOMAIN stack = 1..n /\ Top = stack[n] /\ n \in DOMAIN stack
      /\ DOMAIN stack' = 1..(n + 1) /\ Len(stack') = n + 1 /\ stack'[n + 1] = a
      /\ \A k \in 1..n : stack'[k] = stack[k]
  BY Pushed, StackIs DEF Shape, Top
<1>2. Stacked'
  <2>1. ASSUME NEW k \in 1..n, k # n
        PROVE  /\ k + 1 \in 1..n
               /\ stack[k].at \in {"test_and_set", "put", "inb"} \/ stack[k].irq = TIMER =>
                    stack[k].at = "put" /\ stack[k + 1].irq = FAULT
    BY <1>1, <2>1 DEF Shape, Stacked
  <2>2. stack[n].at \in {"test_and_set", "put", "inb"} \/ stack[n].irq = TIMER =>
          stack[n].at = "put" /\ a.irq = FAULT
    <3>1. stack[n].at \in {"test_and_set", "put", "inb"} \/ stack[n].irq = TIMER => ~intr
      BY <1>1 DEF Shape, Stacked
    <3>2. stack[n].irq = TIMER => stack[n].at \notin {"run", "put"}
      BY <1>1, Numbered DEF Shape, Stacked, Place
    <3> QED
      BY <1>1, <3>1, <3>2
  <2>3. \A k \in 1..n : /\ stack[k].at \in Place(stack[k].irq) /\ (k = 1 <=> stack[k].irq = NUL)
                        /\ stack[k].at = "wrap" => stack[k].text # <<>>
    BY <1>1 DEF Shape, Stacked
  <2>4. n \in 1..(n + 1) /\ n + 1 # 1 /\ \A k \in 1..(n + 1) : k \in 1..n \/ k = n + 1
    BY <1>1
  <2> QED
    BY <1>1, <2>1, <2>2, <2>3, <2>4 DEF Stacked
<1>3. LockHeld'
  BY <1>1 DEF Shape, LockHeld
<1>4. Served'
  <2> SUFFICES ASSUME NEW irq \in {TIMER, KEYBOARD}
               PROVE  /\ irq \in isr' <=> \E k \in DOMAIN stack' : Serves(k, irq)'
                      /\ \A j, k \in DOMAIN stack' : Serves(j, irq)' /\ Serves(k, irq)' => j = k
    BY DEF Served
  <2>1. /\ irq \in isr <=> \E k \in 1..n : Serves(k, irq)
        /\ \A j, k \in 1..n : Serves(j, irq) /\ Serves(k, irq) => j = k
    BY <1>1 DEF Shape, Served
  <2>2. /\ \A k \in 1..n : Serves(k, irq)' <=> Serves(k, irq)
        /\ Serves(n + 1, irq)' <=> a.irq = irq
    BY <1>1 DEF Serves
  <2>3. irq \in isr' <=> irq \in isr \/ irq = a.irq
    BY Numbered
  <2>4. irq = a.irq => irq \notin isr
    BY Numbered
  <2> QED
    BY <1>1, <2>1, <2>2, <2>3, <2>4
<1> QED
  BY <1>2, <1>3, <1>4

LEMMA PoppedShape ==
  ASSUME Shape, Top.at = "iretq", stack' = Front(stack), locked' = locked, isr' = isr
  PROVE  Len(stack) > 1 /\ Stacked' /\ LockHeld' /\ Served'
<1> PICK n : n = Len(stack)
  OBVIOUS
<1>1. n \in Nat \ {0} /\ DOMAIN stack = 1..n /\ Top = stack[n] /\ n \in DOMAIN stack
  BY StackIs DEF Shape, Top
<1>2. n > 1 /\ stack[n].irq # FAULT
  BY <1>1, Numbered DEF Shape, Stacked, Place, Printf
<1>3. /\ DOMAIN stack' = 1..(n - 1) /\ Len(stack') = n - 1
      /\ \A k \in 1..(n - 1) : stack'[k] = stack[k]
  BY <1>1, <1>2, Popped DEF Shape
<1>4. Stacked'
  <2>1. ASSUME NEW k \in 1..(n - 1)
        PROVE  /\ k + 1 \in 1..n /\ k \in 1..n /\ k # n
               /\ stack[k].at \in Place(stack[k].irq) /\ (k = 1 <=> stack[k].irq = NUL)
               /\ stack[k].at = "wrap" => stack[k].text # <<>>
               /\ stack[k].at \in {"test_and_set", "put", "inb"} \/ stack[k].irq = TIMER =>
                    stack[k].at = "put" /\ stack[k + 1].irq = FAULT
    BY <1>1, <2>1 DEF Shape, Stacked
  <2>2. ASSUME NEW k \in 1..(n - 1), stack[k].at \in {"test_and_set", "put", "inb"} \/ stack[k].irq = TIMER
        PROVE  k # n - 1 /\ k + 1 \in 1..(n - 1)
    <3>1. k # n - 1
      BY <1>1, <1>2, <2>1, <2>2
    <3> QED
      BY <1>1, <3>1
  <2>3. ASSUME NEW k \in DOMAIN stack'
        PROVE  /\ stack'[k].at \in Place(stack'[k].irq) /\ (k = 1 <=> stack'[k].irq = NUL)
               /\ stack'[k].at = "wrap" => stack'[k].text # <<>>
               /\ stack'[k].at \in {"test_and_set", "put", "inb"} \/ stack'[k].irq = TIMER =>
                    k # Len(stack') /\ stack'[k].at = "put" /\ stack'[k + 1].irq = FAULT
    <3>1. k \in 1..(n - 1) /\ stack'[k] = stack[k]
      BY <1>3
    <3>2. ASSUME stack[k].at \in {"test_and_set", "put", "inb"} \/ stack[k].irq = TIMER
          PROVE  k # n - 1 /\ stack'[k + 1] = stack[k + 1]
      BY <1>3, <2>2, <3>1, <3>2
    <3> QED
      BY <1>3, <2>1, <3>1, <3>2
  <2> QED
    BY <2>3 DEF Stacked
<1>5. LockHeld'
  <2>1. \A k \in 1..n : stack[k].at = "put" => k \in 1..(n - 1)
    BY <1>1
  <2>2. /\ locked <=> \E k \in 1..n : stack[k].at = "put"
        /\ \A j, k \in 1..n : stack[j].at = "put" /\ stack[k].at = "put" => j = k
    BY <1>1 DEF Shape, LockHeld
  <2>3. \A k \in 1..(n - 1) : k \in 1..n
    BY <1>1
  <2> QED
    BY <1>3, <2>1, <2>2, <2>3, SMTT(30) DEF LockHeld
<1>6. Served'
  <2> SUFFICES ASSUME NEW irq \in {TIMER, KEYBOARD}
               PROVE  /\ irq \in isr' <=> \E k \in DOMAIN stack' : Serves(k, irq)'
                      /\ \A j, k \in DOMAIN stack' : Serves(j, irq)' /\ Serves(k, irq)' => j = k
    BY DEF Served
  <2>1. \A k \in 1..n : Serves(k, irq) => k \in 1..(n - 1)
    BY <1>1 DEF Serves
  <2>2. \A k \in 1..(n - 1) : Serves(k, irq)' <=> Serves(k, irq)
    BY <1>3 DEF Serves
  <2> QED
    BY <1>1, <1>3, <2>1, <2>2 DEF Shape, Served
<1> QED
  BY <1>2, <1>4, <1>5, <1>6

-----------------------------------------------------------------------------
(* What is shown *)

LEMMA ShownIs ==
  ASSUME Types
  PROVE  /\ Len(shown) \in Nat /\ DOMAIN shown = 1..Len(shown) /\ prints \in Nat
         /\ \A i \in DOMAIN shown : shown[i] \in Shown
  BY DEF Types

\* A step that shows nothing and begins no message.
LEMMA QuietStory ==
  ASSUME Shape, Story, Types', shown' = shown, prints' = prints,
         \A k \in Pending' :
           /\ k \in Pending /\ stack'[k].id = stack[k].id
           /\ stack[k].at = "put" => stack'[k].at = "put"
           /\ k = Len(stack') /\ stack[k].at = "put" =>
                k = Len(stack) /\ ForegroundOf(stack[k])' = ForegroundOf(stack[k])
  PROVE  Story'
<1>1. Numbers'
  BY DEF Story, Numbers
<1>2. Begun'
  <2> SUFFICES ASSUME NEW k \in Pending', NEW i \in DOMAIN shown, shown[i].id = stack'[k].id
               PROVE  /\ stack'[k].at = "put"
                      /\ \A j \in i..Len(shown) : shown[j].id = shown[i].id
                      /\ k = Len(stack') => shown[i].fg = ForegroundOf(stack[k])'
    BY DEF Begun
  <2>1. k \in Pending /\ shown[i].id = stack[k].id
    OBVIOUS
  <2>2. /\ stack[k].at = "put"
        /\ \A j \in i..Len(shown) : shown[j].id = shown[i].id
        /\ k = Len(stack) => shown[i].fg = ForegroundOf(stack[k])
    BY <2>1 DEF Story, Begun
  <2> QED
    BY <2>1, <2>2
<1>3. MessagesWhole'
  BY DEF Story, MessagesWhole
<1> QED
  BY <1>1, <1>2, <1>3 DEF Story

\* A call of printf.
LEMMA PrintfStory ==
  ASSUME Shape, Story, NEW a \in Act, stack' = [stack EXCEPT ![Len(stack)] = a],
         a.at = "cli", a.id = prints + 1, Top.at \notin {"cli", "test_and_set", "put"},
         shown' = shown, prints' = prints + 1
  PROVE  Story'
<1> PICK n, p : n = Len(stack) /\ p = prints + 1
  OBVIOUS
<1>1. /\ n \in Nat \ {0} /\ DOMAIN stack = 1..n /\ Top = stack[n] /\ n \in DOMAIN stack
      /\ DOMAIN stack' = 1..n /\ Len(stack') = n
      /\ \A k \in 1..n : stack'[k] = IF k = n THEN a ELSE stack[k]
      /\ \A k \in 1..n : stack[k] \in Act
  BY Replaced, StackIs DEF Shape, Top
<1>2. /\ prints \in Nat /\ p \in Nat /\ p > prints
      /\ \A i \in DOMAIN shown : shown[i].id \in Nat
      /\ \A k \in 1..n : stack[k].id \in Nat
  BY <1>1, ShownIs DEF Shape, Shown, Act
<1>3. /\ \A k \in Pending' : k # n => k \in Pending /\ stack'[k] = stack[k]
      /\ stack'[n] = a /\ \A k \in Pending : k \in 1..n
  <2>1. ASSUME NEW k \in Pending', k # n PROVE k \in Pending /\ stack'[k] = stack[k]
    <3>1. k \in 1..n /\ stack'[k].at \in {"cli", "test_and_set", "put"}
      BY <1>1, <2>1 DEF Pending
    <3>2. stack'[k] = stack[k]
      BY <1>1, <2>1, <3>1
    <3> QED
      BY <1>1, <3>1, <3>2 DEF Pending
  <2>2. stack'[n] = a
    BY <1>1
  <2>3. \A k \in Pending : k \in 1..n
    BY <1>1 DEF Pending
  <2> QED
    BY <2>1, <2>2, <2>3
<1>4. /\ \A i \in DOMAIN shown : shown[i].id <= prints
      /\ \A k \in Pending : stack[k].id <= prints
      /\ \A j, k \in Pending : stack[j].id = stack[k].id => j = k
  BY DEF Story, Numbers
<1>5. Numbers'
  <2>1. \A i \in DOMAIN shown : shown[i].id <= p
    BY <1>2, <1>4
  <2>2. ASSUME NEW k \in Pending'
        PROVE  stack'[k].id <= p /\ (k # n => stack'[k].id <= prints /\ stack'[k].id # p)
    BY <1>2, <1>3, <1>4
  <2>3. \A j, k \in Pending' : stack'[j].id = stack'[k].id => j = k
    BY <1>3, <1>4, <2>2
  <2> QED
    BY <2>1, <2>2, <2>3 DEF Numbers
<1>6. Begun'
  <2> SUFFICES ASSUME NEW k \in Pending', NEW i \in DOMAIN shown, shown[i].id = stack'[k].id
               PROVE  /\ stack'[k].at = "put"
                      /\ \A j \in i..Len(shown) : shown[j].id = shown[i].id
                      /\ k = Len(stack') => shown[i].fg = ForegroundOf(stack[k])'
    BY DEF Begun
  <2>1. k # n
    BY <1>2, <1>3, <1>4
  <2> QED
    BY <1>1, <1>3, <2>1 DEF Story, Begun
<1>7. MessagesWhole'
  BY DEF Story, MessagesWhole
<1> QED
  BY <1>5, <1>6, <1>7 DEF Story

\* printf shows a character.
LEMMA PutStory ==
  ASSUME Shape, Story, NEW a \in Act, stack' = [stack EXCEPT ![Len(stack)] = a],
         Top.at = "put", a.at = "put", a.id = Top.id, a.color = Top.color,
         NEW e \in Shown, shown' = Append(shown, e),
         e.id = Top.id, e.fg = ForegroundOf(Top), e.color = Top.color, e.device = fb_vfs_node,
         UNCHANGED <<prints, default_fg, fb_vfs_node>>
  PROVE  Story'
<1> PICK n, m : n = Len(stack) /\ m = Len(shown)
  OBVIOUS
<1>1. /\ n \in Nat \ {0} /\ DOMAIN stack = 1..n /\ Top = stack[n] /\ n \in DOMAIN stack
      /\ DOMAIN stack' = 1..n /\ Len(stack') = n
      /\ \A k \in 1..n : stack'[k] = IF k = n THEN a ELSE stack[k]
  BY Replaced, StackIs DEF Shape, Top
<1>2. /\ m \in Nat /\ DOMAIN shown = 1..m /\ Len(shown') = m + 1 /\ DOMAIN shown' = 1..(m + 1)
      /\ shown'[m + 1] = e /\ \A i \in 1..m : shown'[i] = shown[i]
  BY ShownIs DEF Shape, Types
<1>3. /\ Pending' = Pending /\ n \in Pending
      /\ \A k \in Pending : /\ stack'[k].id = stack[k].id /\ stack'[k].at = stack[k].at
                            /\ ForegroundOf(stack[k])' = ForegroundOf(stack[k])
  BY <1>1 DEF Pending, ForegroundOf
<1>4. /\ \A i \in 1..m : shown[i].id <= prints
      /\ \A k \in Pending : stack[k].id <= prints
      /\ \A j, k \in Pending : stack[j].id = stack[k].id => j = k
  BY <1>2 DEF Story, Numbers
<1>5. \A k \in Pending : \A i \in 1..m : shown[i].id = stack[k].id =>
        /\ stack[k].at = "put"
        /\ \A j \in i..m : shown[j].id = shown[i].id
        /\ k = n => shown[i].fg = ForegroundOf(stack[k])
  BY <1>1, <1>2 DEF Story, Begun
<1>6. \A i \in 1..(m + 1) : i \in 1..m \/ i = m + 1
  BY <1>2
<1>7. Numbers'
  <2>1. \A i \in 1..(m + 1) : shown'[i].id <= prints
    BY <1>1, <1>2, <1>3, <1>4, <1>6
  <2> QED
    BY <1>2, <1>3, <1>4, <2>1 DEF Numbers
<1>8. \A i \in 1..m : shown[i].id = e.id =>
        (\A j \in i..m : shown[j].id = e.id) /\ shown[i].fg = e.fg
  BY <1>1, <1>3, <1>5
<1>9. \A i \in 1..(m + 1) : \A j \in i..(m + 1) : (j \in i..m /\ i \in 1..m /\ j \in 1..m) \/ j = m + 1
  BY <1>2
<1>10. Begun'
  <2> SUFFICES ASSUME NEW k \in Pending, NEW i \in 1..(m + 1), shown'[i].id = stack[k].id
               PROVE  /\ stack[k].at = "put"
                      /\ \A j \in i..(m + 1) : shown'[j].id = shown'[i].id
                      /\ k = n => shown'[i].fg = ForegroundOf(stack[k])
    BY <1>1, <1>2, <1>3 DEF Begun
  <2>1. k = n /\ stack[k].id = e.id
    <3>1. CASE i = m + 1
      BY <1>1, <1>2, <1>3, <1>4, <3>1
    <3>2. CASE i \in 1..m
      <4>1. shown[i].id = stack[k].id /\ stack[k].at = "put"
        BY <1>2, <1>5, <3>2
      <4>2. k = n
        BY <1>1, <4>1 DEF Shape, LockHeld, Pending
      <4> QED
        BY <1>1, <4>2
    <3> QED
      BY <1>6, <3>1, <3>2
  <2>2. \A j \in i..(m + 1) : shown'[j].id = e.id
    BY <1>2, <1>8, <1>9, <2>1
  <2>3. shown'[i].fg = e.fg
    BY <1>2, <1>6, <1>8, <2>1
  <2> QED
    BY <1>1, <2>1, <2>2, <2>3
<1>11. MessagesWhole'
  <2>1. ASSUME NEW i \in 1..(m + 1), NEW k \in 1..(m + 1), NEW j \in i..k, shown'[i].id = shown'[k].id
        PROVE  shown'[j].id = shown'[i].id
    <3>1. CASE k = m + 1
      <4>1. shown'[i].id = e.id
        BY <1>2, <2>1, <3>1
      <4> QED
        BY <1>2, <1>8, <1>9, <2>1, <3>1, <4>1
    <3>2. CASE k \in 1..m
      <4>1. i \in 1..m /\ j \in 1..m
        BY <1>2, <3>2
      <4>2. shown[i].id = shown[k].id
        BY <1>2, <2>1, <3>2, <4>1
      <4> QED
        BY <1>2, <3>2, <4>1, <4>2 DEF Story, MessagesWhole
    <3> QED
      BY <1>6, <3>1, <3>2
  <2>2. ASSUME NEW i \in 1..(m + 1), NEW j \in 1..(m + 1)
        PROVE  /\ shown'[i].id = shown'[j].id => shown'[i].fg = shown'[j].fg
               /\ ~shown'[i].device => shown'[i].fg = shown'[i].color
    <3>1. \A x, y \in 1..m : /\ shown[x].id = shown[y].id => shown[x].fg = shown[y].fg
                             /\ ~shown[x].device => shown[x].fg = shown[x].color
      BY <1>2 DEF Story, MessagesWhole
    <3>2. ~e.device => e.fg = e.color
      BY DEF ForegroundOf
    <3>3. \A x \in 1..m : /\ shown'[x] = shown[x]
                          /\ shown'[x].id = e.id => shown'[x].fg = e.fg
      BY <1>2, <1>8
    <3>4. shown'[m + 1] = e
      BY <1>2
    <3>5. (i \in 1..m \/ i = m + 1) /\ (j \in 1..m \/ j = m + 1)
      BY <1>6
    <3>6. shown'[i].id = shown'[j].id => shown'[i].fg = shown'[j].fg
      <4>1. CASE i \in 1..m /\ j \in 1..m
        BY <3>1, <3>3, <4>1
      <4>2. CASE i = m + 1 \/ j = m + 1
        BY <3>3, <3>4, <3>5, <4>2
      <4> QED
        BY <3>5, <4>1, <4>2
    <3>7. ~shown'[i].device => shown'[i].fg = shown'[i].color
      BY <3>1, <3>2, <3>3, <3>4, <3>5
    <3> QED
      BY <3>6, <3>7
  <2> QED
    BY <1>2, <2>1, <2>2 DEF MessagesWhole
<1> QED
  BY <1>7, <1>10, <1>11 DEF Story

-----------------------------------------------------------------------------
(* The cursor *)

\* From wherever, put_char brings the cursor back to the screen.
LEMMA PutCharCursor ==
  ASSUME cursor_x \in Nat, cursor_y \in 0..(rows - 1), NEW c, NEW fg, put_char(c, fg)
  PROVE  cursor_x' \in 0..(cols - 1) /\ cursor_y' \in 0..(rows - 1)
<1>1. cols \in Nat \ {0} /\ rows \in Nat \ {0} /\ TAB \in Nat \ {0}
  BY TerminalConstants
<1>2. TabStop(cursor_x) \in Nat
  <2> PICK d : d = (cursor_x + TAB) \div TAB
    OBVIOUS
  <2>1. d \in Nat
    BY <1>1
  <2>2. d * TAB \in Nat
    BY <1>1, <2>1
  <2> QED
    BY <2>2 DEF TabStop
<1>3. PICK x : x = Column(c, cursor_x)
  OBVIOUS
<1>4. x \in Nat
  BY <1>2, <1>3 DEF Column
<1>5. PICK y : y = cursor_y + Down(c, cursor_x)
  OBVIOUS
<1>6. y \in Nat
  <2>1. Down(c, cursor_x) \in 0..2
    BY DEF Down
  <2> QED
    BY <1>1, <1>5, <2>1
<1>7. /\ cursor_x' = IF x >= cols THEN 0 ELSE x
      /\ cursor_y' = IF y >= rows THEN rows - 1 ELSE y
  BY <1>3, <1>5 DEF put_char
<1> QED
  BY <1>1, <1>4, <1>6, <1>7

LEMMA CursorStays ==
  ASSUME Cursor, UNCHANGED <<cursor_x, cursor_y>>,
         \A k \in DOMAIN stack : stack[k].at = "wrap" => k \in DOMAIN stack' /\ stack'[k].at = "wrap"
  PROVE  Cursor'
  BY DEF Cursor

-----------------------------------------------------------------------------
(* Steps of the running activation *)

LEMMA ActIs ==
  ASSUME NEW b \in Act, NEW at \in {"run", "cli", "test_and_set", "put", "sti", "inb", "eoi",
                                    "iretq", "dump", "draw", "wrap", "halt"},
         NEW text \in Seq(STRING), NEW color \in Colors, NEW id \in Nat
  PROVE  /\ [b EXCEPT !.at = at] \in Act
         /\ [b EXCEPT !.text = text] \in Act
         /\ [b EXCEPT !.at = at, !.text = text, !.color = color] \in Act
         /\ [b EXCEPT !.at = at, !.text = text, !.color = color, !.id = id] \in Act
         /\ [b EXCEPT !.text = text, !.at = at] \in Act
  BY DEF Act

\* It goes from one place to the next, and begins no message.
LEMMA Moved ==
  ASSUME IInv, NEW a \in Act, stack' = [stack EXCEPT ![Len(stack)] = a],
         a.irq = Top.irq, a.id = Top.id, a.at \in Place(a.irq), Top.at # "iretq",
         a.at \notin {"cli", "inb"}, a.at = "test_and_set" => Top.at = "cli",
         a.at = "wrap" => a.text # <<>>,
         a.at = "put" => Top.at = "test_and_set" /\ ~locked,
         a.at \in {"test_and_set", "put"} \/ a.irq = TIMER => ~intr',
         intr' \in BOOLEAN, locked' \in BOOLEAN,
         locked' <=> (locked /\ Top.at # "put") \/ a.at = "put",
         isr' = IF a.at = "iretq" THEN isr \ {Top.irq} ELSE isr,
         port60' = IF Top.at = "inb" THEN NUL ELSE port60,
         UNCHANGED <<irr, boot, default_fg, history>>, dump' \in Seq(DumpCall)
  PROVE  /\ Shape' /\ Story'
         /\ UNCHANGED <<cursor_x, cursor_y>> /\ Top.at # "wrap" => Cursor'
<1> USE DEF IInv
<1> PICK n : n = Len(stack)
  OBVIOUS
<1>1. /\ n \in Nat \ {0} /\ DOMAIN stack = 1..n /\ Top = stack[n] /\ n \in DOMAIN stack
      /\ DOMAIN stack' = 1..n /\ Len(stack') = n
      /\ \A k \in 1..n : stack'[k] = IF k = n THEN a ELSE stack[k]
      /\ stack' \in Seq(Act) /\ stack' # <<>>
  BY Replaced, StackIs DEF Shape, Top
<1>2. Types'
  BY <1>1 DEF Shape, Types, boot, history
<1>3. KeyHeld'
  <2>1. \A k \in 1..n : stack'[k].at = "inb" => stack[k].at = "inb" /\ k # n
    BY <1>1
  <2>2. KEYBOARD \in irr => port60 # NUL /\ Top.at # "inb"
    BY <1>1 DEF Shape, KeyHeld
  <2>3. ASSUME NEW k \in 1..n, stack[k].at = "inb", k # n PROVE FALSE
    BY <1>1, <2>3 DEF Shape, Stacked
  <2> QED
    BY <1>1, <2>1, <2>2, <2>3 DEF KeyHeld
<1>4. Stacked' /\ LockHeld' /\ Served'
  BY ReplacedShape DEF Shape
<1>5. Story'
  <2>1. ASSUME NEW k \in Pending'
        PROVE  /\ k \in Pending /\ stack'[k].id = stack[k].id
               /\ stack[k].at = "put" => stack'[k].at = "put"
               /\ k = Len(stack') => stack[k].at # "put"
    <3>1. k \in 1..n /\ stack'[k].at \in {"cli", "test_and_set", "put"}
      BY <1>1, <2>1 DEF Pending
    <3>2. CASE k # n
      BY <1>1, <3>1, <3>2 DEF Pending
    <3>3. CASE k = n
      BY <1>1, <3>1, <3>3 DEF Pending
    <3> QED
      BY <3>2, <3>3
  <2> QED
    BY <1>2, <2>1, QuietStory DEF history
<1>6. ASSUME UNCHANGED <<cursor_x, cursor_y>>, Top.at # "wrap" PROVE Cursor'
  <2>1. \A k \in DOMAIN stack : stack[k].at = "wrap" => k \in DOMAIN stack' /\ stack'[k].at = "wrap"
    BY <1>1, <1>6
  <2> QED
    BY <1>6, <2>1, CursorStays
<1> QED
  BY <1>2, <1>3, <1>4, <1>5, <1>6 DEF Shape

\* It calls printf.
LEMMA Calls ==
  ASSUME IInv, NEW text \in Seq(STRING), NEW color \in Colors, printf(text, color),
         "cli" \in Place(Top.irq), Top.at \notin {"cli", "test_and_set", "put", "iretq", "wrap"},
         port60' = IF Top.at = "inb" THEN NUL ELSE port60,
         UNCHANGED <<intr, irr, isr, locked, boot, pressed, shown, cursor_x, cursor_y>>,
         dump' \in Seq(DumpCall)
  PROVE  IInv'
<1> USE DEF IInv
<1> PICK n, p : n = Len(stack) /\ p = prints + 1
  OBVIOUS
<1> PICK a : a = [Top EXCEPT !.at = "cli", !.text = text, !.color = color, !.id = p]
  OBVIOUS
<1>1. stack' = [stack EXCEPT ![Len(stack)] = a] /\ prints' = p /\ default_fg' = color
  BY DEF printf, Top
<1>2. p \in Nat
  BY DEF Shape, Types
<1>3. a \in Act /\ a.irq = Top.irq /\ a.at = "cli" /\ a.id = p
  <2>1. Top \in Act
    BY StackIs DEF Shape
  <2>2. a \in Act
    BY <1>2, <2>1, ActIs
  <2> QED
    BY <2>1, <2>2 DEF Act
<1>4. /\ n \in Nat \ {0} /\ DOMAIN stack = 1..n /\ Top = stack[n] /\ n \in DOMAIN stack
      /\ DOMAIN stack' = 1..n /\ Len(stack') = n
      /\ \A k \in 1..n : stack'[k] = IF k = n THEN a ELSE stack[k]
      /\ stack' \in Seq(Act) /\ stack' # <<>>
  BY <1>1, <1>3, Replaced, StackIs DEF Shape, Top
<1>5. intr' \in BOOLEAN /\ locked' \in BOOLEAN /\ fb_vfs_node' \in BOOLEAN
  BY DEF Shape, Types, boot
<1>6. Types'
  BY <1>1, <1>2, <1>4, <1>5 DEF Shape, Types, boot
<1>7. KeyHeld'
  <2>1. \A k \in 1..n : stack'[k].at = "inb" => stack[k].at = "inb" /\ k # n
    BY <1>3, <1>4
  <2>2. KEYBOARD \in irr => port60 # NUL /\ Top.at # "inb"
    BY <1>4 DEF Shape, KeyHeld
  <2>3. ASSUME NEW k \in 1..n, stack[k].at = "inb", k # n PROVE FALSE
    BY <1>4, <2>3 DEF Shape, Stacked
  <2> QED
    BY <1>4, <2>1, <2>2, <2>3 DEF KeyHeld
<1>8. Top.irq # TIMER
  BY Numbered DEF Place, Printf
<1>9. a.at \in Place(a.irq) /\ a.at \notin {"test_and_set", "put", "inb", "iretq", "wrap"}
  BY <1>3
<1>10. Stacked' /\ LockHeld' /\ Served'
  <2>1. locked' <=> (locked /\ Top.at # "put") \/ a.at = "put"
    BY <1>9
  <2> QED
    BY <1>1, <1>3, <1>8, <1>9, <2>1, ReplacedShape DEF Shape
<1>11. Story'
  BY <1>1, <1>3, PrintfStory
<1>12. Cursor'
  <2>1. \A k \in DOMAIN stack : stack[k].at = "wrap" => k \in DOMAIN stack' /\ stack'[k].at = "wrap"
    BY <1>4
  <2> QED
    BY <2>1, CursorStays
<1> QED
  BY <1>6, <1>7, <1>10, <1>11, <1>12 DEF Shape

LEMMA TextIs ==
  \A text \in Seq(STRING) : text # <<>> => Tail(text) \in Seq(STRING) /\ Head(text) \in STRING
<1> TAKE text \in Seq(STRING)
<1> HAVE text # <<>>
<1>1. Tail(text) \in Seq(STRING)
  OBVIOUS
<1>2. Head(text) = text[1] /\ 1 \in 1..Len(text)
  OBVIOUS
<1>3. text[1] \in STRING
  BY <1>2
<1> QED
  BY <1>1, <1>2, <1>3

\* The steps of printf but PutChar.
LEMMA PrintingMoves ==
  ASSUME IInv, Cli \/ TestAndSet \/ Clear \/ Sti, dump' = dump
  PROVE  IInv'
<1> PICK n : n = Len(stack)
  OBVIOUS
<1> PICK where : where = IF Top.at = "cli" THEN "test_and_set"
                         ELSE IF Top.at = "test_and_set" THEN "put"
                         ELSE IF Top.at = "put" THEN "sti" ELSE After(Top)
  OBVIOUS
<1> PICK a : a = [Top EXCEPT !.at = where]
  OBVIOUS
<1>1. /\ n \in DOMAIN stack /\ Top = stack[n] /\ Top \in Act /\ Top.at \in Place(Top.irq)
      /\ dump \in Seq(DumpCall) /\ intr \in BOOLEAN /\ locked \in BOOLEAN
      /\ Top.at = "put" => locked
      /\ Top.at \in {"test_and_set", "put"} => ~intr
  BY StackIs DEF IInv, Shape, Types, Top, Stacked, LockHeld
<1>2. /\ Top.irq \in {NUL, KEYBOARD, FAULT} /\ Top.at \in Printf
      /\ Top.irq = NUL \/ Top.irq = KEYBOARD \/ Top.irq = FAULT
  <2>1. Top.at \in Printf
    BY DEF Cli, TestAndSet, Clear, Sti, Printf
  <2>2. Top.irq \in {NUL, TIMER, KEYBOARD, FAULT}
    BY <1>1 DEF Act
  <2>3. Top.irq # TIMER
    BY <1>1, <2>1, Numbered DEF Place, Printf
  <2> QED
    BY <2>1, <2>2, <2>3
<1>3. where \in Place(Top.irq) /\ Top.at \in Place(Top.irq)
      /\ where \notin {"cli", "inb", "iretq", "wrap"} /\ (where = "test_and_set" => Top.at = "cli")
      /\ (where = "put" => Top.at = "test_and_set")
      /\ where \in {"run", "cli", "test_and_set", "put", "sti", "inb", "eoi",
                    "iretq", "dump", "draw", "wrap", "halt"}
  <2>1. After(Top) = IF Top.irq = NUL THEN "run" ELSE IF Top.irq = KEYBOARD THEN "eoi" ELSE "dump"
    BY <1>2, Numbered DEF After
  <2> QED
    BY <1>1, <1>2, <2>1, Numbered DEF Place, Printf
<1>4. stack' = [stack EXCEPT ![Len(stack)] = a]
  BY DEF Cli, TestAndSet, Clear, Sti, Goto, Top
<1>5. a \in Act /\ a.irq = Top.irq /\ a.id = Top.id /\ a.at = where
  <2> PICK b : b = Top
    OBVIOUS
  <2>0. b \in Act /\ a = [b EXCEPT !.at = where]
    BY <1>1
  <2>1. a \in Act
    BY <1>3, <2>0 DEF Act
  <2> QED
    BY <1>1, <2>1 DEF Act
<1>6. /\ UNCHANGED <<irr, isr, port60, boot, default_fg, history, cursor_x, cursor_y>>
      /\ intr' \in BOOLEAN /\ locked' \in BOOLEAN
  BY <1>1 DEF Cli, TestAndSet, Clear, Sti, display
<1>7. /\ where = "put" => ~locked
      /\ locked' <=> (locked /\ Top.at # "put") \/ where = "put"
      /\ where \in {"test_and_set", "put"} => ~intr'
  BY <1>1, <1>3 DEF Cli, TestAndSet, Clear, Sti
<1>8. /\ Top.irq # TIMER /\ Top.at \notin {"inb", "iretq", "wrap"}
  BY <1>2, Numbered DEF Printf
<1> QED
  BY <1>1, <1>3, <1>4, <1>5, <1>6, <1>7, <1>8, Moved DEF IInv

LEMMA PutMoves == ASSUME IInv, PutChar, dump' = dump PROVE IInv'
<1> PICK n : n = Len(stack)
  OBVIOUS
<1> PICK a : a = [Top EXCEPT !.text = Tail(Top.text)]
  OBVIOUS
<1>1. /\ n \in Nat \ {0} /\ DOMAIN stack = 1..n /\ Top = stack[n] /\ Top \in Act
      /\ Top.at \in Place(Top.irq) /\ n \in DOMAIN stack
  BY StackIs DEF IInv, Shape, Stacked, Top
<1>2. Top.at = "put" /\ Top.text # <<>> /\ Top.text \in Seq(STRING) /\ Top.irq # TIMER
      /\ locked /\ ~intr
  <2>1. locked
    BY <1>1 DEF PutChar, IInv, Shape, LockHeld
  <2>2. ~intr
    BY <1>1 DEF PutChar, IInv, Shape, Stacked
  <2>3. Top.irq # TIMER
    BY <1>1, Numbered DEF PutChar, Place
  <2> QED
    BY <1>1, <2>1, <2>2, <2>3 DEF PutChar, Act
<1>3. Tail(Top.text) \in Seq(STRING) /\ Head(Top.text) \in STRING
  BY <1>2, TextIs
<1>4. stack' = [stack EXCEPT ![Len(stack)] = a]
  BY DEF PutChar, Top
<1>5. a \in Act /\ a.irq = Top.irq /\ a.id = Top.id /\ a.at = "put" /\ a.color = Top.color
  <2> PICK b : b = Top
    OBVIOUS
  <2>1. b \in Act /\ a = [b EXCEPT !.text = Tail(Top.text)]
    BY <1>1
  <2>2. a \in Act
    BY <1>3, <2>1 DEF Act
  <2> QED
    BY <1>1, <1>2, <2>2 DEF Act
<1>6. PICK e : e = [id |-> Top.id, irq |-> Top.irq, ch |-> Head(Top.text),
                    fg |-> ForegroundOf(Top), color |-> Top.color, device |-> fb_vfs_node]
  OBVIOUS
<1>7. e \in Shown
  <2>1. Top.id \in Nat /\ Top.irq \in {NUL, TIMER, KEYBOARD, FAULT} /\ Top.color \in Colors
    BY <1>1 DEF Act
  <2>2. ForegroundOf(Top) \in Colors
    BY <2>1 DEF ForegroundOf, IInv, Shape, Types
  <2>3. fb_vfs_node \in BOOLEAN
    BY DEF IInv, Shape, Types
  <2> QED
    BY <1>3, <1>6, <2>1, <2>2, <2>3 DEF Shown
<1>8. /\ shown' = Append(shown, e) /\ put_char(Head(Top.text), ForegroundOf(Top))
      /\ UNCHANGED <<intr, irr, isr, port60, locked, default_fg, boot, prints, pressed>>
  BY <1>6 DEF PutChar
<1>9. Story'
  <2>1. /\ e.id = Top.id /\ e.fg = ForegroundOf(Top) /\ e.color = Top.color /\ e.device = fb_vfs_node
    BY <1>6
  <2> QED
    BY <1>2, <1>4, <1>5, <1>7, <1>8, <2>1, PutStory DEF IInv, boot
<1>10. /\ stack' \in Seq(Act) /\ stack' # <<>> /\ DOMAIN stack' = 1..n
       /\ \A k \in 1..n : stack'[k] = IF k = n THEN a ELSE stack[k]
  BY <1>1, <1>4, <1>5, Replaced DEF IInv, Shape
<1>11. Types'
  <2>1. shown' \in Seq(Shown)
    BY <1>7, <1>8 DEF IInv, Shape, Types
  <2>2. intr' \in BOOLEAN /\ locked' \in BOOLEAN /\ fb_vfs_node' \in BOOLEAN
    BY <1>8 DEF IInv, Shape, Types, boot
  <2> QED
    BY <1>8, <1>10, <2>1, <2>2 DEF IInv, Shape, Types, boot
<1>12. KeyHeld'
  <2>1. \A k \in 1..n : stack'[k].at = "inb" => stack[k].at = "inb"
    BY <1>2, <1>5, <1>10
  <2> QED
    BY <1>1, <1>8, <1>10, <2>1 DEF IInv, Shape, KeyHeld
<1>13. Stacked' /\ LockHeld' /\ Served'
  <2>1. locked' <=> (locked /\ Top.at # "put") \/ a.at = "put"
    BY <1>2, <1>5, <1>8
  <2>2. Shape /\ a.at \in Place(a.irq) /\ ~intr' /\ isr' = isr /\ a.at # "iretq"
        /\ Top.at # "iretq"
    BY <1>1, <1>2, <1>5, <1>8 DEF IInv
  <2> QED
    BY <1>2, <1>4, <1>5, <2>1, <2>2, ReplacedShape
<1>14. Cursor'
  <2>1. cursor_x' \in 0..(cols - 1) /\ cursor_y' \in 0..(rows - 1)
    BY <1>8, PutCharCursor DEF IInv, Cursor
  <2> QED
    BY <2>1, TerminalConstants DEF Cursor
<1> QED
  BY <1>9, <1>11, <1>12, <1>13, <1>14 DEF IInv, Shape

-----------------------------------------------------------------------------
(* Steps that change no activation, begin one or end one *)

LEMMA Still ==
  ASSUME IInv, stack' = stack, Types', KeyHeld',
         UNCHANGED <<locked, isr, shown, prints, cursor_x, cursor_y, default_fg>>,
         Top.at = "run" \/ (intr' = intr /\ fb_vfs_node' = fb_vfs_node)
  PROVE  IInv'
<1> PICK n : n = Len(stack)
  OBVIOUS
<1>1. n \in DOMAIN stack /\ Top = stack[n] /\ Top.at \in Place(Top.irq)
  BY StackIs DEF IInv, Shape, Top, Stacked
<1>2. Top.at = "run" => Top.irq = NUL
  BY <1>1, Numbered DEF Place, Printf
<1>3. Stacked'
  <2> SUFFICES ASSUME NEW k \in DOMAIN stack,
                      stack[k].at \in {"test_and_set", "put", "inb"} \/ stack[k].irq = TIMER,
                      k = n
               PROVE  ~intr'
    BY DEF IInv, Shape, Stacked
  <2>1. ~intr
    BY DEF IInv, Shape, Stacked
  <2>2. Top.at # "run"
    BY <1>1, <1>2, Numbered
  <2> QED
    BY <2>1, <2>2
<1>4. LockHeld' /\ Served'
  BY DEF IInv, Shape, LockHeld, Served, Serves
<1>5. Story'
  <2>1. ASSUME NEW k \in Pending'
        PROVE  /\ k \in Pending /\ stack'[k].id = stack[k].id
               /\ stack[k].at = "put" => stack'[k].at = "put"
               /\ k = Len(stack') /\ stack[k].at = "put" =>
                    k = Len(stack) /\ ForegroundOf(stack[k])' = ForegroundOf(stack[k])
    BY <1>1 DEF Pending, ForegroundOf
  <2> QED
    BY <2>1, QuietStory DEF IInv
<1>6. Cursor'
  BY DEF IInv, Cursor
<1> QED
  BY <1>3, <1>4, <1>5, <1>6 DEF IInv, Shape

\* An interrupt, or an exception.
LEMMA Enters ==
  ASSUME IInv, NEW a \in Act, stack' = Append(stack, a),
         a.irq # NUL, a.at \in Place(a.irq), a.at \in {"eoi", "inb", "dump"}, intr' = FALSE,
         UNCHANGED <<port60, locked, default_fg, boot, history, cursor_x, cursor_y>>,
         dump' \in Seq(DumpCall),
         \/ /\ intr /\ a.irq \in {TIMER, KEYBOARD} \ isr /\ isr' = isr \cup {a.irq}
            /\ irr' = irr \ {a.irq} /\ a.irq \in irr
         \/ /\ Top.at \in {"run", "put"} /\ a.irq = FAULT /\ isr' = isr /\ irr' = irr
  PROVE  IInv'
<1> PICK n : n = Len(stack)
  OBVIOUS
<1>1. /\ n \in Nat \ {0} /\ DOMAIN stack = 1..n /\ DOMAIN stack' = 1..(n + 1) /\ Len(stack') = n + 1
      /\ stack'[n + 1] = a /\ stack' \in Seq(Act) /\ stack' # <<>> /\ Top = stack[n] /\ n \in 1..n
      /\ \A k \in 1..n : stack'[k] = stack[k]
  BY Pushed, StackIs DEF IInv, Shape, Top
<1>2. Stacked' /\ LockHeld' /\ Served'
  BY PushedShape DEF IInv
<1>3. Types'
  <2>1. isr' \subseteq {TIMER, KEYBOARD} /\ irr' \subseteq {TIMER, KEYBOARD}
    BY DEF IInv, Shape, Types
  <2>2. locked' \in BOOLEAN /\ fb_vfs_node' \in BOOLEAN /\ intr' \in BOOLEAN
    BY DEF IInv, Shape, Types, boot
  <2> QED
    BY <1>1, <2>1, <2>2 DEF IInv, Shape, Types, boot, history
<1>4. KeyHeld'
  <2>1. \A k \in 1..n : stack[k].at # "inb"
    <3>1. ASSUME NEW k \in 1..n, stack[k].at = "inb" PROVE k = n /\ ~intr
      BY <1>1, <3>1 DEF IInv, Shape, Stacked
    <3> QED
      BY <1>1, <3>1
  <2>2. a.at = "inb" => a.irq = KEYBOARD
    BY Numbered DEF Place, Printf
  <2>3. KEYBOARD \in irr' => port60' # NUL
    BY DEF IInv, Shape, KeyHeld
  <2>4. a.at = "inb" => port60' # NUL /\ KEYBOARD \notin irr'
    BY <2>2, Numbered DEF IInv, Shape, KeyHeld
  <2>5. \A k \in 1..(n + 1) : k \in 1..n \/ k = n + 1
    BY <1>1
  <2> QED
    BY <1>1, <2>1, <2>3, <2>4, <2>5 DEF KeyHeld
<1>5. Story'
  <2>1. ASSUME NEW k \in Pending'
        PROVE  k \in Pending /\ stack'[k] = stack[k] /\ k # Len(stack')
    <3>1. k \in 1..(n + 1) /\ k # n + 1
      BY <1>1 DEF Pending
    <3>2. k \in 1..n
      BY <1>1, <3>1
    <3> QED
      BY <1>1, <3>1, <3>2 DEF Pending
  <2> QED
    BY <1>3, <2>1, QuietStory DEF IInv, history
<1>6. Cursor'
  <2>1. \A k \in DOMAIN stack : stack[k].at = "wrap" => k \in DOMAIN stack' /\ stack'[k].at = "wrap"
    BY <1>1
  <2> QED
    BY <2>1, CursorStays DEF IInv
<1> QED
  BY <1>2, <1>3, <1>4, <1>5, <1>6 DEF IInv, Shape

LEMMA IretqMoves == ASSUME IInv, Iretq, dump' = dump PROVE IInv'
<1> PICK n : n = Len(stack)
  OBVIOUS
<1>1. n > 1 /\ Stacked' /\ LockHeld' /\ Served'
  BY PoppedShape DEF IInv, Iretq
<1>2. /\ n \in Nat \ {0} /\ DOMAIN stack = 1..n /\ DOMAIN stack' = 1..(n - 1) /\ Len(stack') = n - 1
      /\ stack' \in Seq(Act) /\ stack' # <<>> /\ Top = stack[n] /\ Top \in Act /\ Top.at = "iretq"
      /\ \A k \in 1..(n - 1) : stack'[k] = stack[k] /\ k \in 1..n /\ k # n
  BY <1>1, Popped, StackIs DEF IInv, Shape, Top, Iretq
<1>3. Types'
  <2>1. intr' \in BOOLEAN /\ locked' \in BOOLEAN /\ fb_vfs_node' \in BOOLEAN
    BY <1>2 DEF Iretq, Act, IInv, Shape, Types, boot
  <2> QED
    BY <1>2, <2>1 DEF Iretq, IInv, Shape, Types, boot, history
<1>4. KeyHeld'
  BY <1>2 DEF IInv, Shape, KeyHeld, Iretq
<1>5. Story'
  <2>1. ASSUME NEW k \in Pending'
        PROVE  k \in Pending /\ stack'[k] = stack[k] /\ (k = Len(stack') => stack[k].at # "put")
    <3>1. k \in 1..(n - 1) /\ stack[k].at \in {"cli", "test_and_set", "put"}
      BY <1>2 DEF Pending
    <3>2. k = n - 1 => stack[k].at # "put"
      <4>0. Top.at \in Place(Top.irq)
        BY <1>2 DEF IInv, Shape, Stacked
      <4>1. n - 1 + 1 = n /\ Top.irq # FAULT
        BY <1>2, <4>0, Numbered DEF Place, Printf
      <4>2. k # n /\ k \in DOMAIN stack
        BY <1>2, <3>1
      <4>3. stack[k].at = "put" => stack[k + 1].irq = FAULT
        BY <1>2, <4>2 DEF IInv, Shape, Stacked
      <4>4. k = n - 1 => stack[k + 1] = Top
        BY <1>2, <4>1
      <4> QED
        BY <4>1, <4>3, <4>4
    <3> QED
      BY <1>2, <3>1, <3>2 DEF Pending
  <2> QED
    BY <1>3, <2>1, QuietStory DEF IInv, Iretq, history
<1>6. Cursor'
  <2>1. \A k \in DOMAIN stack : stack[k].at = "wrap" => k \in DOMAIN stack' /\ stack'[k].at = "wrap"
    BY <1>2
  <2> QED
    BY <2>1, CursorStays DEF IInv, Iretq, display
<1> QED
  BY <1>1, <1>3, <1>4, <1>5, <1>6 DEF IInv, Shape

-----------------------------------------------------------------------------
(* The steps *)

LEMMA TopIs ==
  ASSUME IInv
  PROVE  /\ Top \in Act /\ Top.at \in Place(Top.irq) /\ dump \in Seq(DumpCall)
         /\ Len(stack) \in Nat \ {0} /\ DOMAIN stack = 1..Len(stack)
         /\ Top = stack[Len(stack)] /\ Len(stack) \in DOMAIN stack
         /\ intr \in BOOLEAN /\ locked \in BOOLEAN /\ fb_vfs_node \in BOOLEAN
         /\ Top.irq \in {NUL, TIMER, KEYBOARD, FAULT} /\ Top.id \in Nat
  BY StackIs DEF IInv, Shape, Types, Top, Stacked, Act

\* A character is echoed, a key without one is only read.
LEMMA KeyboardMoves == ASSUME IInv, keyboard_handler_main, dump' = dump PROVE IInv'
<1>1. Top.irq = KEYBOARD /\ Top.at = "inb"
  BY DEF keyboard_handler_main, At
<1>2. port60 \in Scancodes
  BY <1>1, TopIs DEF IInv, Shape, KeyHeld, Types
<1>3. /\ port60' = IF Top.at = "inb" THEN NUL ELSE port60
      /\ UNCHANGED <<intr, irr, isr, locked, boot, pressed, shown, display>>
  BY <1>1 DEF keyboard_handler_main
<1>4. /\ "cli" \in Place(KEYBOARD) /\ "eoi" \in Place(KEYBOARD)
  BY Numbered DEF Place, Printf
<1>5. CASE ascii[port60] = NUL
  <2> PICK b : b = Top
    OBVIOUS
  <2> PICK a : a = [b EXCEPT !.at = "eoi"]
    OBVIOUS
  <2>1. stack' = [stack EXCEPT ![Len(stack)] = a] /\ UNCHANGED <<default_fg, prints>>
    BY <1>5 DEF keyboard_handler_main, Goto, Top
  <2>2. b \in Act /\ b.irq = KEYBOARD
    BY <1>1, TopIs
  <2>3. a \in Act /\ a.irq = b.irq /\ a.id = b.id /\ a.at = "eoi"
    BY <2>2 DEF Act
  <2>4. intr' \in BOOLEAN /\ locked' \in BOOLEAN /\ locked' = locked
    BY <1>3, TopIs
  <2>5. locked' <=> (locked /\ Top.at # "put") \/ a.at = "put"
    BY <1>1, <2>3, <2>4
  <2>6. a.at \in {"test_and_set", "put"} \/ a.irq = TIMER => ~intr'
    BY <2>2, <2>3, Numbered
  <2>7. UNCHANGED <<irr, boot, default_fg, history, cursor_x, cursor_y>> /\ isr' = isr
    BY <1>3, <2>1 DEF history, display
  <2>8. dump' \in Seq(DumpCall)
    BY TopIs
  <2> QED
    BY <1>1, <1>3, <1>4, <2>1, <2>2, <2>3, <2>4, <2>5, <2>6, <2>7, <2>8, Moved DEF IInv
<1>6. CASE ascii[port60] # NUL
  <2>1. ascii[port60] \in STRING
    BY <1>2, <1>6, ConsoleConstants
  <2>2. <<ascii[port60]>> \in Seq(STRING)
    BY <2>1
  <2>3. printf(<<ascii[port60]>>, "white")
    BY <1>6 DEF keyboard_handler_main
  <2>4. /\ UNCHANGED <<intr, irr, isr, locked, boot, pressed, shown, cursor_x, cursor_y>>
        /\ dump' \in Seq(DumpCall)
    BY <1>3, TopIs DEF display
  <2>5. "cli" \in Place(Top.irq) /\ Top.at \notin {"cli", "test_and_set", "put", "iretq", "wrap"}
    BY <1>1, <1>4
  <2>6. port60' = IF Top.at = "inb" THEN NUL ELSE port60
    BY <1>3
  <2>7. "white" \in Colors
    BY ConsoleConstants
  <2> QED
    BY <2>2, <2>3, <2>4, <2>5, <2>6, <2>7, Calls
<1> QED
  BY <1>5, <1>6

\* The EOI ends the interrupt of the handler that sends it.
LEMMA EoiMoves == ASSUME IInv, pic_send_eoi, dump' = dump PROVE IInv'
<1> PICK n : n = Len(stack)
  OBVIOUS
<1> PICK b : b = Top
  OBVIOUS
<1> PICK a : a = [b EXCEPT !.at = "iretq"]
  OBVIOUS
<1>1. b.at = "eoi" /\ b.irq \in {TIMER, KEYBOARD} /\ b \in Act /\ b = stack[n] /\ n \in DOMAIN stack
  <2>1. b.at = "eoi"
    BY DEF pic_send_eoi
  <2> QED
    BY <2>1, TopIs, Numbered DEF Place, Printf
<1>2. stack' = [stack EXCEPT ![Len(stack)] = a]
  BY DEF pic_send_eoi, Goto, Top
<1>3. a \in Act /\ a.irq = b.irq /\ a.id = b.id /\ a.at = "iretq"
  BY <1>1 DEF Act
<1>4. b.irq \in isr /\ isr \subseteq {TIMER, KEYBOARD}
  <2>1. Serves(n, b.irq)
    BY <1>1 DEF Serves
  <2> QED
    BY <1>1, <2>1 DEF IInv, Shape, Served, Types
<1>5. b.irq = KEYBOARD => TIMER \notin isr
  <2> SUFFICES ASSUME b.irq = KEYBOARD, TIMER \in isr PROVE FALSE
    OBVIOUS
  <2>1. PICK k \in DOMAIN stack : Serves(k, TIMER)
    BY DEF IInv, Shape, Served
  <2>2. k = n
    <3>1. stack[k].irq = TIMER
      BY <2>1 DEF Serves
    <3>2. stack[k].at # "put"
      BY <3>1, Numbered DEF IInv, Shape, Stacked, Place
    <3> QED
      BY <3>1, <3>2 DEF IInv, Shape, Stacked
  <2> QED
    BY <1>1, <2>1, <2>2, Numbered DEF Serves
<1>6. Min(isr) = b.irq
  <2>1. \A irq \in isr : b.irq <= irq
    BY <1>1, <1>4, <1>5 DEF TIMER, KEYBOARD
  <2>2. \A x \in isr : (\A y \in isr : x <= y) => x = b.irq
    BY <1>1, <1>4, <2>1 DEF TIMER, KEYBOARD
  <2> QED
    BY <1>4, <2>1, <2>2 DEF Min
<1>7. isr' = IF a.at = "iretq" THEN isr \ {Top.irq} ELSE isr
  BY <1>3, <1>6 DEF pic_send_eoi
<1>8. /\ UNCHANGED <<intr, irr, port60, locked, default_fg, boot, history, cursor_x, cursor_y>>
      /\ intr' \in BOOLEAN /\ locked' \in BOOLEAN /\ dump' \in Seq(DumpCall)
  BY TopIs DEF pic_send_eoi, display
<1>9. locked' <=> (locked /\ Top.at # "put") \/ a.at = "put"
  BY <1>1, <1>3, <1>8
<1>10. a.irq = TIMER => ~intr'
  BY <1>1, <1>3, <1>8 DEF IInv, Shape, Stacked
<1>11. a.at \in Place(a.irq)
  BY <1>1, <1>3, Numbered DEF Place
<1>12. port60' = IF Top.at = "inb" THEN NUL ELSE port60
  BY <1>1, <1>8
<1> QED
  BY <1>1, <1>2, <1>3, <1>7, <1>8, <1>9, <1>10, <1>11, <1>12, Moved DEF IInv

LEMMA CallsAre ==
  ASSUME dump \in Seq(DumpCall), dump # <<>>
  PROVE  Head(dump) \in DumpCall /\ Tail(dump) \in Seq(DumpCall)
<1>1. Head(dump) = dump[1] /\ 1 \in 1..Len(dump)
  OBVIOUS
<1>2. dump[1] \in DumpCall
  BY <1>1
<1> QED
  BY <1>1, <1>2

\* The steps of exception_handler that print no label.
LEMMA DumpMoves ==
  ASSUME IInv, DumpHex \/ HexDraw \/ HexWrap \/ HexEnd \/ CliHlt
  PROVE  IInv'
<1> PICK n : n = Len(stack)
  OBVIOUS
<1> PICK b : b = Top
  OBVIOUS
<1>1. /\ b.irq = FAULT /\ b.at \in {"dump", "draw", "wrap"} /\ b \in Act
      /\ b = stack[n] /\ n \in DOMAIN stack /\ DOMAIN stack = 1..n /\ n \in Nat \ {0}
  BY TopIs DEF DumpHex, HexDraw, HexWrap, HexEnd, CliHlt, NextCall, At
<1>2. PICK a \in Act : /\ stack' = [stack EXCEPT ![Len(stack)] = a]
                       /\ a.irq = b.irq /\ a.id = b.id /\ a.at \in {"dump", "draw", "wrap", "halt"}
                       /\ HexDraw => a.at = "wrap"
                       /\ a.at = "wrap" => a.text # <<>>
  <2>1. CASE HexDraw \/ HexEnd \/ CliHlt
    <3> PICK where : where = IF HexDraw THEN "wrap" ELSE IF HexEnd THEN "dump" ELSE "halt"
      OBVIOUS
    <3> PICK a : a = [b EXCEPT !.at = where]
      OBVIOUS
    <3>1. stack' = [stack EXCEPT ![Len(stack)] = a]
      BY <2>1 DEF HexDraw, HexEnd, CliHlt, Goto, Top, At
    <3>2. a \in Act /\ a.irq = b.irq /\ a.id = b.id /\ a.at = where /\ a.text = b.text
      BY <1>1 DEF Act
    <3>3. HexDraw => b.text # <<>>
      BY DEF HexDraw
    <3>4. /\ where \in {"wrap", "dump", "halt"}
          /\ HexDraw <=> where = "wrap"
      OBVIOUS
    <3>5. /\ HexDraw => a.at = "wrap"
          /\ a.at = "wrap" => a.text # <<>>
      BY <3>2, <3>3, <3>4
    <3> QED
      BY <3>1, <3>2, <3>4, <3>5
  <2>2. CASE HexWrap
    <3> PICK rest : rest = Tail(b.text)
      OBVIOUS
    <3> PICK a : a = [b EXCEPT !.text = rest, !.at = "draw"]
      OBVIOUS
    <3>1. stack' = [stack EXCEPT ![Len(stack)] = a] /\ b.at = "wrap"
      BY <2>2 DEF HexWrap, Top, At
    <3>2. rest \in Seq(STRING)
      <4>1. b.text # <<>> /\ b.text \in Seq(STRING)
        BY <1>1, <3>1 DEF Act, IInv, Shape, Stacked
      <4> QED
        BY <4>1, TextIs
    <3>3. a \in Act /\ a.irq = b.irq /\ a.id = b.id /\ a.at = "draw"
      BY <1>1, <3>2 DEF Act
    <3>4. ~HexDraw
      BY <3>1 DEF HexDraw, At
    <3>5. a.at \in {"dump", "draw", "wrap", "halt"} /\ a.at # "wrap"
      BY <3>3
    <3> QED
      BY <3>1, <3>3, <3>4, <3>5
  <2>3. CASE DumpHex
    <3> PICK call : call = Head(dump)
      OBVIOUS
    <3> PICK a : a = [b EXCEPT !.at = "draw", !.text = call.text, !.color = call.color]
      OBVIOUS
    <3>1. stack' = [stack EXCEPT ![Len(stack)] = a] /\ b.at = "dump" /\ dump # <<>>
      BY <2>3 DEF DumpHex, NextCall, Top, At
    <3>2. call \in DumpCall
      BY <3>1, TopIs, CallsAre
    <3>3. a \in Act /\ a.irq = b.irq /\ a.id = b.id /\ a.at = "draw"
      BY <1>1, <3>2 DEF Act, DumpCall
    <3>4. ~HexDraw
      BY <3>1 DEF HexDraw, At
    <3> QED
      BY <3>1, <3>3, <3>4
  <2> QED
    BY <2>1, <2>2, <2>3
<1>3. /\ UNCHANGED <<isr, irr, port60, locked, default_fg, boot, history>>
      /\ intr' \in BOOLEAN /\ locked' \in BOOLEAN
  BY TopIs DEF DumpHex, HexDraw, HexWrap, HexEnd, CliHlt
<1>4. dump' \in Seq(DumpCall)
  BY TopIs, CallsAre DEF DumpHex, HexDraw, HexWrap, HexEnd, CliHlt, NextCall
<1>5. locked' <=> (locked /\ Top.at # "put") \/ a.at = "put"
  BY <1>1, <1>2, <1>3
<1>6. a.at \in Place(a.irq) /\ a.irq # TIMER
  BY <1>1, <1>2, Numbered DEF Place
<1>7. port60' = IF Top.at = "inb" THEN NUL ELSE port60
  BY <1>1, <1>3
<1>8. Shape' /\ Story' /\ (UNCHANGED <<cursor_x, cursor_y>> /\ Top.at # "wrap" => Cursor')
  BY <1>1, <1>2, <1>3, <1>4, <1>5, <1>6, <1>7, Moved
<1>9. Cursor'
  <2>1. CASE DumpHex \/ HexEnd \/ CliHlt
    BY <1>8, <2>1 DEF DumpHex, HexEnd, CliHlt, NextCall, At, display
  <2>2. CASE HexDraw
    <3>1. cursor_x' \in Nat /\ cursor_y' \in 0..(rows - 1)
      BY <2>2 DEF HexDraw, IInv, Cursor
    <3>2. n \in DOMAIN stack' /\ stack'[n].at = "wrap"
      BY <1>1, <1>2, <2>2, Replaced DEF IInv, Shape
    <3> QED
      BY <3>1, <3>2 DEF Cursor
  <2>3. CASE HexWrap
    <3>1. cols \in Nat \ {0} /\ rows \in Nat \ {0} /\ cursor_x \in Nat /\ cursor_y \in 0..(rows - 1)
      BY TerminalConstants DEF IInv, Cursor
    <3>2. CASE cursor_x >= cols
      BY <2>3, <3>1, <3>2 DEF HexWrap, EndOfLine, Cursor
    <3>3. CASE cursor_x < cols
      BY <2>3, <3>1, <3>3 DEF HexWrap, EndOfLine, Cursor
    <3> QED
      BY <3>1, <3>2, <3>3
  <2> QED
    BY <2>1, <2>2, <2>3
<1> QED
  BY <1>8, <1>9 DEF IInv

LEMMA BootMoves ==
  ASSUME IInv, dump' = dump,
         \/ Unmask \/ EnableInterrupts \/ fb_create_vfs_node
         \/ \E m \in Messages : BootPrintf(m)
  PROVE  IInv'
<1>1. Top.irq = NUL /\ Top.at = "run"
  BY DEF Unmask, EnableInterrupts, fb_create_vfs_node, BootPrintf, At
<1>2. \A k \in DOMAIN stack : stack[k].at # "inb"
  <2> SUFFICES ASSUME NEW k \in DOMAIN stack, stack[k].at = "inb" PROVE FALSE
    OBVIOUS
  <2>1. k = Len(stack)
    BY DEF IInv, Shape, Stacked
  <2> QED
    BY <1>1, <2>1, TopIs
<1>3. CASE Unmask \/ EnableInterrupts \/ fb_create_vfs_node
  <2>1. /\ stack' = stack /\ UNCHANGED <<locked, isr, shown, prints, cursor_x, cursor_y, default_fg>>
        /\ irr' \subseteq irr /\ (pressed' = pressed \/ pressed' = <<>>)
    BY <1>3 DEF Unmask, EnableInterrupts, fb_create_vfs_node, display, history
  <2>0. pressed' \in Seq(Scancodes)
    <3>1. <<>> \in Seq(Scancodes)
      OBVIOUS
    <3>2. pressed \in Seq(Scancodes)
      BY DEF IInv, Shape, Types
    <3> QED
      BY <2>1, <3>1, <3>2
  <2>2. intr' \in BOOLEAN /\ locked' \in BOOLEAN /\ fb_vfs_node' \in BOOLEAN
    BY <1>3, TopIs DEF Unmask, EnableInterrupts, fb_create_vfs_node
  <2>3. /\ mask' \subseteq {TIMER, KEYBOARD} /\ port60' \in Scancodes \cup {NUL}
        /\ booted' \in {"early", "unmasked", "enabled", "registered"}
    BY <1>3 DEF Unmask, EnableInterrupts, fb_create_vfs_node, IInv, Shape, Types
  <2>4. Types'
    BY <2>0, <2>1, <2>2, <2>3 DEF IInv, Shape, Types
  <2>5. KEYBOARD \in irr' => port60' # NUL
    BY <1>3 DEF Unmask, EnableInterrupts, fb_create_vfs_node, IInv, Shape, KeyHeld
  <2>6. KeyHeld'
    BY <1>2, <2>1, <2>5 DEF KeyHeld
  <2> QED
    BY <1>1, <2>1, <2>4, <2>6, Still
<1>4. ASSUME NEW m \in Messages, BootPrintf(m) PROVE IInv'
  <2>1. m.text \in Seq(STRING) /\ m.color \in Colors
    BY ConsoleConstants
  <2>2. "cli" \in Place(Top.irq) /\ Top.at \notin {"cli", "test_and_set", "put", "iretq", "wrap"}
    BY <1>1 DEF Place, Printf
  <2>3. port60' = IF Top.at = "inb" THEN NUL ELSE port60
    BY <1>1, <1>4 DEF BootPrintf
  <2>4. /\ printf(m.text, m.color) /\ dump' \in Seq(DumpCall)
        /\ UNCHANGED <<intr, irr, isr, locked, boot, pressed, shown, cursor_x, cursor_y>>
    BY <1>4, TopIs DEF BootPrintf, display
  <2> QED
    BY <2>1, <2>2, <2>3, <2>4, Calls
<1> QED
  BY <1>3, <1>4

\* The hardware: a tick of the timer, a key, an interrupt.
LEMMA HardwareMoves ==
  ASSUME IInv, dump' = dump,
         \/ Tick \/ \E code \in Scancodes : KeyPress(code)
         \/ \E irq \in {TIMER, KEYBOARD} : Deliver(irq)
  PROVE  IInv'
<1>1. CASE Tick \/ \E code \in Scancodes : KeyPress(code)
  <2>1. /\ stack' = stack /\ intr' = intr /\ fb_vfs_node' = fb_vfs_node
        /\ UNCHANGED <<locked, isr, mask, booted, shown, prints, cursor_x, cursor_y, default_fg>>
    BY <1>1 DEF Tick, KeyPress, display, history, boot
  <2>2. intr' \in BOOLEAN /\ locked' \in BOOLEAN /\ fb_vfs_node' \in BOOLEAN
    BY <2>1, TopIs
  <2>3. irr' \subseteq {TIMER, KEYBOARD} /\ port60' \in Scancodes \cup {NUL} /\ pressed' \in Seq(Scancodes)
    <3>1. \A code \in Scancodes : Append(pressed, code) \in Seq(Scancodes)
      BY DEF IInv, Shape, Types
    <3>2. irr \subseteq {TIMER, KEYBOARD} /\ port60 \in Scancodes \cup {NUL} /\ pressed \in Seq(Scancodes)
      BY DEF IInv, Shape, Types
    <3> QED
      BY <1>1, <3>1, <3>2 DEF Tick, KeyPress, history
  <2>4. Types'
    BY <2>1, <2>2, <2>3 DEF IInv, Shape, Types
  <2>5. KeyHeld'
    <3>1. CASE Tick
      <4>1. port60' = port60 /\ (KEYBOARD \in irr' <=> KEYBOARD \in irr)
        BY <3>1, Numbered DEF Tick
      <4> QED
        BY <2>1, <4>1 DEF IInv, Shape, KeyHeld
    <3>2. ASSUME NEW code \in Scancodes, KeyPress(code) PROVE KeyHeld'
      <4>1. port60 = NUL /\ port60' # NUL
        BY <3>2, ConsoleConstants DEF KeyPress
      <4> QED
        BY <2>1, <4>1 DEF IInv, Shape, KeyHeld
    <3> QED
      BY <1>1, <3>1, <3>2
  <2> QED
    BY <2>1, <2>4, <2>5, Still
<1>2. ASSUME NEW irq \in {TIMER, KEYBOARD}, Deliver(irq) PROVE IInv'
  <2> PICK at : at = IF irq = TIMER THEN "eoi" ELSE "inb"
    OBVIOUS
  <2> PICK a : a = [irq |-> irq, at |-> at, text |-> <<>>, color |-> "none", id |-> 0, flags |-> TRUE]
    OBVIOUS
  <2>1. stack' = Append(stack, a)
    BY <1>2 DEF Deliver, Activation
  <2>2. "none" \in Colors /\ <<>> \in Seq(STRING) /\ 0 \in Nat /\ TRUE \in BOOLEAN
    BY ConsoleConstants
  <2>3. a \in Act
    BY <2>2 DEF Act
  <2>4. a.irq # NUL /\ a.at \in Place(a.irq) /\ a.at \in {"eoi", "inb", "dump"}
    BY Numbered DEF Place
  <2>5. irq \notin isr /\ irq \in irr
    <3>1. \A s \in isr : irq < s
      BY <1>2 DEF Deliver
    <3>2. irq \notin isr
      BY <3>1 DEF TIMER, KEYBOARD
    <3> QED
      BY <1>2, <3>2 DEF Deliver
  <2>6. /\ intr /\ intr' = FALSE /\ isr' = isr \cup {irq} /\ irr' = irr \ {irq}
        /\ UNCHANGED <<port60, locked, default_fg, boot, history, cursor_x, cursor_y>>
        /\ dump' \in Seq(DumpCall) /\ a.irq = irq
    BY <1>2, TopIs DEF Deliver, display
  <2> QED
    BY <2>1, <2>3, <2>4, <2>5, <2>6, Enters
<1> QED
  BY <1>1, <1>2

LEMMA ExceptionEnters == ASSUME IInv, NEW d \in Dumps, Exception(d) PROVE IInv'
<1> PICK a : a = [irq |-> FAULT, at |-> "dump", text |-> <<>>, color |-> "none", id |-> 0, flags |-> intr]
  OBVIOUS
<1>1. stack' = Append(stack, a)
  BY DEF Exception, Activation
<1>2. "none" \in Colors /\ <<>> \in Seq(STRING) /\ 0 \in Nat /\ intr \in BOOLEAN
  BY ConsoleConstants, TopIs
<1>3. a \in Act
  BY <1>2 DEF Act
<1>4. a.irq # NUL /\ a.at \in Place(a.irq) /\ a.at \in {"eoi", "inb", "dump"} /\ a.irq = FAULT
  BY Numbered DEF Place
<1>5. /\ Top.at \in {"run", "put"} /\ intr' = FALSE /\ isr' = isr /\ irr' = irr
      /\ UNCHANGED <<port60, locked, default_fg, boot, history, cursor_x, cursor_y>>
      /\ dump' \in Seq(DumpCall)
  BY ExceptionsConstants DEF Exception, display
<1> QED
  BY <1>1, <1>3, <1>4, <1>5, Enters

LEMMA LabelMoves == ASSUME IInv, DumpPrintf PROVE IInv'
<1>1. Top.irq = FAULT /\ Top.at = "dump" /\ dump # <<>>
  BY DEF DumpPrintf, NextCall, At
<1>2. Head(dump) \in DumpCall /\ Tail(dump) \in Seq(DumpCall)
  BY <1>1, TopIs, CallsAre
<1>3. Head(dump).text \in Seq(STRING) /\ Head(dump).color \in Colors
  BY <1>2 DEF DumpCall
<1>4. "cli" \in Place(Top.irq) /\ Top.at \notin {"cli", "test_and_set", "put", "iretq", "wrap"}
  BY <1>1, Numbered DEF Place, Printf
<1>5. port60' = IF Top.at = "inb" THEN NUL ELSE port60
  BY <1>1 DEF DumpPrintf
<1>6. /\ printf(Head(dump).text, Head(dump).color) /\ dump' \in Seq(DumpCall)
      /\ UNCHANGED <<intr, irr, isr, locked, boot, pressed, shown, cursor_x, cursor_y>>
  BY <1>2 DEF DumpPrintf, display
<1> QED
  BY <1>3, <1>4, <1>5, <1>6, Calls

LEMMA InitIInv == ExceptionInit => IInv
<1> SUFFICES ASSUME ExceptionInit PROVE IInv
  OBVIOUS
<1> PICK a : a = [irq |-> NUL, at |-> "run", text |-> <<>>, color |-> "none", id |-> 0, flags |-> FALSE]
  OBVIOUS
<1>1. /\ stack = <<a>> /\ intr = FALSE /\ irr = {} /\ isr = {} /\ port60 = NUL /\ locked = FALSE
      /\ shown = <<>> /\ prints = 0 /\ dump = <<>> /\ mask = {TIMER, KEYBOARD}
      /\ default_fg = "white" /\ fb_vfs_node = FALSE /\ booted = "early" /\ pressed = <<>>
      /\ cursor_x = 0 /\ cursor_y = 0
  BY DEF ExceptionInit, Init, Activation, DisplayInit
<1>2. a \in Act
  <2>1. "none" \in Colors /\ <<>> \in Seq(STRING) /\ 0 \in Nat /\ FALSE \in BOOLEAN
    BY ConsoleConstants
  <2> QED
    BY <2>1 DEF Act
<1>3. stack \in Seq(Act) /\ Len(stack) = 1 /\ stack # <<>> /\ DOMAIN stack = {1} /\ stack[1] = a
  BY <1>1, <1>2
<1>4. Types
  <2>1. intr \in BOOLEAN /\ locked \in BOOLEAN /\ fb_vfs_node \in BOOLEAN
    BY <1>1
  <2>2. pressed \in Seq(Scancodes) /\ shown \in Seq(Shown) /\ dump \in Seq(DumpCall)
    BY <1>1
  <2> QED
    BY <1>1, <1>3, <2>1, <2>2, ConsoleConstants DEF Types
<1>5. KeyHeld
  BY <1>1, <1>3 DEF KeyHeld
<1>6. Stacked
  BY <1>1, <1>3, Numbered DEF Stacked, Place
<1>7. LockHeld
  BY <1>1, <1>3 DEF LockHeld
<1>8. Served
  BY <1>1, <1>3, Numbered DEF Served, Serves
<1>9. Story
  <2>1. DOMAIN shown = {} /\ Pending = {}
    BY <1>1, <1>3 DEF Pending
  <2> QED
    BY <2>1 DEF Story, Numbers, Begun, MessagesWhole
<1>10. Cursor
  BY <1>1, TerminalConstants DEF Cursor
<1> QED
  BY <1>4, <1>5, <1>6, <1>7, <1>8, <1>9, <1>10 DEF IInv, Shape

LEMMA StepIInv == IInv /\ [ExceptionNext]_exception_vars => IInv'
<1> SUFFICES ASSUME IInv, [ExceptionNext]_exception_vars PROVE IInv'
  OBVIOUS
<1>1. CASE UNCHANGED exception_vars
  <2>1. /\ stack' = stack /\ intr' = intr /\ fb_vfs_node' = fb_vfs_node
        /\ UNCHANGED <<locked, isr, shown, prints, cursor_x, cursor_y, default_fg,
                       irr, mask, port60, booted, pressed, dump>>
    BY <1>1 DEF exception_vars, vars, boot, history, display
  <2>2. intr' \in BOOLEAN /\ locked' \in BOOLEAN /\ fb_vfs_node' \in BOOLEAN
    BY <2>1, TopIs
  <2>3. Types'
    BY <2>1, <2>2 DEF IInv, Shape, Types
  <2>4. KeyHeld'
    BY <2>1 DEF IInv, Shape, KeyHeld
  <2> QED
    BY <2>1, <2>3, <2>4, Still
<1>2. CASE Next /\ UNCHANGED <<dump, faults>>
  BY <1>2, BootMoves, PrintingMoves, PutMoves, KeyboardMoves, EoiMoves, IretqMoves, HardwareMoves
     DEF Next, BootStep, KeyboardStep, TimerStep, Printing
<1>3. ASSUME NEW d \in Dumps, Exception(d) PROVE IInv'
  BY <1>3, ExceptionEnters
<1>4. CASE DumpStep
  BY <1>4, LabelMoves, DumpMoves, PrintingMoves, PutMoves DEF DumpStep, Printing
<1>5. CASE StandStill
  BY <1>1, <1>5 DEF StandStill
<1> QED
  BY <1>1, <1>2, <1>3, <1>4, <1>5 DEF ExceptionNext

LEMMA IInvInvariance == ExceptionSpec => []IInv
<1> QED
  BY InitIInv, StepIInv, PTL DEF ExceptionSpec

-----------------------------------------------------------------------------
(* Sequences of sequences, one after the other *)

Less == {p \in Nat \X Nat : p[1] < p[2]}

LEMMA Induction ==
  ASSUME NEW G, 0 \in G, \A n \in Nat : n \in G => n + 1 \in G
  PROVE  \A n \in Nat : n \in G
<1> SUFFICES ASSUME Nat \ G # {} PROVE FALSE
  OBVIOUS
<1>1. IsWellFoundedOn(Less, Nat)
  BY NatLessThanWellFounded DEF OpToRel, Less
<1>2. PICK n \in Nat \ G : \A m \in Nat \ G : <<m, n>> \notin Less
  BY <1>1, WFMin
<1>3. n # 0 /\ n - 1 \in Nat /\ n - 1 < n /\ (n - 1) + 1 = n
  BY <1>2
<1>4. n - 1 \in G
  BY <1>2, <1>3 DEF Less
<1> QED
  BY <1>2, <1>3, <1>4

\* h is the function that FlattenSeq chooses for the first n of ss.
Flat(ss, h, n) == h = [k \in 1..n |-> IF k = 1 THEN ss[k] ELSE h[k - 1] \o ss[k]]

LEMMA FlatAt ==
  ASSUME NEW ss, NEW h, NEW n \in Nat, Flat(ss, h, n), NEW k \in 1..n
  PROVE  /\ k = 1 => h[k] = ss[k]
         /\ k # 1 => h[k] = h[k - 1] \o ss[k]
<1> DEFINE body(m) == IF m = 1 THEN ss[m] ELSE h[m - 1] \o ss[m]
<1>1. h = [m \in 1..n |-> body(m)]
  BY DEF Flat
<1> HIDE DEF body
<1>2. h[k] = body(k)
  BY <1>1
<1> QED
  BY <1>2 DEF body

LEMMA FlatExists == ASSUME NEW ss, NEW n \in Nat PROVE \E h : Flat(ss, h, n)
<1> DEFINE G == {m \in Nat : \E h : Flat(ss, h, m)}
<1>1. 0 \in G
  <2>1. Flat(ss, [k \in 1..0 |-> 0], 0)
    BY DEF Flat
  <2> QED
    BY <2>1
<1>2. ASSUME NEW m \in Nat, m \in G PROVE m + 1 \in G
  <2>1. PICK h : Flat(ss, h, m)
    BY <1>2
  <2> DEFINE Piece(f, k) == IF k = 1 THEN ss[k] ELSE f[k - 1] \o ss[k]
             g == [k \in 1..(m + 1) |-> IF k = m + 1 THEN Piece(h, k) ELSE h[k]]
  <2>2. ASSUME NEW k \in 1..m PROVE g[k] = h[k] /\ h[k] = Piece(h, k)
    <3>1. k \in 1..(m + 1) /\ k # m + 1
      OBVIOUS
    <3>2. h[k] = Piece(h, k)
      BY <2>1, FlatAt
    <3> HIDE DEF Piece
    <3> QED
      BY <3>1, <3>2
  <2>3. \A k \in 1..(m + 1) : k # 1 => k - 1 \in 1..m
    OBVIOUS
  <2>4. \A k \in 1..(m + 1) : Piece(g, k) = Piece(h, k)
    BY <2>2, <2>3
  <2>5. \A k \in 1..(m + 1) : k = m + 1 \/ k \in 1..m
    OBVIOUS
  <2>6. \A k \in 1..(m + 1) : g[k] = Piece(g, k)
    <3> HIDE DEF Piece
    <3> QED
      BY <2>2, <2>4, <2>5
  <2>7. Flat(ss, g, m + 1)
    <3>1. g = [k \in 1..(m + 1) |-> g[k]]
      OBVIOUS
    <3> HIDE DEF g
    <3> QED
      BY <2>6, <3>1 DEF Flat
  <2> HIDE DEF g
  <2> QED
    BY <2>7
<1> HIDE DEF G
<1>3. n \in G
  BY <1>1, <1>2, Induction
<1> QED
  BY <1>3 DEF G

LEMMA FlatIs ==
  ASSUME NEW ss, Len(ss) \in Nat \ {0}
  PROVE  \E h : Flat(ss, h, Len(ss)) /\ FlattenSeq(ss) = h[Len(ss)]
<1>1. FlattenSeq(ss) = (CHOOSE h : Flat(ss, h, Len(ss)))[Len(ss)]
  BY DEF FlattenSeq, Flat
<1>2. Flat(ss, CHOOSE h : Flat(ss, h, Len(ss)), Len(ss))
  BY FlatExists
<1> QED
  BY <1>1, <1>2

LEMMA Flattened ==
  ASSUME NEW T, NEW ss \in Seq(Seq(T)), NEW s \in Seq(T)
  PROVE  FlattenSeq(ss) \in Seq(T) /\ FlattenSeq(Append(ss, s)) = FlattenSeq(ss) \o s
<1> PICK n : n = Len(ss)
  OBVIOUS
<1> PICK qs : qs = Append(ss, s)
  OBVIOUS
<1>1. /\ n \in Nat /\ Len(qs) = n + 1 /\ qs[n + 1] = s
      /\ \A k \in 1..n : qs[k] = ss[k] /\ ss[k] \in Seq(T)
  OBVIOUS
<1>2. PICK g : Flat(qs, g, n + 1) /\ FlattenSeq(qs) = g[n + 1]
  <2>1. Len(qs) \in Nat \ {0}
    BY <1>1
  <2>2. \E g : Flat(qs, g, Len(qs)) /\ FlattenSeq(qs) = g[Len(qs)]
    BY ONLY <2>1, FlatIs
  <2> QED
    BY <1>1, <2>2
<1>3. CASE n = 0
  <2>0. ss = <<>> /\ Len(ss) = 0
    <3> PICK U : U = Seq(T)
      OBVIOUS
    <3>1. ss \in Seq(U)
      OBVIOUS
    <3> QED
      BY ONLY <1>3, <3>1, n = Len(ss)
  <2>1. ss = <<>> /\ FlattenSeq(ss) = <<>>
    BY ONLY <2>0 DEF FlattenSeq
  <2>2. g[1] = s
    <3>1. 1 \in 1..(n + 1) /\ n + 1 \in Nat /\ n + 1 = 1
      BY <1>3
    <3>2. g[1] = qs[1]
      BY ONLY <1>2, <3>1, FlatAt
    <3> QED
      BY <1>1, <1>3, <3>2
  <2>3. <<>> \o s = s
    OBVIOUS
  <2>4. FlattenSeq(qs) = s /\ <<>> \in Seq(T)
    BY <1>2, <1>3, <2>2
  <2> QED
    BY <2>1, <2>3, <2>4
<1>4. CASE n # 0
  <2>1. PICK h : Flat(ss, h, n) /\ FlattenSeq(ss) = h[n]
    BY <1>1, <1>4, FlatIs
  <2>2. ASSUME NEW k \in 1..n
        PROVE  /\ k = 1 => h[k] = ss[k] /\ g[k] = qs[k]
               /\ k # 1 => h[k] = h[k - 1] \o ss[k] /\ g[k] = g[k - 1] \o qs[k]
    <3>1. n + 1 \in Nat /\ k \in 1..(n + 1) /\ n \in Nat
      BY <1>1
    <3>2. /\ k = 1 => h[k] = ss[k]
          /\ k # 1 => h[k] = h[k - 1] \o ss[k]
      BY ONLY <2>1, <2>2, <3>1, FlatAt
    <3>3. /\ k = 1 => g[k] = qs[k]
          /\ k # 1 => g[k] = g[k - 1] \o qs[k]
      BY ONLY <1>2, <3>1, FlatAt
    <3> QED
      BY <3>2, <3>3
  <2> DEFINE G == {k \in Nat : k \in 1..n => h[k] \in Seq(T) /\ g[k] = h[k]}
  <2>3. 0 \in G
    OBVIOUS
  <2>4. ASSUME NEW k \in Nat, k \in G PROVE k + 1 \in G
    <3> SUFFICES ASSUME k + 1 \in 1..n PROVE h[k + 1] \in Seq(T) /\ g[k + 1] = h[k + 1]
      OBVIOUS
    <3>1. CASE k = 0
      <4>1. k + 1 = 1 /\ 1 \in 1..n
        BY <3>1
      <4>2. h[1] = ss[1] /\ g[1] = qs[1]
        BY <2>2, <4>1
      <4>3. qs[1] = ss[1] /\ ss[1] \in Seq(T)
        BY <1>1, <4>1
      <4> QED
        BY <4>1, <4>2, <4>3
    <3>2. CASE k # 0
      <4>1. k \in 1..n /\ k + 1 # 1 /\ (k + 1) - 1 = k
        BY <3>2
      <4>2. h[k] \in Seq(T) /\ g[k] = h[k]
        BY <2>4, <4>1
      <4>3. /\ h[k + 1] = h[k] \o ss[k + 1] /\ g[k + 1] = g[k] \o qs[k + 1]
            /\ qs[k + 1] = ss[k + 1] /\ ss[k + 1] \in Seq(T)
        BY <1>1, <2>2, <4>1
      <4>4. \A p, q \in Seq(T) : p \o q \in Seq(T)
        OBVIOUS
      <4> QED
        BY <4>2, <4>3, <4>4
    <3> QED
      BY <3>1, <3>2
  <2> HIDE DEF G
  <2>5. n \in G
    BY <1>1, <2>3, <2>4, Induction
  <2>6. h[n] \in Seq(T) /\ g[n] = h[n]
    BY <1>1, <1>4, <2>5 DEF G
  <2>7. g[n + 1] = g[n] \o s
    <3>1. n + 1 \in Nat /\ n + 1 \in 1..(n + 1) /\ n + 1 # 1 /\ (n + 1) - 1 = n
      BY <1>1, <1>4
    <3>2. g[n + 1] = g[(n + 1) - 1] \o qs[n + 1]
      BY ONLY <1>2, <3>1, FlatAt
    <3> QED
      BY <1>1, <3>1, <3>2
  <2> QED
    BY <1>2, <2>1, <2>6, <2>7
<1> QED
  BY <1>1, <1>3, <1>4

-----------------------------------------------------------------------------
(* What has been typed *)

\* The key that the keyboard still holds.
Waiting == IF port60 = NUL THEN <<>> ELSE Character(port60)

\* What has been typed and not been echoed is in the one handler that has
\* not sent its EOI, or in the keyboard.
Keys ==
  /\ \A k \in DOMAIN stack :
       stack[k].irq = KEYBOARD /\ k \notin Pending => stack[k].text = <<>>
  /\ \A k \in DOMAIN stack :
       Serves(k, KEYBOARD) => Typing = Echo \o (stack[k].text \o Waiting)
  /\ (\A k \in DOMAIN stack : ~Serves(k, KEYBOARD)) => Typing = Echo \o Waiting
  /\ booted = "early" => /\ KEYBOARD \in mask /\ Echo = <<>>
                         /\ \A k \in DOMAIN stack : stack[k].irq # KEYBOARD

\* Identities of sequences
LEMMA Joined ==
  /\ \A p \in Seq(STRING) : p \o <<>> = p /\ <<>> \o p = p
  /\ \A p, q \in Seq(STRING) : p \o q \in Seq(STRING)
<1>1. \A p \in Seq(STRING) : p \o <<>> = p /\ <<>> \o p = p
  OBVIOUS
<1>2. \A p, q \in Seq(STRING) : p \o q \in Seq(STRING)
  OBVIOUS
<1> QED
  BY <1>1, <1>2

LEMMA Regrouped == \A p, q, t \in Seq(STRING) : (p \o q) \o t = p \o (q \o t)
  OBVIOUS

LEMMA HeadJoined ==
  ASSUME NEW p \in Seq(STRING), NEW q \in Seq(STRING), NEW t \in Seq(STRING), t # <<>>
  PROVE  (p \o <<Head(t)>>) \o (Tail(t) \o q) = p \o (t \o q)
<1>1. Head(t) \in STRING /\ Tail(t) \in Seq(STRING)
  BY TextIs
<1>2. <<Head(t)>> \in Seq(STRING) /\ <<Head(t)>> \o Tail(t) = t
  BY <1>1
<1>3. Tail(t) \o q \in Seq(STRING)
  BY <1>1, Joined
<1>4. (p \o <<Head(t)>>) \o (Tail(t) \o q) = p \o (<<Head(t)>> \o (Tail(t) \o q))
  BY <1>2, <1>3, Regrouped
<1>5. <<Head(t)>> \o (Tail(t) \o q) = (<<Head(t)>> \o Tail(t)) \o q
  BY <1>1, <1>2, Regrouped
<1> QED
  BY <1>2, <1>4, <1>5

LEMMA CharacterIs == ASSUME NEW code \in Scancodes PROVE Character(code) \in Seq(STRING)
<1>1. ascii[code] \in STRING \cup {NUL}
  BY ConsoleConstants
<1>2. ascii[code] # NUL => <<ascii[code]>> \in Seq(STRING)
  BY <1>1
<1>3. <<>> \in Seq(STRING)
  OBVIOUS
<1> QED
  BY <1>2, <1>3 DEF Character

KeysTyped == [n \in DOMAIN pressed |-> Character(pressed[n])]
EchoOf(s) == IF s.irq = KEYBOARD THEN <<s.ch>> ELSE <<>>
Echoed == [n \in DOMAIN shown |-> EchoOf(shown[n])]

LEMMA TypedIs ==
  ASSUME Types
  PROVE  /\ KeysTyped \in Seq(Seq(STRING)) /\ Typing = FlattenSeq(KeysTyped)
         /\ Echoed \in Seq(Seq(STRING)) /\ Echo = FlattenSeq(Echoed)
         /\ Typing \in Seq(STRING) /\ Echo \in Seq(STRING) /\ Waiting \in Seq(STRING)
<1>1. KeysTyped \in Seq(Seq(STRING))
  <2>1. Len(pressed) \in Nat /\ DOMAIN pressed = 1..Len(pressed)
        /\ \A n \in DOMAIN pressed : pressed[n] \in Scancodes
    BY DEF Types
  <2>2. \A n \in DOMAIN pressed : Character(pressed[n]) \in Seq(STRING)
    BY <2>1, CharacterIs
  <2> QED
    BY <2>1, <2>2 DEF KeysTyped
<1>2. Echoed \in Seq(Seq(STRING))
  <2>1. \A n \in DOMAIN shown : shown[n].ch \in STRING
    BY ShownIs DEF Shown
  <2>2. ASSUME NEW n \in DOMAIN shown PROVE EchoOf(shown[n]) \in Seq(STRING)
    <3>1. shown[n].ch \in STRING
      BY <2>1
    <3>2. <<shown[n].ch>> \in Seq(STRING) /\ <<>> \in Seq(STRING)
      BY <3>1
    <3> QED
      BY <3>2 DEF EchoOf
  <2>3. \A n \in DOMAIN shown : EchoOf(shown[n]) \in Seq(STRING)
    BY <2>2
  <2> QED
    BY <2>3, ShownIs DEF Echoed
<1>3. Typing = FlattenSeq(KeysTyped) /\ Echo = FlattenSeq(Echoed)
  BY DEF Typing, Echo, KeysTyped, Echoed, EchoOf
<1>4. <<>> \in Seq(STRING)
  OBVIOUS
<1>5. Waiting \in Seq(STRING)
  BY <1>4, CharacterIs DEF Waiting, Types
<1> QED
  BY <1>1, <1>2, <1>3, <1>4, <1>5, Flattened

LEMMA OneTyped ==
  ASSUME Types, NEW code \in Scancodes, pressed' = Append(pressed, code)
  PROVE  Typing' = Typing \o Character(code)
<1>1. /\ Len(pressed) \in Nat /\ DOMAIN pressed = 1..Len(pressed)
      /\ DOMAIN pressed' = 1..(Len(pressed) + 1)
      /\ \A n \in 1..Len(pressed) : pressed'[n] = pressed[n]
      /\ pressed'[Len(pressed) + 1] = code
  BY DEF Types
<1>2. KeysTyped' = Append(KeysTyped, Character(code))
  BY <1>1 DEF KeysTyped
<1>3. Typing' = FlattenSeq(KeysTyped')
  BY DEF Typing, KeysTyped
<1> QED
  BY <1>2, <1>3, TypedIs, CharacterIs, Flattened

LEMMA OneEchoed ==
  ASSUME Types, NEW e \in Shown, shown' = Append(shown, e)
  PROVE  Echo' = Echo \o EchoOf(e)
<1>1. /\ Len(shown) \in Nat /\ DOMAIN shown = 1..Len(shown)
      /\ DOMAIN shown' = 1..(Len(shown) + 1)
      /\ \A n \in 1..Len(shown) : shown'[n] = shown[n]
      /\ shown'[Len(shown) + 1] = e
  BY DEF Types
<1>2. Echoed' = Append(Echoed, EchoOf(e))
  BY <1>1 DEF Echoed
<1>3. Echo' = FlattenSeq(Echoed')
  BY DEF Echo, Echoed, EchoOf
<1>4. EchoOf(e) \in Seq(STRING)
  <2>1. e.ch \in STRING
    BY DEF Shown
  <2>2. <<e.ch>> \in Seq(STRING) /\ <<>> \in Seq(STRING)
    BY <2>1
  <2> QED
    BY <2>2 DEF EchoOf
<1> QED
  BY <1>2, <1>3, <1>4, TypedIs, Flattened

\* One keyboard handler at most is in service, and its text is left.
LEMMA OneServes ==
  ASSUME IInv, Keys, NEW n \in DOMAIN stack, Serves(n, KEYBOARD)
  PROVE  \A k \in DOMAIN stack : Serves(k, KEYBOARD) => k = n
  BY DEF IInv, Shape, Served

\* The running activation takes a step.
LEMMA KeysStep ==
  ASSUME IInv, Types', Keys, NEW a \in Act, stack' = [stack EXCEPT ![Len(stack)] = a],
         a.irq = Top.irq, UNCHANGED <<booted, mask>>, Top.at # "iretq",
         Top.irq # KEYBOARD => Echo' = Echo /\ Typing' = Typing /\ Waiting' = Waiting,
         Top.irq = KEYBOARD =>
           /\ a.at \in {"cli", "test_and_set", "put"} \/ a.text = <<>>
           /\ Typing = Echo \o (Top.text \o Waiting) => Typing' = Echo' \o (a.text \o Waiting')
           /\ a.at = "iretq" => Waiting' = Waiting
  PROVE  Keys'
<1> PICK n : n = Len(stack)
  OBVIOUS
<1>1. /\ n \in DOMAIN stack /\ DOMAIN stack' = DOMAIN stack /\ Top = stack[n] /\ stack'[n] = a
      /\ \A k \in DOMAIN stack : k # n => stack'[k] = stack[k]
  BY Replaced, StackIs DEF IInv, Shape, Top
<1>2. \A k \in DOMAIN stack' :
        stack'[k].irq = KEYBOARD /\ k \notin Pending' => stack'[k].text = <<>>
  <2> SUFFICES ASSUME NEW k \in DOMAIN stack, stack'[k].irq = KEYBOARD,
                      stack'[k].at \notin {"cli", "test_and_set", "put"}
               PROVE  stack'[k].text = <<>>
    BY <1>1 DEF Pending
  <2>1. CASE k = n
    BY <1>1, <2>1
  <2>2. CASE k # n
    BY <1>1, <2>2 DEF Keys, Pending
  <2> QED
    BY <2>1, <2>2
<1>3. CASE Top.irq # KEYBOARD
  <2>1. \A k \in DOMAIN stack : /\ Serves(k, KEYBOARD)' <=> Serves(k, KEYBOARD)
                                /\ Serves(k, KEYBOARD) => stack'[k] = stack[k]
                                /\ stack'[k].irq = stack[k].irq
    BY <1>1, <1>3 DEF Serves
  <2> QED
    BY <1>1, <1>2, <1>3, <2>1 DEF Keys
<1>4. CASE Top.irq = KEYBOARD
  <2>1. Serves(n, KEYBOARD)
    BY <1>1, <1>4 DEF Serves
  <2>2. \A k \in DOMAIN stack : k # n => ~Serves(k, KEYBOARD)'
    BY <1>1, <2>1, OneServes DEF Serves
  <2>3. Typing' = Echo' \o (a.text \o Waiting')
    BY <1>1, <1>4, <2>1 DEF Keys
  <2>4. booted # "early"
    BY <1>1, <1>4 DEF Keys
  <2>5. CASE a.at # "iretq"
    <3>1. Serves(n, KEYBOARD)'
      BY <1>1, <1>4, <2>5 DEF Serves
    <3> QED
      BY <1>1, <1>2, <2>2, <2>3, <2>4, <3>1 DEF Keys
  <2>6. CASE a.at = "iretq"
    <3>1. ~Serves(n, KEYBOARD)'
      BY <1>1, <2>6 DEF Serves
    <3>2. Waiting' \in Seq(STRING)
      BY <1>4, <2>6, TypedIs DEF IInv, Shape
    <3>3. a.text \o Waiting' = Waiting'
      BY <1>4, <2>6, <3>2, Joined
    <3> QED
      BY <1>1, <1>2, <2>2, <2>3, <2>4, <3>1, <3>3 DEF Keys
  <2> QED
    BY <2>5, <2>6
<1> QED
  BY <1>3, <1>4

\* A step of the running activation that neither reads a key nor shows one.
LEMMA KeysQuiet ==
  ASSUME IInv, Types', Keys, NEW a \in Act, stack' = [stack EXCEPT ![Len(stack)] = a],
         a.irq = Top.irq, UNCHANGED <<booted, mask, pressed, port60, shown>>, Top.at # "iretq",
         Top.irq = KEYBOARD =>
           /\ a.at \in {"cli", "test_and_set", "put"} \/ a.text = <<>>
           /\ a.text = Top.text
  PROVE  Keys'
<1>1. Echo' = Echo /\ Typing' = Typing /\ Waiting' = Waiting
  BY DEF Echo, Typing, Waiting
<1> QED
  BY <1>1, KeysStep

\* An interrupt or an exception begins, with nothing to echo yet.
LEMMA KeysEnter ==
  ASSUME IInv, Types', Keys, NEW a \in Act, stack' = Append(stack, a), a.text = <<>>,
         UNCHANGED <<booted, mask, pressed, port60, shown>>,
         a.irq = KEYBOARD => KEYBOARD \notin isr /\ KEYBOARD \notin mask
  PROVE  Keys'
<1> PICK n : n = Len(stack)
  OBVIOUS
<1>1. /\ n \in Nat \ {0} /\ DOMAIN stack = 1..n /\ DOMAIN stack' = 1..(n + 1) /\ stack'[n + 1] = a
      /\ \A k \in 1..n : stack'[k] = stack[k]
      /\ \A k \in 1..(n + 1) : k \in 1..n \/ k = n + 1
      /\ n + 1 \in 1..(n + 1) /\ 1..n \subseteq 1..(n + 1)
  BY Pushed, StackIs DEF IInv, Shape
<1>2. Echo' = Echo /\ Typing' = Typing /\ Waiting' = Waiting
  BY DEF Echo, Typing, Waiting
<1>3. \A k \in DOMAIN stack' :
        stack'[k].irq = KEYBOARD /\ k \notin Pending' => stack'[k].text = <<>>
  <2> SUFFICES ASSUME NEW k \in 1..(n + 1), stack'[k].irq = KEYBOARD,
                      stack'[k].at \notin {"cli", "test_and_set", "put"}
               PROVE  stack'[k].text = <<>>
    BY <1>1 DEF Pending
  <2>1. CASE k = n + 1
    BY <1>1, <2>1
  <2>2. CASE k \in 1..n
    BY <1>1, <2>2 DEF Keys, Pending
  <2> QED
    BY <1>1, <2>1, <2>2
<1>4. \A k \in 1..n : Serves(k, KEYBOARD)' <=> Serves(k, KEYBOARD)
  BY <1>1 DEF Serves
<1>5. booted = "early" => KEYBOARD \in mask /\ a.irq # KEYBOARD
  BY DEF Keys
<1>6. CASE Serves(n + 1, KEYBOARD)'
  <2>1. KEYBOARD \notin isr
    BY <1>1, <1>6 DEF Serves
  <2>2. \A k \in 1..n : ~Serves(k, KEYBOARD)
    BY <1>1, <2>1 DEF IInv, Shape, Served
  <2>3. Typing = Echo \o Waiting
    BY <1>1, <2>2 DEF Keys
  <2>4. <<>> \o Waiting = Waiting
    BY Joined, TypedIs DEF IInv, Shape
  <2> QED
    BY <1>1, <1>2, <1>3, <1>4, <1>5, <1>6, <2>2, <2>3, <2>4 DEF Keys
<1>7. CASE ~Serves(n + 1, KEYBOARD)'
  BY <1>1, <1>2, <1>3, <1>4, <1>5, <1>7 DEF Keys
<1> QED
  BY <1>6, <1>7

LEMMA KeysReturn == ASSUME IInv, Types', Keys, Iretq PROVE Keys'
<1> PICK n : n = Len(stack)
  OBVIOUS
<1>1. n > 1
  BY PoppedShape DEF IInv, Iretq
<1>2. /\ n \in Nat \ {0} /\ DOMAIN stack = 1..n /\ DOMAIN stack' = 1..(n - 1)
      /\ Top = stack[n] /\ \A k \in 1..(n - 1) : stack'[k] = stack[k]
  BY <1>1, Popped, StackIs DEF IInv, Shape, Iretq, Top
<1>3. Echo' = Echo /\ Typing' = Typing /\ Waiting' = Waiting /\ UNCHANGED <<booted, mask>>
  BY DEF Iretq, history, boot, Echo, Typing, Waiting
<1>4. \A k \in 1..n : k = n \/ k \in 1..(n - 1)
  BY <1>2
<1>5. 1..(n - 1) \subseteq 1..n
  BY <1>2
<1>6. \A k \in 1..(n - 1) : Serves(k, KEYBOARD)' <=> Serves(k, KEYBOARD)
  BY <1>2 DEF Serves
<1>7. ~Serves(n, KEYBOARD)
  BY <1>2 DEF Serves, Iretq
<1>8. \A k \in 1..(n - 1) : k \in Pending' <=> k \in Pending
  BY <1>2, <1>5 DEF Pending
<1> QED
  BY <1>2, <1>3, <1>4, <1>5, <1>6, <1>7, <1>8 DEF Keys

LEMMA Written ==
  ASSUME IInv, Types', NEW a, stack' = [stack EXCEPT ![Len(stack)] = a]
  PROVE  a \in Act
<1>1. Len(stack) \in DOMAIN stack /\ stack \in Seq(Act)
  BY StackIs DEF IInv, Shape, Types
<1>2. stack'[Len(stack)] = a /\ Len(stack) \in DOMAIN stack'
  BY <1>1
<1>3. \A k \in DOMAIN stack' : stack'[k] \in Act
  BY DEF Types
<1> QED
  BY <1>2, <1>3

LEMMA KeysGoto ==
  ASSUME IInv, Types', Keys, NEW where, Goto(where), Top.at # "iretq",
         UNCHANGED <<booted, mask, pressed, port60, shown>>,
         where \in {"cli", "test_and_set", "put"} \/ Top.irq # KEYBOARD \/ Top.text = <<>>
  PROVE  Keys'
<1> PICK a : a = [Top EXCEPT !.at = where]
  OBVIOUS
<1>1. stack' = [stack EXCEPT ![Len(stack)] = a]
  BY DEF Goto, Top
<1>2. Top \in Act
  BY TopIs
<1>3. a.irq = Top.irq /\ a.text = Top.text /\ a.at = where
  BY <1>2 DEF Act
<1>4. a \in Act
  BY <1>1, Written
<1> QED
  BY <1>1, <1>3, <1>4, KeysQuiet

\* A handler that has left its printf has nothing to show.
LEMMA NothingLeft ==
  ASSUME IInv, Keys, Top.irq = KEYBOARD, Top.at \notin {"cli", "test_and_set", "put"}
  PROVE  Top.text = <<>>
<1>1. Top = stack[Len(stack)] /\ Len(stack) \in DOMAIN stack
  BY TopIs
<1> QED
  BY <1>1 DEF Keys, Pending

LEMMA KeysPrinting == ASSUME IInv, Types', Keys, Cli \/ TestAndSet \/ Clear \/ Sti PROVE Keys'
<1>1. UNCHANGED <<booted, mask, pressed, port60, shown>>
  BY DEF Cli, TestAndSet, Clear, Sti, boot, history
<1>2. CASE Cli
  BY <1>1, <1>2, KeysGoto DEF Cli
<1>3. CASE TestAndSet
  BY <1>1, <1>3, KeysGoto DEF TestAndSet
<1>4. CASE Clear
  BY <1>1, <1>4, KeysGoto DEF Clear
<1>5. CASE Sti
  <2>1. Top.irq # KEYBOARD \/ Top.text = <<>>
    BY <1>5, NothingLeft DEF Sti
  <2> QED
    BY <1>1, <1>5, <2>1, KeysGoto DEF Sti
<1> QED
  BY <1>2, <1>3, <1>4, <1>5

LEMMA KeysPut == ASSUME IInv, Types', Keys, PutChar PROVE Keys'
<1> PICK a : a = [Top EXCEPT !.text = Tail(Top.text)]
  OBVIOUS
<1>1. stack' = [stack EXCEPT ![Len(stack)] = a]
  BY DEF PutChar, Top
<1>2. Top \in Act /\ Top.at = "put" /\ Top.text # <<>>
  BY TopIs DEF PutChar
<1>3. Top.text \in Seq(STRING)
  BY <1>2 DEF Act
<1>4. a.irq = Top.irq /\ a.at = "put" /\ a.text = Tail(Top.text) /\ a \in Act
  BY <1>1, <1>2, Written DEF Act
<1> PICK e : e = [id |-> Top.id, irq |-> Top.irq, ch |-> Head(Top.text),
                  fg |-> ForegroundOf(Top), color |-> Top.color, device |-> fb_vfs_node]
  OBVIOUS
<1>5. shown' = Append(shown, e) /\ UNCHANGED <<booted, mask, pressed, port60>>
  BY DEF PutChar, boot
<1>6. e \in Shown
  <2>1. Head(Top.text) \in STRING
    BY <1>2, <1>3, TextIs
  <2>2. Top.id \in Nat /\ Top.irq \in {NUL, TIMER, KEYBOARD, FAULT} /\ Top.color \in Colors
    BY <1>2 DEF Act
  <2>3. fb_vfs_node \in BOOLEAN /\ default_fg \in Colors
    BY DEF IInv, Shape, Types
  <2>4. ForegroundOf(Top) \in Colors
    BY <2>2, <2>3 DEF ForegroundOf
  <2> QED
    BY <2>1, <2>2, <2>3, <2>4 DEF Shown
<1>7. Echo' = Echo \o EchoOf(e)
  BY <1>5, <1>6, OneEchoed DEF IInv, Shape
<1>8. Typing' = Typing /\ Waiting' = Waiting
  BY <1>5 DEF Typing, Waiting
<1>9. Echo \in Seq(STRING) /\ Waiting \in Seq(STRING)
  BY TypedIs DEF IInv, Shape
<1>10. EchoOf(e) = IF Top.irq = KEYBOARD THEN <<Head(Top.text)>> ELSE <<>>
  BY DEF EchoOf
<1>11. Top.irq # KEYBOARD => Echo' = Echo
  BY <1>7, <1>9, <1>10, Joined
<1>12. Top.irq = KEYBOARD => Echo' \o (a.text \o Waiting') = Echo \o (Top.text \o Waiting)
  <2>1. (Echo \o <<Head(Top.text)>>) \o (Tail(Top.text) \o Waiting)
          = Echo \o (Top.text \o Waiting)
    BY <1>2, <1>3, <1>9, HeadJoined
  <2> QED
    BY <1>4, <1>7, <1>8, <1>10, <2>1
<1> QED
  BY <1>1, <1>2, <1>4, <1>5, <1>8, <1>11, <1>12, KeysStep

\* The handler takes the key from the keyboard.
LEMMA KeysRead == ASSUME IInv, Types', Keys, keyboard_handler_main PROVE Keys'
<1>1. Top.irq = KEYBOARD /\ Top.at = "inb" /\ Top \in Act
  BY TopIs DEF keyboard_handler_main, At
<1>2. port60 \in Scancodes /\ port60 # NUL
  BY <1>1, TopIs, ConsoleConstants DEF IInv, Shape, KeyHeld, Types
<1>3. UNCHANGED <<booted, mask, pressed, shown>> /\ port60' = NUL
  BY <1>1 DEF keyboard_handler_main, boot
<1>4. Echo' = Echo /\ Typing' = Typing /\ Waiting' = <<>> /\ Waiting = Character(port60)
  BY <1>2, <1>3 DEF Echo, Typing, Waiting
<1>5. Top.text = <<>>
  BY <1>1, NothingLeft
<1>6. PICK a : /\ stack' = [stack EXCEPT ![Len(stack)] = a] /\ a.irq = Top.irq
               /\ a.at = "cli" \/ a.text = <<>>
               /\ a.text = Character(port60)
  <2>1. CASE ascii[port60] = NUL
    <3> PICK b : b = Top
      OBVIOUS
    <3> PICK a : a = [b EXCEPT !.at = "eoi"]
      OBVIOUS
    <3>1. stack' = [stack EXCEPT ![Len(stack)] = a]
      BY <2>1 DEF keyboard_handler_main, Goto, Top
    <3>2. a.irq = b.irq /\ a.text = b.text
      BY <1>1 DEF Act
    <3> QED
      BY <1>5, <2>1, <3>1, <3>2 DEF Character
  <2>2. CASE ascii[port60] # NUL
    <3> PICK b, c, p : b = Top /\ c = <<ascii[port60]>> /\ p = prints + 1
      OBVIOUS
    <3> PICK a : a = [b EXCEPT !.at = "cli", !.text = c, !.color = "white", !.id = p]
      OBVIOUS
    <3>1. stack' = [stack EXCEPT ![Len(stack)] = a]
      BY <2>2 DEF keyboard_handler_main, printf, Top
    <3>2. a.irq = b.irq /\ a.text = c /\ a.at = "cli"
      BY <1>1 DEF Act
    <3> QED
      BY <2>2, <3>1, <3>2 DEF Character
  <2> QED
    BY <2>1, <2>2
<1>7. a \in Act
  BY <1>6, Written
<1>8. Character(port60) \in Seq(STRING)
  BY <1>2, CharacterIs
<1>9. Top.text \o Waiting = a.text \o Waiting'
  BY <1>4, <1>5, <1>6, <1>8, Joined
<1> QED
  BY <1>1, <1>3, <1>4, <1>6, <1>7, <1>9, KeysStep

\* What the boot thread and the exception handler print is no echo.
LEMMA KeysOthers ==
  ASSUME IInv, Types', Keys,
         \/ DumpPrintf \/ DumpHex \/ HexDraw \/ HexWrap \/ HexEnd \/ CliHlt
         \/ \E m \in Messages : BootPrintf(m)
  PROVE  Keys'
<1> PICK b, p : b = Top /\ p = prints + 1
  OBVIOUS
<1>1. b \in Act /\ b.irq \in {NUL, FAULT} /\ b.irq # KEYBOARD /\ b.at # "iretq"
  BY TopIs, Numbered DEF DumpPrintf, DumpHex, HexDraw, HexWrap, HexEnd, CliHlt, BootPrintf, NextCall, At
<1>2. UNCHANGED <<booted, mask, pressed, port60, shown>>
  BY DEF DumpPrintf, DumpHex, HexDraw, HexWrap, HexEnd, CliHlt, BootPrintf, boot, history
<1>3. PICK a : stack' = [stack EXCEPT ![Len(stack)] = a] /\ a.irq = b.irq
  <2>1. CASE HexDraw \/ HexEnd \/ CliHlt
    <3>1. PICK where : stack' = [stack EXCEPT ![Len(stack)] = [b EXCEPT !.at = where]]
      BY <2>1 DEF HexDraw, HexEnd, CliHlt, Goto, Top
    <3>2. [b EXCEPT !.at = where].irq = b.irq
      BY <1>1 DEF Act
    <3> QED
      BY <3>1, <3>2
  <2>2. CASE HexWrap
    <3>1. PICK t : stack' = [stack EXCEPT ![Len(stack)] = [b EXCEPT !.text = t, !.at = "draw"]]
      BY <2>2 DEF HexWrap, Top
    <3>2. [b EXCEPT !.text = t, !.at = "draw"].irq = b.irq
      BY <1>1 DEF Act
    <3> QED
      BY <3>1, <3>2
  <2>3. CASE DumpHex
    <3>1. PICK t, c : stack' = [stack EXCEPT ![Len(stack)] =
                                  [b EXCEPT !.at = "draw", !.text = t, !.color = c]]
      BY <2>3 DEF DumpHex, Top
    <3>2. [b EXCEPT !.at = "draw", !.text = t, !.color = c].irq = b.irq
      BY <1>1 DEF Act
    <3> QED
      BY <3>1, <3>2
  <2>4. CASE DumpPrintf \/ \E m \in Messages : BootPrintf(m)
    <3>1. PICK t, c : stack' = [stack EXCEPT ![Len(stack)] =
                                  [b EXCEPT !.at = "cli", !.text = t, !.color = c, !.id = p]]
      BY <2>4 DEF DumpPrintf, BootPrintf, printf, Top
    <3>2. [b EXCEPT !.at = "cli", !.text = t, !.color = c, !.id = p].irq = b.irq
      BY <1>1 DEF Act
    <3> QED
      BY <3>1, <3>2
  <2> QED
    BY <2>1, <2>2, <2>3, <2>4
<1>4. a \in Act
  BY <1>3, Written
<1> QED
  BY <1>1, <1>2, <1>3, <1>4, KeysQuiet

\* The stack stays as it is.
LEMMA KeysStill ==
  ASSUME IInv, Types', Keys, stack' = stack,
         UNCHANGED shown,
         \/ UNCHANGED <<booted, mask, pressed, port60>>
         \/ Unmask
         \/ UNCHANGED <<mask, pressed, port60>> /\ booted' # "early"
         \/ UNCHANGED <<booted, mask>> /\ \E code \in Scancodes : KeyPress(code)
  PROVE  Keys'
<1>1. /\ \A k \in DOMAIN stack : Serves(k, KEYBOARD)' <=> Serves(k, KEYBOARD)
      /\ Pending' = Pending /\ DOMAIN stack' = DOMAIN stack
      /\ \A k \in DOMAIN stack : stack'[k] = stack[k]
  BY DEF Serves, Pending
<1>2. Echo' = Echo
  BY DEF Echo
<1>3. Echo \in Seq(STRING) /\ Waiting \in Seq(STRING)
  BY TypedIs DEF IInv, Shape
<1>4. CASE UNCHANGED <<booted, mask, pressed, port60>> \/ (UNCHANGED <<mask, pressed, port60>> /\ booted' # "early")
  <2>1. Typing' = Typing /\ Waiting' = Waiting
    BY <1>4 DEF Typing, Waiting
  <2> QED
    BY <1>1, <1>2, <1>4, <2>1 DEF Keys
<1>5. CASE Unmask
  <2>1. /\ booted = "early" /\ booted' = "unmasked" /\ pressed' = <<>> /\ port60' = NUL
    BY <1>5 DEF Unmask
  <2>2. Echo = <<>> /\ \A k \in DOMAIN stack : ~Serves(k, KEYBOARD)
    BY <2>1 DEF Keys, Serves
  <2>3. Typing' = <<>> /\ Waiting' = <<>>
    <3>1. KeysTyped' = <<>>
      BY <2>1 DEF KeysTyped
    <3>2. Typing' = FlattenSeq(KeysTyped')
      BY DEF Typing, KeysTyped
    <3> QED
      BY <2>1, <3>1, <3>2 DEF FlattenSeq, Waiting
  <2> QED
    BY <1>1, <1>2, <2>1, <2>2, <2>3 DEF Keys
<1>6. ASSUME NEW code \in Scancodes, KeyPress(code), UNCHANGED <<booted, mask>> PROVE Keys'
  <2>1. port60 = NUL /\ port60' = code /\ code # NUL /\ pressed' = Append(pressed, code)
    BY <1>6, ConsoleConstants DEF KeyPress
  <2>2. Typing' = Typing \o Character(code) /\ Waiting = <<>> /\ Waiting' = Character(code)
    BY <2>1, OneTyped DEF IInv, Shape, Waiting
  <2>3. Character(code) \in Seq(STRING) /\ Typing \in Seq(STRING) /\ <<>> \in Seq(STRING)
    BY CharacterIs, TypedIs DEF IInv, Shape
  <2>4. ASSUME NEW k \in DOMAIN stack, Serves(k, KEYBOARD)
        PROVE  Typing' = Echo \o (stack[k].text \o Waiting')
    <3>1. stack[k].text \in Seq(STRING)
      BY StackIs DEF IInv, Shape, Act
    <3>2. Typing = Echo \o (stack[k].text \o <<>>)
      BY <2>2, <2>4 DEF Keys
    <3>3. Typing = Echo \o stack[k].text
      BY <3>1, <3>2, Joined
    <3>4. (Echo \o stack[k].text) \o Character(code) = Echo \o (stack[k].text \o Character(code))
      BY <1>3, <2>3, <3>1, Regrouped
    <3> QED
      BY <2>2, <3>3, <3>4
  <2>5. ASSUME \A k \in DOMAIN stack : ~Serves(k, KEYBOARD)
        PROVE  Typing' = Echo \o Waiting'
    <3>1. Typing = Echo \o <<>>
      BY <2>2, <2>5 DEF Keys
    <3>2. Typing = Echo
      BY <1>3, <3>1, Joined
    <3> QED
      BY <2>2, <3>2
  <2> QED
    BY <1>1, <1>2, <1>6, <2>4, <2>5 DEF Keys
<1> QED
  BY <1>4, <1>5, <1>6

LEMMA KeysStart == ExceptionInit => Keys
<1> SUFFICES ASSUME ExceptionInit PROVE Keys
  OBVIOUS
<1> PICK a : a = [irq |-> NUL, at |-> "run", text |-> <<>>, color |-> "none", id |-> 0, flags |-> FALSE]
  OBVIOUS
<1>1. /\ stack = <<a>> /\ shown = <<>> /\ pressed = <<>> /\ port60 = NUL
      /\ mask = {TIMER, KEYBOARD}
  BY DEF ExceptionInit, Init, Activation
<1>2. DOMAIN stack = {1} /\ stack[1].irq = NUL
  BY <1>1
<1>3. KeysTyped = <<>> /\ Echoed = <<>>
  BY <1>1 DEF KeysTyped, Echoed
<1>4. Typing = FlattenSeq(KeysTyped) /\ Echo = FlattenSeq(Echoed)
  BY DEF Typing, KeysTyped, Echo, Echoed, EchoOf
<1>5. Typing = <<>> /\ Echo = <<>> /\ Waiting = <<>>
  BY <1>1, <1>3, <1>4 DEF FlattenSeq, Waiting
<1>6. <<>> \o <<>> = <<>>
  OBVIOUS
<1> QED
  BY <1>1, <1>2, <1>5, <1>6, Numbered DEF Keys, Serves

LEMMA KeysNext == IInv /\ Keys /\ [ExceptionNext]_exception_vars => Keys'
<1> SUFFICES ASSUME IInv, Keys, [ExceptionNext]_exception_vars PROVE Keys'
  OBVIOUS
<1>1. Types'
  BY StepIInv DEF IInv, Shape
<1>2. CASE UNCHANGED exception_vars \/ StandStill
  BY <1>1, <1>2, KeysStill DEF StandStill, exception_vars, vars, boot, history
<1>3. ASSUME NEW d \in Dumps, Exception(d) PROVE Keys'
  <2> PICK a : a = [irq |-> FAULT, at |-> "dump", text |-> <<>>, color |-> "none", id |-> 0, flags |-> intr]
    OBVIOUS
  <2>1. stack' = Append(stack, a) /\ UNCHANGED <<booted, mask, pressed, port60, shown>>
    BY <1>3 DEF Exception, Activation, boot, history
  <2>2. a \in Act
    BY ConsoleConstants, TopIs DEF Act
  <2> QED
    BY <1>1, <2>1, <2>2, Numbered, KeysEnter
<1>4. ASSUME NEW irq \in {TIMER, KEYBOARD}, Deliver(irq) PROVE Keys'
  <2> PICK where : where = IF irq = TIMER THEN "eoi" ELSE "inb"
    OBVIOUS
  <2> PICK a : a = [irq |-> irq, at |-> where, text |-> <<>>, color |-> "none", id |-> 0, flags |-> TRUE]
    OBVIOUS
  <2>1. stack' = Append(stack, a) /\ UNCHANGED <<booted, mask, pressed, port60, shown>>
    BY <1>4 DEF Deliver, Activation, boot, history
  <2>2. a \in Act
    BY ConsoleConstants DEF Act
  <2>3. irq \notin mask /\ \A s \in isr : irq < s
    BY <1>4 DEF Deliver
  <2>4. ~(irq < irq)
    BY DEF TIMER, KEYBOARD
  <2> QED
    BY <1>1, <2>1, <2>2, <2>3, <2>4, KeysEnter
<1>5. CASE pic_send_eoi
  <2>1. UNCHANGED <<booted, mask, pressed, port60, shown>> /\ Top.at = "eoi" /\ Goto("iretq")
    BY <1>5 DEF pic_send_eoi, boot, history
  <2>2. Top.irq # KEYBOARD \/ Top.text = <<>>
    BY <2>1, NothingLeft
  <2> QED
    BY <1>1, <2>1, <2>2, KeysGoto
<1>6. CASE Unmask \/ EnableInterrupts \/ fb_create_vfs_node \/ Tick \/ \E code \in Scancodes : KeyPress(code)
  <2>1. stack' = stack /\ UNCHANGED shown
    BY <1>6 DEF Unmask, EnableInterrupts, fb_create_vfs_node, Tick, KeyPress, history
  <2>2. EnableInterrupts \/ fb_create_vfs_node => UNCHANGED <<mask, pressed, port60>> /\ booted' # "early"
    BY DEF EnableInterrupts, fb_create_vfs_node, history
  <2>3. Tick => UNCHANGED <<booted, mask, pressed, port60>>
    BY DEF Tick, boot, history
  <2>4. ASSUME NEW code \in Scancodes, KeyPress(code) PROVE UNCHANGED <<booted, mask>>
    BY <2>4 DEF KeyPress, boot
  <2> QED
    BY <1>1, <1>6, <2>1, <2>2, <2>3, <2>4, KeysStill
<1>7. CASE PutChar
  BY <1>1, <1>7, KeysPut
<1>8. CASE Cli \/ TestAndSet \/ Clear \/ Sti
  BY <1>1, <1>8, KeysPrinting
<1>9. CASE keyboard_handler_main
  BY <1>1, <1>9, KeysRead
<1>10. CASE Iretq
  BY <1>1, <1>10, KeysReturn
<1>11. CASE \/ DumpPrintf \/ DumpHex \/ HexDraw \/ HexWrap \/ HexEnd \/ CliHlt
            \/ \E m \in Messages : BootPrintf(m)
  BY <1>1, <1>11, KeysOthers
<1> QED
  BY <1>2, <1>3, <1>4, <1>5, <1>6, <1>7, <1>8, <1>9, <1>10, <1>11
     DEF ExceptionNext, Next, BootStep, KeyboardStep, TimerStep, DumpStep, Printing

-----------------------------------------------------------------------------
(* The theorems *)

LEMMA ServedOnce ==
  ASSUME IInv, NEW irq \in {TIMER, KEYBOARD}
  PROVE  Cardinality({i \in DOMAIN stack : stack[i].irq = irq /\ stack[i].at # "iretq"})
           = IF irq \in isr THEN 1 ELSE 0
<1> DEFINE S == {i \in DOMAIN stack : stack[i].irq = irq /\ stack[i].at # "iretq"}
<1>1. S = {k \in DOMAIN stack : Serves(k, irq)}
  BY DEF Serves
<1>2. /\ irq \in isr <=> \E k \in DOMAIN stack : Serves(k, irq)
      /\ \A j, k \in DOMAIN stack : Serves(j, irq) /\ Serves(k, irq) => j = k
  BY DEF IInv, Shape, Served
<1>3. CASE irq \in isr
  <2>1. PICK k \in DOMAIN stack : Serves(k, irq)
    BY <1>2, <1>3
  <2>2. S = {k}
    BY <1>1, <1>2, <2>1
  <2> QED
    BY <1>3, <2>2, FS_Singleton
<1>4. CASE irq \notin isr
  <2>1. S = {}
    BY <1>1, <1>2, <1>4
  <2> QED
    BY <1>4, <2>1, FS_EmptySet
<1> QED
  BY <1>3, <1>4

(***************************************************************************)
(* However handlers and exceptions nest, and with any number of them, the  *)
(* interrupts that the PIC holds in service are those whose handlers have  *)
(* not yet sent their EOI: pic_send_eoi of a nested handler never ends the *)
(* interrupt of the one below.                                             *)
(***************************************************************************)
THEOREM ConsoleInvariance == ExceptionSpec => []ConsoleInv
<1>1. IInv => ConsoleInv
  <2> SUFFICES ASSUME IInv PROVE ConsoleInv
    OBVIOUS
  <2>1. TypeOK
    BY DEF IInv, Shape, Types, TypeOK, Act
  <2>2. InService
    BY ServedOnce DEF InService
  <2> QED
    BY <2>1, <2>2 DEF ConsoleInv
<1> QED
  BY IInvInvariance, <1>1, PTL

(***************************************************************************)
(* printf's characters are never torn apart by those of the keyboard       *)
(* handler or of a dump that uses printf, and are of one colour each       *)
(* message, though the keyboard handler runs as soon as spin_unlock has    *)
(* turned interrupts on and default_fg is set outside of the lock.         *)
(***************************************************************************)
THEOREM ConsoleMessagesWhole == ExceptionSpec => []MessagesWhole
<1>1. IInv => MessagesWhole
  BY DEF IInv, Story
<1> QED
  BY IInvInvariance, <1>1, PTL

(***************************************************************************)
(* The cursor is on the screen whenever no print_hex64 is in the middle of *)
(* a put_char, on a screen of any size: a put_char that begins with the    *)
(* cursor behind the last column, in a handler that interrupted another    *)
(* put_char there, leaves it on the screen.                                *)
(***************************************************************************)
THEOREM ConsoleCursorSafe == ExceptionSpec => []CursorSafe
<1>1. IInv => CursorSafe
  <2> SUFFICES ASSUME IInv, cursor_x < cols PROVE CursorOnScreen
    BY DEF CursorSafe, IInv, Cursor
  <2>1. cursor_x \in 0..(cols - 1) /\ cursor_y \in 0..(rows - 1)
    BY TerminalConstants DEF IInv, Cursor
  <2> QED
    BY <2>1 DEF CursorOnScreen, Grid
<1> QED
  BY IInvInvariance, <1>1, PTL

(***************************************************************************)
(* keyboard_handler_main echoes each key once and in the order in which    *)
(* the keys were pressed, for any keys at any time: the handler of a key   *)
(* that comes while another handler prints waits for that one's EOI, and   *)
(* what is typed meanwhile stays in port 0x60.                             *)
(***************************************************************************)
THEOREM ConsoleEchoInOrder == ExceptionSpec => []EchoInOrder
<1>1. ASSUME IInv, Keys PROVE EchoInOrder
  <2>1. Types /\ Typing \in Seq(STRING) /\ Echo \in Seq(STRING) /\ Waiting \in Seq(STRING)
    BY <1>1, TypedIs DEF IInv, Shape
  <2>2. \E rest \in Seq(STRING) : Typing = Echo \o rest
    <3>1. CASE \E k \in DOMAIN stack : Serves(k, KEYBOARD)
      <4>1. PICK k \in DOMAIN stack : Serves(k, KEYBOARD)
        BY <3>1
      <4>2. stack[k].text \in Seq(STRING)
        BY <2>1, StackIs DEF Act
      <4>3. stack[k].text \o Waiting \in Seq(STRING)
        BY <2>1, <4>2, Joined
      <4> QED
        BY <1>1, <4>1, <4>3 DEF Keys
    <3>2. CASE ~ \E k \in DOMAIN stack : Serves(k, KEYBOARD)
      BY <1>1, <2>1, <3>2 DEF Keys
    <3> QED
      BY <3>1, <3>2
  <2>3. \A p, q \in Seq(STRING) : /\ Len(p) <= Len(p \o q)
                                  /\ SubSeq(p, 1, Len(p)) = SubSeq(p \o q, 1, Len(p))
    OBVIOUS
  <2>4. IsPrefix(Echo, Typing)
    BY <2>1, <2>2, <2>3 DEF IsPrefix
  <2>5. ASSUME Len(stack) = 1, port60 = NUL PROVE Echo = Typing
    <3>1. DOMAIN stack = 1..1 /\ stack[1].irq = NUL
      BY <1>1, <2>1, <2>5, StackIs DEF IInv, Shape, Stacked
    <3>2. \A k \in DOMAIN stack : ~Serves(k, KEYBOARD)
      BY <3>1, Numbered DEF Serves
    <3>3. Typing = Echo \o <<>>
      BY <1>1, <2>5, <3>2 DEF Keys, Waiting
    <3> QED
      BY <2>1, <3>3, Joined
  <2> QED
    BY <2>4, <2>5 DEF EchoInOrder
<1>2. IInv /\ Keys => EchoInOrder
  BY <1>1
<1>3. ExceptionInit => IInv /\ Keys
  BY InitIInv, KeysStart
<1>4. IInv /\ Keys /\ [ExceptionNext]_exception_vars => IInv' /\ Keys'
  BY StepIInv, KeysNext
<1> QED
  BY <1>2, <1>3, <1>4, PTL DEF ExceptionSpec
=============================================================================

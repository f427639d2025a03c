---------------------------- MODULE DriverProofs ----------------------------
(***************************************************************************)
(* Proofs about the drivers: of the disk, of what is on it, and of the     *)
(* screen.                                                                 *)
(*                                                                         *)
(* Ata.tla, for all devices, poll limits and requests: the sectors that    *)
(* block_read gets, and when the first of them may be an old one.          *)
(*                                                                         *)
(* put_char and scroll of Terminal.tla, driven by any messages of          *)
(* Printf.tla, for any size of the screen and of a tab: the screen is      *)
(* always the window on the last lines of the text.  One character is      *)
(* three movements, and each has its lemma: it is drawn at the cursor, on  *)
(* the screen and on the roll of paper alike (Drawing); the paper is fed a *)
(* line, and the cursor follows it (Feeding) or, at the last line, the     *)
(* screen does (Scrolling).                                                *)
(*                                                                         *)
(* printf of Printf.tla, for all formats and any size of out_buf and of an *)
(* int.  A digit more at the end of a numeral is the base times the number *)
(* and that digit (ReadDigit), so that what print_num_to_buf divides off   *)
(* is read back, by induction on how far the number is from zero           *)
(* (OneMoreDigit); the buffer is the text, or the part of it for which     *)
(* there was room (Kept), round by round of the loop (PutKeepsUp).  The    *)
(* folds over a sequence are the value of a function on 0..n (FoldExists). *)
(* The provers know of no literal that it is in STRING; Chars adds those   *)
(* that print_num_to_buf writes.                                           *)
(*                                                                         *)
(* The block device table and ext2_mount of Disk.tla and Ext2.tla, for any *)
(* partition table: what mbr_parse has registered so far (Registered) is   *)
(* enough to know whom a name finds.                                       *)
(***************************************************************************)
EXTENDS Ata, Printf, Ext2, WellFoundedInduction, TLAPS

-----------------------------------------------------------------------------
(* Ata.tla *)

\* What RightSectors needs to be inductive.
AtaIInv == AtaInv /\ RightSectors

LEMMA AtaInit == Init => AtaIInv
<1> SUFFICES ASSUME Init PROVE AtaIInv
  OBVIOUS
<1>1. TypeOK
  <2>1. /\ bsy \in BOOLEAN /\ drq \in BOOLEAN /\ err \in BOOLEAN
        /\ owed \in BOOLEAN
    BY DEF Init
  <2>2. buf \in Seq(0..(LBA28 - 1)) /\ Len(buf) = 0
    BY DEF Init
  <2> QED
    BY <2>1, <2>2, AtaConstants DEF Init, TypeOK
<1>2. ~AnswerDue
  BY DEF Init, AnswerDue
<1>3. CommandsAreHeard /\ RoundsKept /\ RightSectors
  BY <1>2, AtaConstants DEF Init, CommandsAreHeard, RoundsKept, RightSectors
<1> QED
  BY <1>1, <1>3 DEF AtaIInv, AtaInv

\* What the registers can take of a sector's number is 28 bits.
LEMMA SectorAddressable ==
  ASSUME TypeOK
  PROVE  /\ Absolute \in Nat /\ Len(buf) \in Nat /\ Sector = Absolute + Len(buf)
         /\ Address28 = Sector % LBA28 /\ Address28 \in 0..(LBA28 - 1)
<1>1. /\ dev.start_lba \in Nat /\ lba \in Nat /\ Len(buf) \in Nat
      /\ LBA28 \in Nat \ {0}
  BY AtaConstants DEF TypeOK
<1>2. Absolute \in Nat /\ Sector \in Nat
  BY <1>1 DEF Sector, Absolute
<1> QED
  BY <1>1, <1>2 DEF Address28, Sector

\* Who leaves the request and the buffer alone names the same sectors.
LEMMA SameRound ==
  ASSUME UNCHANGED <<request, buf>>
  PROVE  Absolute' = Absolute /\ Sector' = Sector /\ Address28' = Address28
  BY DEF request, Absolute, Sector, Address28

LEMMA AtaStep == ASSUME AtaIInv, [Next]_vars PROVE AtaIInv'
<1> USE AtaConstants DEF AtaIInv, AtaInv
<1>1. ASSUME NEW d \in Devices, NEW l \in 0..MaxLba, NEW n \in 0..MaxCount,
             block_read(d, l, n)
      PROVE  AtaIInv'
  <2>1. AnswerDue' = AnswerDue /\ owed' = AnswerDue /\ AnswerDue \in BOOLEAN
    BY <1>1 DEF block_read, drive, AnswerDue
  <2>2. TypeOK'
    BY <1>1, <2>1 DEF block_read, drive, TypeOK
  <2>3. CommandsAreHeard' /\ RoundsKept' /\ RightSectors'
    BY <1>1, <2>1 DEF block_read, drive, TypeOK, CommandsAreHeard, RoundsKept, RightSectors,
                      MayBeOld
  <2> QED
    BY <2>2, <2>3
<1>2. CASE ata_wait_ready
  BY <1>2, SameRound DEF ata_wait_ready, PollAgain, Give, drive, request, TypeOK,
     CommandsAreHeard, RoundsKept, RightSectors, AnswerDue, MayBeOld
<1>3. CASE Address
  <2>1. Len(buf) < count /\ ~bsy /\ (drq => MayBeOld) /\ lba_regs' \in 0..(LBA28 - 1)
        /\ (~drq => lba_regs' = Address28)
    BY <1>3, SectorAddressable DEF Address, RoundsKept, CommandsAreHeard, AnswerDue
  <2> QED
    BY <1>3, <2>1, SameRound DEF Address, request, TypeOK, CommandsAreHeard, RoundsKept,
       RightSectors, AnswerDue, MayBeOld
<1>4. CASE Command
  <2>1. Len(buf) < count /\ ~bsy /\ (drq => MayBeOld)
        /\ (lba_regs = Address28 \/ MayBeOld) /\ result = NONE
    BY <1>4 DEF Command, RoundsKept, CommandsAreHeard, AnswerDue
  <2>2. /\ UNCHANGED <<request, buf, result, owed, polls, lba_regs>>
        /\ pc' = "wait_drq" /\ pc = "command"
        /\ \/ /\ bsy' = TRUE /\ drq' = FALSE /\ err' = FALSE /\ serving' = lba_regs
           \/ drq /\ UNCHANGED <<bsy, drq, err, serving>>
    BY <1>4, <2>1 DEF Command, drive
  <2>3. TypeOK'
    BY <2>2 DEF TypeOK, request
  <2>4. MayBeOld' = MayBeOld /\ Address28' = Address28 /\ Absolute' = Absolute
    BY <2>2, SameRound DEF MayBeOld
  <2>5. CommandsAreHeard' /\ RoundsKept'
    <3>1. serving' = Address28 \/ MayBeOld
      BY <2>1, <2>2
    <3>2. drq' => ~bsy' /\ serving' # NONE
      BY <2>1, <2>2 DEF RoundsKept
    <3> QED
      BY <2>1, <2>2, <2>4, <3>1, <3>2 DEF CommandsAreHeard, RoundsKept, request
  <2>6. RightSectors'
    BY <2>1, <2>2, <2>4 DEF RightSectors, request
  <2> QED
    BY <2>3, <2>5, <2>6
<1>5. CASE ata_wait_drq
  BY <1>5, SameRound DEF ata_wait_drq, PollAgain, Give, drive, request, TypeOK,
     CommandsAreHeard, RoundsKept, RightSectors, AnswerDue, MayBeOld
<1>6. CASE Transfer
  <2>1. /\ serving = Address28 \/ MayBeOld
        /\ serving \in 0..(LBA28 - 1) /\ ~bsy /\ Len(buf) < count
        /\ buf' = Append(buf, serving)
        /\ pc' = IF Len(buf') < count THEN "wait_ready" ELSE "return"
        /\ result = NONE
        /\ UNCHANGED <<bsy, err, lba_regs, serving, owed, polls, request, result>>
        /\ drq' = FALSE
    BY <1>6 DEF Transfer, RoundsKept, TypeOK
  <2>2. /\ buf' \in Seq(0..(LBA28 - 1)) /\ Len(buf') = Len(buf) + 1
        /\ \A n \in DOMAIN buf : buf'[n] = buf[n]
        /\ buf'[Len(buf) + 1] = serving
        /\ DOMAIN buf' = DOMAIN buf \cup {Len(buf) + 1}
    BY <2>1 DEF TypeOK
  <2>3. TypeOK'
    <3>1. /\ bsy' \in BOOLEAN /\ drq' \in BOOLEAN /\ err' \in BOOLEAN
          /\ owed' \in BOOLEAN
      BY <2>1 DEF TypeOK
    <3> QED
      BY <2>1, <2>2, <3>1 DEF TypeOK, request
  <2>4. ~AnswerDue'
    BY <2>1 DEF AnswerDue
  <2>5. RoundsKept' /\ CommandsAreHeard'
    BY <2>1, <2>2, <2>4 DEF RoundsKept, CommandsAreHeard, TypeOK, request
  <2>6. RightSectors'
    <3>1. Absolute' = Absolute /\ (serving # Address28 => owed /\ Len(buf) + 1 = 1)
      BY <2>1 DEF Absolute, request, MayBeOld
    <3>2. Address28 = (Absolute + (Len(buf) + 1) - 1) % LBA28
      BY SectorAddressable
    <3> DEFINE Asked(n) == (Absolute + n - 1) % LBA28
    <3>3. /\ \A n \in DOMAIN buf : buf[n] = Asked(n) \/ (owed /\ n = 1)
          /\ serving = Asked(Len(buf) + 1) \/ (owed /\ Len(buf) + 1 = 1)
      BY <3>1, <3>2 DEF RightSectors
    <3> HIDE DEF Asked
    <3>4. \A n \in DOMAIN buf' : buf'[n] = Asked(n) \/ (owed' /\ n = 1)
      BY <2>1, <2>2, <3>3
    <3>5. result' # 1
      BY <2>1, AtaConstants
    <3> QED
      BY <3>1, <3>4, <3>5 DEF RightSectors, Asked
  <2> QED
    BY <2>3, <2>5, <2>6
<1>7. CASE Return
  <2>1. /\ pc = "return" /\ pc' = "idle" /\ result' = 1 /\ polls' = 0
        /\ UNCHANGED <<drive, owed, request, buf>>
    BY <1>7 DEF Return, Give
  <2>2. AnswerDue' = AnswerDue /\ Absolute' = Absolute
    BY <2>1, SameRound DEF AnswerDue, drive
  <2>3. TypeOK'
    BY <2>1 DEF TypeOK, drive, request
  <2>4. CommandsAreHeard' /\ RoundsKept'
    BY <2>1 DEF CommandsAreHeard, RoundsKept, drive
  <2>5. RightSectors'
    BY <2>1, <2>2 DEF RightSectors, RoundsKept, drive, request
  <2> QED
    BY <2>3, <2>4, <2>5
<1>8. CASE Answer \/ Fail \/ SpinUp
  <2>1. /\ UNCHANGED <<lba_regs, serving, owed, pc, polls, request, buf, result>>
        /\ bsy' = FALSE /\ drq' \in BOOLEAN /\ err' \in BOOLEAN
        /\ drq' => drq \/ (bsy /\ serving # NONE)
    <3>1. CASE Answer
      BY <3>1 DEF Answer, TypeOK
    <3>2. CASE Fail
      BY <3>2 DEF Fail, TypeOK
    <3>3. CASE SpinUp
      BY <3>3 DEF SpinUp, TypeOK
    <3> QED
      BY <1>8, <3>1, <3>2, <3>3
  <2>2. (AnswerDue' => AnswerDue) /\ (drq' => serving # NONE)
    BY <2>1 DEF AnswerDue, RoundsKept
  <2>3. MayBeOld' = MayBeOld /\ Address28' = Address28 /\ Absolute' = Absolute
    BY <2>1, SameRound DEF MayBeOld
  <2>4. pc = "transfer" => drq'
    <3>1. pc = "transfer" => drq /\ ~bsy
      BY DEF RoundsKept
    <3> QED
      BY <1>8, <3>1 DEF Answer, Fail, SpinUp
  <2>5. TypeOK'
    BY <2>1 DEF TypeOK, request
  <2>6. CommandsAreHeard'
    BY <2>1, <2>2, <2>3 DEF CommandsAreHeard
  <2>7. RoundsKept'
    BY <2>1, <2>2, <2>3, <2>4 DEF RoundsKept, request
  <2>8. RightSectors'
    BY <2>1, <2>2, <2>3 DEF RightSectors, request
  <2> QED
    BY <2>5, <2>6, <2>7, <2>8
<1>9. CASE UNCHANGED vars
  BY <1>9, SameRound DEF vars, drive, request, TypeOK, CommandsAreHeard, RoundsKept,
     RightSectors, AnswerDue, MayBeOld
<1> QED
  BY <1>1, <1>2, <1>3, <1>4, <1>5, <1>6, <1>7, <1>8, <1>9 DEF Next

(***************************************************************************)
(* No command is written to a busy drive, nor to one with an answer to     *)
(* fetch unless an earlier read was given up; but for that first round,    *)
(* ata.c and the drive agree on the sector of each round, however late the *)
(* drive answers, whatever it ignores, and whatever the poll limit.        *)
(***************************************************************************)
THEOREM AtaInvariance == Spec => []AtaInv
<1>1. AtaIInv /\ [Next]_vars => AtaIInv'
  BY AtaStep
<1>2. AtaIInv => AtaInv
  BY DEF AtaIInv
<1> QED
  BY AtaInit, <1>1, <1>2, PTL DEF Spec

(***************************************************************************)
(* block_read leaves the sectors asked for in the buffer, in order, but    *)
(* for the first one when ata.c has given up an earlier read whose answer  *)
(* is still to come; and a read that succeeds leaves no answer to come.    *)
(***************************************************************************)
THEOREM AtaRightSectors == Spec => []RightSectors
<1>1. AtaIInv /\ [Next]_vars => AtaIInv'
  BY AtaStep
<1>2. AtaIInv => RightSectors
  BY DEF AtaIInv
<1> QED
  BY AtaInit, <1>1, <1>2, PTL DEF Spec

-----------------------------------------------------------------------------
(* Terminal.tla and Printf.tla *)

Lines(Cell) == [0..cols-1 -> Cell]
BlankLine == [x \in 0..cols-1 |-> Blank]

\* s shows the first y + 1 lines of q that come after the first top.
Shows(s, q, y, top) ==
  \A p \in Grid : s[p] = IF p[2] <= y THEN q[top + p[2] + 1][p[1]] ELSE Blank

\* Lines that have left a screen with y lines above its cursor.
Gone(r, y) == r - 1 - y = IF r > rows THEN r - rows ELSE 0

Made(Cell) ==
  /\ Blank \in Cell
  /\ screen \in [Grid -> Cell]
  /\ paper \in Seq(Lines(Cell))

ScreenIInv == ShowsLastLines /\ \E Cell : Made(Cell)

-----------------------------------------------------------------------------

\* put_char's switch moves the cursor to some column, and down one line at
\* most: what starts a new line is at its first column.
LEMMA Moves ==
  ASSUME NEW c, NEW x \in 0..cols-1
  PROVE  /\ Column(c, x) \in Nat
         /\ Down(c, x) \in {0, 1}
<1>0. cols \in Nat \ {0} /\ TAB \in Nat \ {0} /\ x \in Nat
  BY TerminalConstants
<1>1. TabStop(x) \in Nat
  <2>1. (x + TAB) \div TAB \in Nat
    BY <1>0
  <2>2. PICK n \in Nat : n = (x + TAB) \div TAB
    BY <2>1
  <2>3. n * TAB \in Nat
    BY <1>0
  <2> QED
    BY <2>2, <2>3 DEF TabStop
<1>2. Column(c, x) \in Nat
  BY <1>0, <1>1 DEF Column
<1>3. c = "LF" => Column(c, x) = 0
  BY DEF Column
<1> QED
  BY <1>0, <1>2, <1>3 DEF Down

\* A longer list of what the cells may hold is no harm.
LEMMA Wider ==
  ASSUME NEW A, NEW B, A \subseteq B, NEW q \in Seq(Lines(A))
  PROVE  q \in Seq(Lines(B))
<1>1. Lines(A) \subseteq Lines(B)
  BY DEF Lines
<1>2. \A k \in 1..Len(q) : q[k] \in Lines(A)
  OBVIOUS
<1> QED
  BY <1>1, <1>2

\* What feeding a line of paper does, and no line.
LEMMA Fed ==
  ASSUME NEW Cell, Blank \in Cell, NEW q \in Seq(Lines(Cell))
  PROVE  /\ Feed(q, 0) = q
         /\ Feed(q, 1) \in Seq(Lines(Cell))
         /\ Len(Feed(q, 1)) = Len(q) + 1
         /\ \A k \in 1..Len(q) : Feed(q, 1)[k] = q[k]
         /\ Feed(q, 1)[Len(q) + 1] = BlankLine
<1>0. BlankLine \in Lines(Cell)
  BY DEF BlankLine, Lines
<1>1. \A n \in Nat : Feed(q, n) = q \o [j \in 1..n |-> BlankLine]
  BY DEF Feed, BlankLine
<1>2. [j \in 1..0 |-> BlankLine] = <<>>
  OBVIOUS
<1>3. [j \in 1..1 |-> BlankLine] = <<BlankLine>>
  OBVIOUS
<1>4. q \o <<>> = q
  OBVIOUS
<1>5. Feed(q, 1) = q \o <<BlankLine>>
  BY <1>1, <1>3
<1>6. <<BlankLine>> \in Seq(Lines(Cell))
  BY <1>0
<1>7. Feed(q, 0) = q
  <2>1. Feed(q, 0) = q \o [j \in 1..0 |-> BlankLine]
    BY <1>1
  <2> QED
    BY <2>1, <1>2, <1>4
<1> HIDE DEF BlankLine
<1> QED
  BY <1>5, <1>6, <1>7, <1>0, SMTT(30)

-----------------------------------------------------------------------------

\* draw_char, and the same character on the paper.
LEMMA Drawing ==
  ASSUME NEW Old, Made(Old), ShowsLastLines, NEW c, NEW fg
  PROVE  \E Cell :
           /\ Blank \in Cell
           /\ Drawn(c, fg) \in [Grid -> Cell]
           /\ Typed(c, fg) \in Seq(Lines(Cell))
           /\ Len(Typed(c, fg)) = row
           /\ Shows(Drawn(c, fg), Typed(c, fg), cursor_y, row - 1 - cursor_y)
<1> DEFINE new == [ch |-> c, fg |-> fg]
           Cell == Old \cup {new}
           top == row - 1 - cursor_y
<1>0. /\ cols \in Nat \ {0} /\ rows \in Nat \ {0}
      /\ cursor_x \in 0..cols-1 /\ cursor_y \in 0..rows-1
      /\ row = Len(paper) /\ row \in Nat
      /\ top \in Nat
      /\ Shows(screen, paper, cursor_y, top)
  BY TerminalConstants DEF ShowsLastLines, CursorOnScreen, Grid, Made, Shows
<1>1. /\ screen \in [Grid -> Old] /\ paper \in Seq(Lines(Old)) /\ Blank \in Old
  BY DEF Made
<1>2. /\ screen \in [Grid -> Cell] /\ paper \in Seq(Lines(Cell)) /\ Blank \in Cell
  BY <1>1, Wider
<1>3. CASE ~Glyph(c)
  BY <1>0, <1>2, <1>3 DEF Drawn, Typed
<1>4. CASE Glyph(c)
  <2> DEFINE at == <<cursor_x, cursor_y>>
             line == [paper[row] EXCEPT ![cursor_x] = new]
  <2>1. at \in Grid /\ CursorOnScreen
    BY <1>0 DEF CursorOnScreen, Grid
  <2>2. Drawn(c, fg) = [screen EXCEPT ![at] = new]
    BY <1>4, <2>1 DEF Drawn
  <2>3. Typed(c, fg) = [paper EXCEPT ![row] = line]
    BY <1>4, <2>1 DEF Typed
  <2>4. row \in 1..Len(paper) /\ paper[row] \in Lines(Cell)
    BY <1>0, <1>2
  <2>5. /\ line \in Lines(Cell)
        /\ line[cursor_x] = new
        /\ \A x \in 0..cols-1 : x # cursor_x => line[x] = paper[row][x]
    BY <2>4, <1>0 DEF Lines
  <2>6. /\ Typed(c, fg) \in Seq(Lines(Cell)) /\ Len(Typed(c, fg)) = row
        /\ Typed(c, fg)[row] = line
        /\ \A k \in 1..row : k # row => Typed(c, fg)[k] = paper[k]
    <3> HIDE DEF line
    <3> QED BY <2>3, <2>4, <2>5, <1>0, <1>2
  <2>7. /\ Drawn(c, fg) \in [Grid -> Cell]
        /\ Drawn(c, fg)[at] = new
        /\ \A p \in Grid : p # at => Drawn(c, fg)[p] = screen[p]
    <3> HIDE DEF at
    <3> QED BY <2>2, <2>1, <1>2
  <2>8. ASSUME NEW p \in Grid
        PROVE  Drawn(c, fg)[p] =
                 IF p[2] <= cursor_y THEN Typed(c, fg)[top + p[2] + 1][p[1]] ELSE Blank
    <3>1. /\ p = <<p[1], p[2]>> /\ p[1] \in 0..cols-1 /\ p[2] \in 0..rows-1
          /\ screen[p] = IF p[2] <= cursor_y THEN paper[top + p[2] + 1][p[1]] ELSE Blank
      <4>1. p = <<p[1], p[2]>> /\ p[1] \in 0..cols-1 /\ p[2] \in 0..rows-1
        BY DEF Grid
      <4>2. Shows(screen, paper, cursor_y, top)
        BY <1>0
      <4>3. screen[p] = IF p[2] <= cursor_y THEN paper[top + p[2] + 1][p[1]] ELSE Blank
        BY ONLY <4>2, p \in Grid DEF Shows
      <4> QED
        BY <4>1, <4>3
    <3>2. CASE p = at
      <4>1. p[1] = cursor_x /\ p[2] = cursor_y /\ top + p[2] + 1 = row
        BY <3>2, <1>0
      <4>2. Drawn(c, fg)[p] = new
        BY <3>2, <2>7
      <4>3. Typed(c, fg)[row][p[1]] = new
        BY <4>1, <2>5, <2>6
      <4>4. p[2] <= cursor_y
        BY <4>1, <1>0
      <4> QED
        BY <4>1, <4>2, <4>3, <4>4
    <3>3. CASE p # at /\ p[2] = cursor_y
      <4>1. p[1] # cursor_x /\ top + p[2] + 1 = row
        BY <3>1, <3>3, <1>0
      <4>2. Typed(c, fg)[row][p[1]] = paper[row][p[1]]
        BY <4>1, <3>1, <2>5, <2>6
      <4>3. Drawn(c, fg)[p] = screen[p]
        BY <3>3, <2>7
      <4> QED
        BY <4>1, <4>2, <4>3, <3>1, <3>3, <1>0
    <3>4. CASE p[2] # cursor_y
      <4>1. p # at
        BY <3>4
      <4>2. Drawn(c, fg)[p] = screen[p]
        BY <4>1, <2>7
      <4>3. p[2] <= cursor_y => /\ top + p[2] + 1 \in 1..row
                                /\ top + p[2] + 1 # row
        <5>1. \A j \in 0..rows-1 : j <= cursor_y /\ j # cursor_y =>
                top + j + 1 \in 1..row /\ top + j + 1 # row
          BY <1>0
        <5> QED
          BY <5>1, <3>1, <3>4
      <4>4. p[2] <= cursor_y => Typed(c, fg)[top + p[2] + 1] = paper[top + p[2] + 1]
        BY <4>3, <2>6
      <4>5. CASE p[2] <= cursor_y
        <5>1. screen[p] = paper[top + p[2] + 1][p[1]]
          BY <4>5, <3>1
        <5> QED
          BY <5>1, <4>2, <4>4, <4>5
      <4>6. CASE ~(p[2] <= cursor_y)
        BY <4>2, <4>6, <3>1
      <4> QED
        BY <4>5, <4>6
    <3> QED
      BY <3>2, <3>3, <3>4
  <2> QED
    BY <1>2, <2>6, <2>7, <2>8 DEF Shows
<1> QED
  BY <1>3, <1>4

\* A new line that still fits: the cursor moves down to it.
LEMMA Feeding ==
  ASSUME NEW Cell, Blank \in Cell,
         NEW s \in [Grid -> Cell], NEW q \in Seq(Lines(Cell)),
         NEW y \in 0..rows-1, y + 1 < rows, Gone(Len(q), y),
         Shows(s, q, y, Len(q) - 1 - y)
  PROVE  /\ Gone(Len(q) + 1, y + 1)
         /\ Shows(s, Feed(q, 1), y + 1, Len(q) - 1 - y)
<1> DEFINE r == Len(q)
           top == r - 1 - y
<1>0. /\ rows \in Nat \ {0} /\ cols \in Nat \ {0} /\ r \in Nat /\ y \in Nat
      /\ top = IF r > rows THEN r - rows ELSE 0
  BY TerminalConstants DEF Gone
<1>1. Gone(r + 1, y + 1)
  BY <1>0 DEF Gone
<1>2. top = 0 /\ r = y + 1
  BY <1>0
<1>3. ASSUME NEW p \in Grid
      PROVE  s[p] = IF p[2] <= y + 1 THEN Feed(q, 1)[top + p[2] + 1][p[1]] ELSE Blank
  <2>1. /\ p[1] \in 0..cols-1 /\ p[2] \in 0..rows-1
        /\ s[p] = IF p[2] <= y THEN q[top + p[2] + 1][p[1]] ELSE Blank
    BY DEF Grid, Shows
  <2>2. p[2] <= y => Feed(q, 1)[top + p[2] + 1] = q[top + p[2] + 1]
    <3>1. \A k \in 1..r : Feed(q, 1)[k] = q[k]
      BY Fed
    <3>2. \A z \in 0..rows-1 : z <= y => top + z + 1 \in 1..r
      <4> HIDE DEF r, top
      <4> QED BY ONLY <1>0, <1>2
    <3> HIDE DEF r, top
    <3> QED
      BY <2>1, <3>1, <3>2
  <2>3. Feed(q, 1)[r + 1] = BlankLine
    BY Fed
  <2>4. p[2] = y + 1 => Feed(q, 1)[top + p[2] + 1][p[1]] = Blank
    BY <2>1, <2>3, <1>0, <1>2 DEF BlankLine
  <2> QED
    BY <2>1, <2>2, <2>4, <1>0
<1> QED
  BY <1>1, <1>3 DEF Shows

\* A new line below the last: scroll moves the window down by one.
LEMMA Scrolling ==
  ASSUME NEW Cell, Blank \in Cell,
         NEW s \in [Grid -> Cell], NEW q \in Seq(Lines(Cell)),
         Gone(Len(q), rows - 1),
         Shows(s, q, rows - 1, Len(q) - rows)
  PROVE  /\ scroll(s) \in [Grid -> Cell]
         /\ Gone(Len(q) + 1, rows - 1)
         /\ Shows(scroll(s), Feed(q, 1), rows - 1, Len(q) + 1 - rows)
<1> DEFINE r == Len(q)
<1>0. /\ rows \in Nat \ {0} /\ cols \in Nat \ {0} /\ r \in Nat
      /\ r - rows = IF r > rows THEN r - rows ELSE 0
  BY TerminalConstants DEF Gone
<1>1. r >= rows
  BY <1>0
<1>2. Gone(r + 1, rows - 1)
  BY <1>0, <1>1 DEF Gone
<1>3. ASSUME NEW p \in Grid
      PROVE  /\ scroll(s)[p] \in Cell
             /\ scroll(s)[p] = Feed(q, 1)[r + 1 - rows + p[2] + 1][p[1]]
  <2>1. p[1] \in 0..cols-1 /\ p[2] \in 0..rows-1
    BY DEF Grid
  <2>2. scroll(s)[p] = IF p[2] < rows - 1 THEN s[<<p[1], p[2] + 1>>] ELSE Blank
    BY DEF scroll
  <2>3. CASE p[2] < rows - 1
    <3> DEFINE below == <<p[1], p[2] + 1>>
    <3>1. below \in Grid /\ below[1] = p[1] /\ below[2] = p[2] + 1
      BY <2>1, <2>3, <1>0 DEF Grid
    <3>2. s[below] = q[r - rows + (p[2] + 1) + 1][p[1]]
      BY <3>1, <2>1, <2>3, <1>0 DEF Shows
    <3>3. /\ r - rows + (p[2] + 1) + 1 \in 1..r
          /\ r - rows + (p[2] + 1) + 1 = r + 1 - rows + p[2] + 1
      BY <2>1, <2>3, <1>0, <1>1
    <3>4. \A k \in 1..r : Feed(q, 1)[k] = q[k]
      BY Fed
    <3>5. s[below] \in Cell
      BY <3>1
    <3> QED
      BY <3>2, <3>3, <3>4, <3>5, <2>2, <2>3
  <2>4. CASE ~(p[2] < rows - 1)
    <3>1. r + 1 - rows + p[2] + 1 = r + 1
      BY <2>1, <2>4, <1>0
    <3>2. Feed(q, 1)[r + 1] = BlankLine
      BY Fed
    <3>3. BlankLine[p[1]] = Blank
      BY <2>1 DEF BlankLine
    <3> QED
      BY <3>1, <3>2, <3>3, <2>2, <2>4
  <2> QED
    BY <2>3, <2>4
<1>4. scroll(s) \in [Grid -> Cell]
  <2>1. scroll(s) = [p \in Grid |-> scroll(s)[p]]
    BY DEF scroll
  <2> QED
    BY <1>3, <2>1
<1>5. \A p \in Grid : p[2] <= rows - 1
  BY <1>0 DEF Grid
<1> QED
  BY <1>2, <1>3, <1>4, <1>5 DEF Shows

-----------------------------------------------------------------------------

\* One character, whatever it is and wherever the cursor stands.
LEMMA OneCharacter ==
  ASSUME ScreenIInv, NEW c, NEW fg, put_char(c, fg)
  PROVE  ScreenIInv'
<1> DEFINE n == Down(c, cursor_x)
           y == cursor_y + n
           top == row - 1 - cursor_y
<1>0. /\ cols \in Nat \ {0} /\ rows \in Nat \ {0}
      /\ cursor_x \in 0..cols-1 /\ cursor_y \in 0..rows-1
      /\ Gone(row, cursor_y)
  BY TerminalConstants DEF ScreenIInv, ShowsLastLines, CursorOnScreen, Grid, Gone
<1>1. PICK Cell :
        /\ Blank \in Cell
        /\ Drawn(c, fg) \in [Grid -> Cell]
        /\ Typed(c, fg) \in Seq(Lines(Cell))
        /\ Len(Typed(c, fg)) = row
        /\ Shows(Drawn(c, fg), Typed(c, fg), cursor_y, top)
  BY Drawing DEF ScreenIInv
<1> DEFINE s == Drawn(c, fg)
           q == Typed(c, fg)
<1>2. n \in {0, 1} /\ Column(c, cursor_x) \in Nat
  BY <1>0, Moves
<1>3. /\ cursor_x' = IF Column(c, cursor_x) >= cols THEN 0 ELSE Column(c, cursor_x)
      /\ cursor_y' = IF y >= rows THEN rows - 1 ELSE y
      /\ screen' = IF y >= rows THEN scroll(s) ELSE s
      /\ paper' = Feed(q, n)
      /\ row' = row + n
  BY DEF put_char
<1>4. cursor_x' \in 0..cols-1 /\ cursor_y' \in 0..rows-1
  BY <1>0, <1>2, <1>3
<1> HIDE DEF s, q, n
<1>5. /\ Made(Cell)' /\ row' = Len(paper')
      /\ Gone(row', cursor_y')
      /\ Shows(screen', paper', cursor_y', row' - 1 - cursor_y')
  <2>0. row \in Nat
    BY <1>1 DEF q
  <2>1. /\ s \in [Grid -> Cell] /\ q \in Seq(Lines(Cell)) /\ Len(q) = row
        /\ Shows(s, q, cursor_y, top)
    BY <1>1 DEF s, q
  <2>2. CASE n = 0
    <3>1. Feed(q, n) = q
      BY <2>1, <2>2, <1>1, Fed
    <3>2. paper' = q /\ row' = row /\ cursor_y' = cursor_y /\ screen' = s
      BY <3>1, <2>0, <2>2, <1>0, <1>3
    <3> QED
      BY <3>2, <2>1, <1>0, <1>1 DEF Made, Lines, Blank
  <2>3. CASE n = 1 /\ cursor_y + 1 < rows
    <3>1. /\ cursor_y' = cursor_y + 1 /\ screen' = s /\ row' = row + 1
          /\ paper' = Feed(q, 1)
      BY <2>3, <1>0, <1>3
    <3>2. Feed(q, 1) \in Seq(Lines(Cell)) /\ Len(Feed(q, 1)) = row + 1
      BY <2>1, <1>1, Fed
    <3>3. /\ Gone(row + 1, cursor_y + 1)
          /\ Shows(s, Feed(q, 1), cursor_y + 1, top)
      BY <2>1, <2>3, <1>0, <1>1, Feeding
    <3>4. row' - 1 - cursor_y' = top
      BY <3>1, <2>0, <1>0
    <3>5. Made(Cell)'
      BY <3>1, <3>2, <2>1, <1>1 DEF Made, Lines, Blank
    <3> QED
      BY <3>1, <3>2, <3>3, <3>4, <3>5
  <2>4. CASE n = 1 /\ ~(cursor_y + 1 < rows)
    <3>1. /\ cursor_y = rows - 1
          /\ cursor_y' = rows - 1 /\ screen' = scroll(s) /\ row' = row + 1
          /\ paper' = Feed(q, 1)
      BY <2>4, <1>0, <1>3
    <3>2. Feed(q, 1) \in Seq(Lines(Cell)) /\ Len(Feed(q, 1)) = row + 1
      BY <2>1, <1>1, Fed
    <3>3. top = row - rows
      BY <3>1, <2>0, <1>0
    <3>4. /\ scroll(s) \in [Grid -> Cell]
          /\ Gone(row + 1, rows - 1)
          /\ Shows(scroll(s), Feed(q, 1), rows - 1, row + 1 - rows)
      BY <3>1, <3>3, <2>1, <1>0, <1>1, Scrolling
    <3>5. row' - 1 - cursor_y' = row + 1 - rows
      BY <3>1, <2>0, <1>0
    <3>6. Made(Cell)'
      BY <3>1, <3>2, <3>4, <1>1 DEF Made, Lines, Blank
    <3> QED
      BY <3>1, <3>2, <3>4, <3>5, <3>6
  <2> QED
    BY <2>2, <2>3, <2>4, <1>2
<1>6. ShowsLastLines'
  BY <1>4, <1>5 DEF ShowsLastLines, CursorOnScreen, Grid, Gone, Shows
<1> QED
  BY <1>5, <1>6 DEF ScreenIInv

\* The cleared screen, before the first character.
LEMMA Cleared == PrintfInit => ScreenIInv
<1> SUFFICES ASSUME PrintfInit PROVE ScreenIInv
  OBVIOUS
<1> USE DEF PrintfInit, DisplayInit
<1>0. cols \in Nat \ {0} /\ rows \in Nat \ {0}
  BY TerminalConstants
<1>1. CursorOnScreen
  BY <1>0 DEF CursorOnScreen, Grid
<1>2. paper = <<BlankLine>> /\ BlankLine \in Lines({Blank})
  BY DEF BlankLine, Lines
<1>3. Made({Blank}) /\ row = Len(paper)
  <2>1. screen \in [Grid -> {Blank}]
    OBVIOUS
  <2>2. paper \in Seq(Lines({Blank})) /\ Len(paper) = 1
    <3>1. \A l : l \in Lines({Blank}) => <<l>> \in Seq(Lines({Blank})) /\ Len(<<l>>) = 1
      OBVIOUS
    <3> QED
      BY <3>1, <1>2
  <2> QED
    BY <2>1, <2>2 DEF Made
<1>4. \A p \in Grid : screen[p] = IF p[2] <= cursor_y THEN paper[0 + p[2] + 1][p[1]] ELSE Blank
  <2> SUFFICES ASSUME NEW p \in Grid
               PROVE  screen[p] = IF p[2] <= 0 THEN paper[0 + p[2] + 1][p[1]] ELSE Blank
    OBVIOUS
  <2>1. p[1] \in 0..cols-1 /\ p[2] \in 0..rows-1 /\ screen[p] = Blank
    BY DEF Grid
  <2>2. p[2] <= 0 => paper[0 + p[2] + 1] = BlankLine
    BY <2>1, <1>0, <1>2
  <2> QED
    BY <2>1, <2>2 DEF BlankLine
<1>5. row - 1 - cursor_y = 0 /\ ~(row > rows)
  BY <1>0
<1> QED
  BY <1>1, <1>3, <1>4, <1>5 DEF ScreenIInv, ShowsLastLines

(***************************************************************************)
(* Whatever is printed, on a screen of any size: put_char and scroll of    *)
(* fb.c keep the cursor on the screen, and the screen shows the last lines *)
(* of the text; wrapping, tabs, backspaces and scrolling lose no character *)
(* and show none twice.                                                    *)
(***************************************************************************)
THEOREM ScreenShowsLastLines == PrintfSpec => []ShowsLastLines
<1>1. PrintfInit => ScreenIInv
  BY Cleared
<1>2. ScreenIInv /\ [PrintfNext]_printf_vars => ScreenIInv'
  <2> SUFFICES ASSUME ScreenIInv, [PrintfNext]_printf_vars PROVE ScreenIInv'
    OBVIOUS
  <2>1. CASE PutNext
    BY <2>1, OneCharacter DEF PutNext
  <2>2. CASE display' = display
    BY <2>2 DEF display, ScreenIInv, ShowsLastLines, CursorOnScreen, Grid, Made, Lines, Blank
  <2>3. ASSUME NEW f \in Formats, Call(f) PROVE ScreenIInv'
    BY <2>2, <2>3 DEF Call
  <2> QED
    BY <2>1, <2>2, <2>3 DEF PrintfNext, printf_vars
<1>3. ScreenIInv => ShowsLastLines
  BY DEF ScreenIInv
<1> QED
  BY <1>1, <1>2, <1>3, PTL DEF PrintfSpec

-----------------------------------------------------------------------------
(* Counting, and folding a sequence *)

Less == {p \in Nat \X Nat : p[1] < p[2]}

\* The first of some indices: what SelectInSeq returns.
LEMMA First ==
  ASSUME NEW T, T \subseteq Nat, T # {}
  PROVE  Min(T) \in T /\ \A m \in T : Min(T) <= m
<1>1. IsWellFoundedOn(Less, Nat)
  BY NatLessThanWellFounded DEF OpToRel, Less
<1>2. PICK n \in T : \A m \in T : <<m, n>> \notin Less
  BY <1>1, WFMin
<1>3. ASSUME NEW m \in T PROVE n <= m
  <2>1. n \in Nat /\ m \in Nat
    OBVIOUS
  <2>2. ~(m < n)
    BY <1>2, <2>1 DEF Less
  <2> QED
    BY <2>1, <2>2
<1> QED
  BY <1>3 DEF Min

\* Induction over the numbers, and up to a number.
LEMMA Induction ==
  ASSUME NEW G, 0 \in G, \A n \in Nat : n \in G => n + 1 \in G
  PROVE  \A n \in Nat : n \in G
<1> SUFFICES ASSUME Nat \ G # {} PROVE FALSE
  OBVIOUS
<1>1. IsWellFoundedOn(Less, Nat)
  BY NatLessThanWellFounded DEF OpToRel, Less
<1>2. PICK n \in Nat \ G : \A m \in Nat \ G : <<m, n>> \notin Less
  BY <1>1, WFMin
<1>3. n # 0 /\ n - 1 \in Nat /\ n - 1 < n /\ (n - 1) + 1 = n
  BY <1>2
<1>4. n - 1 \in G
  BY <1>2, <1>3 DEF Less
<1> QED
  BY <1>2, <1>3, <1>4

LEMMA Counted ==
  ASSUME NEW n \in Nat, NEW G, 0 \in G, \A k \in 0..n : k \in G /\ k < n => k + 1 \in G
  PROVE  \A k \in 0..n : k \in G
<1> DEFINE H == {k \in Nat : k <= n => k \in G}
<1>1. 0 \in H
  BY ONLY 0 \in G
<1>2. ASSUME NEW k \in Nat, k \in H PROVE k + 1 \in H
  <2>1. k + 1 <= n => k \in 0..n /\ k < n /\ k <= n
    BY ONLY n \in Nat, k \in Nat
  <2> QED
    BY <1>2, <2>1
<1> HIDE DEF H
<1>3. \A k \in Nat : k \in H
  BY <1>1, <1>2, Induction
<1> QED
  BY <1>3 DEF H

\* The largest index of a set, which is the one that MapThenFoldSet takes.
LEMMA LargestIs ==
  ASSUME NEW n \in Nat, NEW s \in SUBSET (1..n), s # {}
  PROVE  Max(s) \in s /\ \A k \in s : k <= Max(s)
<1> DEFINE G == {m \in Nat : \A t \in SUBSET (1..m) :
                   t # {} => \E x \in t : \A k \in t : x >= k}
<1>1. 0 \in G
  <2>1. 1..0 = {}
    OBVIOUS
  <2> QED
    BY <2>1
<1>2. ASSUME NEW m \in Nat, m \in G PROVE m + 1 \in G
  <2> SUFFICES ASSUME NEW t \in SUBSET (1..(m + 1)), t # {}
               PROVE  \E x \in t : \A k \in t : x >= k
    OBVIOUS
  <2>1. CASE m + 1 \in t
    BY <2>1
  <2>2. CASE m + 1 \notin t
    <3>1. t \in SUBSET (1..m)
      BY <2>2
    <3> QED
      BY <1>2, <3>1
  <2> QED
    BY <2>1, <2>2
<1> HIDE DEF G
<1>3. n \in G
  BY <1>1, <1>2, Induction
<1>4. \E x \in s : \A k \in s : x >= k
  BY <1>3 DEF G
<1> QED
  BY <1>4 DEF Max

LEMMA TopIs == ASSUME NEW k \in Nat \ {0} PROVE Max(1..k) = k
<1> PICK x : x = Max(1..k)
  OBVIOUS
<1>1. k \in 1..k /\ 1..k # {} /\ 1..k \in SUBSET (1..k)
  OBVIOUS
<1>2. x \in 1..k /\ \A j \in 1..k : j <= x
  BY <1>1, LargestIs
<1>3. x \in 1..k /\ k <= x
  BY <1>1, <1>2
<1> QED
  BY ONLY <1>3, k \in Nat, x = Max(1..k)

LEMMA UpTo ==
  ASSUME NEW n \in Nat, NEW k \in 1..n
  PROVE  /\ k \in Nat \ {0} /\ k \in 0..n /\ k - 1 \in 0..n
         /\ 1..k # {} /\ 1..k \in SUBSET (1..n) /\ (1..k) \ {k} = 1..(k - 1)
         /\ 1..(k - 1) \in SUBSET (1..n)
<1>1. k \in Nat \ {0} /\ k \in 0..n /\ k - 1 \in 0..n /\ 1..k # {}
  OBVIOUS
<1>2. (1..k) \ {k} = 1..(k - 1)
  OBVIOUS
<1>3. \A j \in 1..k : j \in 1..n
  OBVIOUS
<1>4. \A j \in 1..(k - 1) : j \in 1..n
  OBVIOUS
<1> QED
  BY <1>1, <1>2, <1>3, <1>4

\* What a fold computes for the sets of the first indices.
Folds(F, base, seq, n, it) ==
  \A s \in SUBSET (1..n) :
    it[s] = IF s = {} THEN base ELSE F[it[s \ {Max(s)}]][seq[Max(s)]]

Foldable(A, F, base, seq, n) ==
  \E it \in [SUBSET (1..n) -> A] : Folds(F, base, seq, n, it)

LEMMA FoldExists ==
  ASSUME NEW A, NEW B, NEW F \in [A -> [B -> A]], NEW base \in A, NEW n \in Nat, NEW seq,
         \A k \in 1..n : seq[k] \in B
  PROVE  Foldable(A, F, base, seq, n)
<1> DEFINE G == {m \in Nat : m <= n => Foldable(A, F, base, seq, m)}
<1>1. 0 \in G
  <2>1. SUBSET (1..0) = {{}}
    OBVIOUS
  <2>2. [s \in SUBSET (1..0) |-> base] \in [SUBSET (1..0) -> A]
    OBVIOUS
  <2>3. Folds(F, base, seq, 0, [s \in SUBSET (1..0) |-> base])
    BY <2>1 DEF Folds
  <2> QED
    BY <2>2, <2>3 DEF Foldable
<1>2. ASSUME NEW m \in Nat, m + 1 <= n, Foldable(A, F, base, seq, m)
      PROVE  Foldable(A, F, base, seq, m + 1)
  <2>1. PICK it \in [SUBSET (1..m) -> A] : Folds(F, base, seq, m, it)
    BY <1>2 DEF Foldable
  <2> DEFINE g == [s \in SUBSET (1..(m + 1)) |->
                     IF m + 1 \in s THEN F[it[s \ {m + 1}]][seq[m + 1]] ELSE it[s]]
  <2>2. ASSUME NEW s \in SUBSET (1..(m + 1)), m + 1 \in s
        PROVE  /\ s \ {m + 1} \in SUBSET (1..m) /\ Max(s) = m + 1
               /\ g[s] = F[it[s \ {m + 1}]][seq[m + 1]] /\ g[s] \in A
               /\ g[s \ {m + 1}] = it[s \ {m + 1}]
    <3>1. s \ {m + 1} \in SUBSET (1..m)
      OBVIOUS
    <3>2. Max(s) \in s /\ m + 1 <= Max(s) /\ Max(s) \in 1..(m + 1)
      <4>1. m + 1 \in Nat /\ s # {} /\ s \in SUBSET (1..(m + 1))
        BY <2>2
      <4>2. Max(s) \in s /\ \A k \in s : k <= Max(s)
        BY ONLY <4>1, LargestIs
      <4> QED
        BY <2>2, <4>2
    <3>3. g[s] = F[it[s \ {m + 1}]][seq[m + 1]]
      BY <2>2
    <3>4. it[s \ {m + 1}] \in A /\ seq[m + 1] \in B
      <4>1. m + 1 \in 1..n
        BY ONLY <1>2, n \in Nat
      <4> QED
        BY <3>1, <4>1
    <3>5. g[s \ {m + 1}] = it[s \ {m + 1}]
      OBVIOUS
    <3> HIDE DEF g
    <3>6. Max(s) = m + 1
      <4> PICK x : x = Max(s)
        OBVIOUS
      <4>1. x \in 1..(m + 1) /\ m + 1 <= x
        BY <3>2
      <4>2. x = m + 1
        BY ONLY <4>1, m \in Nat
      <4> QED
        BY <4>2
    <3> QED
      BY <3>1, <3>3, <3>4, <3>5, <3>6
  <2>3. ASSUME NEW s \in SUBSET (1..(m + 1)), m + 1 \notin s
        PROVE  /\ s \in SUBSET (1..m) /\ g[s] = it[s] /\ g[s] \in A
               /\ g[s \ {Max(s)}] = it[s \ {Max(s)}]
    <3>1. s \in SUBSET (1..m)
      <4>1. \A k \in 1..(m + 1) : k # m + 1 => k \in 1..m
        BY ONLY m \in Nat
      <4>2. \A k \in s : k \in 1..(m + 1) /\ k # m + 1
        BY <2>3
      <4> QED
        BY <4>1, <4>2
    <3>2. m + 1 \notin s \ {Max(s)} /\ s \ {Max(s)} \in SUBSET (1..(m + 1))
      BY <2>3
    <3>3. g[s] = it[s] /\ g[s \ {Max(s)}] = it[s \ {Max(s)}]
      BY <2>3, <3>2
    <3> HIDE DEF g
    <3> QED
      BY <3>1, <3>3
  <2>4. g \in [SUBSET (1..(m + 1)) -> A]
    <3>1. \A s \in SUBSET (1..(m + 1)) : g[s] \in A
      BY <2>2, <2>3
    <3> QED
      BY <3>1
  <2>5. Folds(F, base, seq, m + 1, g)
    <3> SUFFICES ASSUME NEW s \in SUBSET (1..(m + 1))
                 PROVE  g[s] = IF s = {} THEN base ELSE F[g[s \ {Max(s)}]][seq[Max(s)]]
      BY DEF Folds
    <3> HIDE DEF g
    <3>1. CASE m + 1 \in s
      BY <2>2, <3>1
    <3>2. CASE m + 1 \notin s
      BY <2>1, <2>3, <3>2 DEF Folds
    <3> QED
      BY <3>1, <3>2
  <2> HIDE DEF g
  <2> QED
    BY <2>4, <2>5 DEF Foldable
<1>3. ASSUME NEW m \in Nat, m \in G PROVE m + 1 \in G
  <2>1. m + 1 <= n => m <= n /\ m + 1 \in Nat
    BY ONLY m \in Nat, n \in Nat
  <2> QED
    BY <1>2, <1>3, <2>1
<1> HIDE DEF G
<1>4. n \in G
  BY <1>1, <1>3, Induction
<1> QED
  BY <1>4 DEF G

\* h is the function that FlattenSeq chooses for the first n of ss.
Flat(ss, h, n) == h = [k \in 1..n |-> IF k = 1 THEN ss[k] ELSE h[k - 1] \o ss[k]]

LEMMA FlatAt ==
  ASSUME NEW ss, NEW h, NEW n \in Nat, Flat(ss, h, n), NEW k \in 1..n
  PROVE  /\ k = 1 => h[k] = ss[k]
         /\ k # 1 => h[k] = h[k - 1] \o ss[k]
<1> DEFINE body(m) == IF m = 1 THEN ss[m] ELSE h[m - 1] \o ss[m]
<1>1. h = [m \in 1..n |-> body(m)]
  BY DEF Flat
<1> HIDE DEF body
<1>2. h[k] = body(k)
  BY <1>1
<1> QED
  BY <1>2 DEF body

LEMMA FlatExists == ASSUME NEW ss, NEW n \in Nat PROVE \E h : Flat(ss, h, n)
<1> DEFINE G == {m \in Nat : \E h : Flat(ss, h, m)}
<1>1. 0 \in G
  <2>1. Flat(ss, [k \in 1..0 |-> 0], 0)
    BY DEF Flat
  <2> QED
    BY <2>1
<1>2. ASSUME NEW m \in Nat, m \in G PROVE m + 1 \in G
  <2>1. PICK h : Flat(ss, h, m)
    BY <1>2
  <2> DEFINE Piece(f, k) == IF k = 1 THEN ss[k] ELSE f[k - 1] \o ss[k]
             g == [k \in 1..(m + 1) |-> IF k = m + 1 THEN Piece(h, k) ELSE h[k]]
  <2>2. ASSUME NEW k \in 1..m PROVE g[k] = h[k] /\ h[k] = Piece(h, k)
    <3>1. k \in 1..(m + 1) /\ k # m + 1
      OBVIOUS
    <3>2. h[k] = Piece(h, k)
      BY <2>1, FlatAt
    <3> HIDE DEF Piece
    <3> QED
      BY <3>1, <3>2
  <2>3. \A k \in 1..(m + 1) : k # 1 => k - 1 \in 1..m
    OBVIOUS
  <2>4. \A k \in 1..(m + 1) : Piece(g, k) = Piece(h, k)
    BY <2>2, <2>3
  <2>5. \A k \in 1..(m + 1) : k = m + 1 \/ k \in 1..m
    OBVIOUS
  <2>6. \A k \in 1..(m + 1) : g[k] = Piece(g, k)
    <3> HIDE DEF Piece
    <3> QED
      BY <2>2, <2>4, <2>5
  <2>7. Flat(ss, g, m + 1)
    <3>1. g = [k \in 1..(m + 1) |-> g[k]]
      OBVIOUS
    <3> HIDE DEF g
    <3> QED
      BY <2>6, <3>1 DEF Flat
  <2> HIDE DEF g
  <2> QED
    BY <2>7
<1> HIDE DEF G
<1>3. n \in G
  BY <1>1, <1>2, Induction
<1> QED
  BY <1>3 DEF G

LEMMA FlatIs ==
  ASSUME NEW ss, Len(ss) \in Nat \ {0}
  PROVE  \E h : Flat(ss, h, Len(ss)) /\ FlattenSeq(ss) = h[Len(ss)]
<1>1. FlattenSeq(ss) = (CHOOSE h : Flat(ss, h, Len(ss)))[Len(ss)]
  BY DEF FlattenSeq, Flat
<1>2. Flat(ss, CHOOSE h : Flat(ss, h, Len(ss)), Len(ss))
  BY FlatExists
<1> QED
  BY <1>1, <1>2

LEMMA Flattened ==
  ASSUME NEW T, NEW ss \in Seq(Seq(T)), NEW s \in Seq(T)
  PROVE  FlattenSeq(ss) \in Seq(T) /\ FlattenSeq(Append(ss, s)) = FlattenSeq(ss) \o s
<1> PICK n : n = Len(ss)
  OBVIOUS
<1> PICK qs : qs = Append(ss, s)
  OBVIOUS
<1>1. /\ n \in Nat /\ Len(qs) = n + 1 /\ qs[n + 1] = s
      /\ \A k \in 1..n : qs[k] = ss[k] /\ ss[k] \in Seq(T)
  OBVIOUS
<1>2. PICK g : Flat(qs, g, n + 1) /\ FlattenSeq(qs) = g[n + 1]
  <2>1. Len(qs) \in Nat \ {0}
    BY <1>1
  <2>2. \E g : Flat(qs, g, Len(qs)) /\ FlattenSeq(qs) = g[Len(qs)]
    BY ONLY <2>1, FlatIs
  <2> QED
    BY <1>1, <2>2
<1>3. CASE n = 0
  <2>0. ss = <<>> /\ Len(ss) = 0
    <3> PICK U : U = Seq(T)
      OBVIOUS
    <3>1. ss \in Seq(U)
      OBVIOUS
    <3> QED
      BY ONLY <1>3, <3>1, n = Len(ss)
  <2>1. ss = <<>> /\ FlattenSeq(ss) = <<>>
    BY ONLY <2>0 DEF FlattenSeq
  <2>2. g[1] = s
    <3>1. 1 \in 1..(n + 1) /\ n + 1 \in Nat /\ n + 1 = 1
      BY <1>3
    <3>2. g[1] = qs[1]
      BY ONLY <1>2, <3>1, FlatAt
    <3> QED
      BY <1>1, <1>3, <3>2
  <2>3. <<>> \o s = s
    OBVIOUS
  <2>4. FlattenSeq(qs) = s /\ <<>> \in Seq(T)
    BY <1>2, <1>3, <2>2
  <2> QED
    BY <2>1, <2>3, <2>4
<1>4. CASE n # 0
  <2>1. PICK h : Flat(ss, h, n) /\ FlattenSeq(ss) = h[n]
    BY <1>1, <1>4, FlatIs
  <2>2. ASSUME NEW k \in 1..n
        PROVE  /\ k = 1 => h[k] = ss[k] /\ g[k] = qs[k]
               /\ k # 1 => h[k] = h[k - 1] \o ss[k] /\ g[k] = g[k - 1] \o qs[k]
    <3>1. n + 1 \in Nat /\ k \in 1..(n + 1) /\ n \in Nat
      BY <1>1
    <3>2. /\ k = 1 => h[k] = ss[k]
          /\ k # 1 => h[k] = h[k - 1] \o ss[k]
      BY ONLY <2>1, <2>2, <3>1, FlatAt
    <3>3. /\ k = 1 => g[k] = qs[k]
          /\ k # 1 => g[k] = g[k - 1] \o qs[k]
      BY ONLY <1>2, <3>1, FlatAt
    <3> QED
      BY <3>2, <3>3
  <2> DEFINE G == {k \in Nat : k \in 1..n => h[k] \in Seq(T) /\ g[k] = h[k]}
  <2>3. 0 \in G
    OBVIOUS
  <2>4. ASSUME NEW k \in Nat, k \in G PROVE k + 1 \in G
    <3> SUFFICES ASSUME k + 1 \in 1..n PROVE h[k + 1] \in Seq(T) /\ g[k + 1] = h[k + 1]
      OBVIOUS
    <3>1. CASE k = 0
      <4>1. k + 1 = 1 /\ 1 \in 1..n
        BY <3>1
      <4>2. h[1] = ss[1] /\ g[1] = qs[1]
        BY <2>2, <4>1
      <4>3. qs[1] = ss[1] /\ ss[1] \in Seq(T)
        BY <1>1, <4>1
      <4> QED
        BY <4>1, <4>2, <4>3
    <3>2. CASE k # 0
      <4>1. k \in 1..n /\ k + 1 # 1 /\ (k + 1) - 1 = k
        BY <3>2
      <4>2. h[k] \in Seq(T) /\ g[k] = h[k]
        BY <2>4, <4>1
      <4>3. /\ h[k + 1] = h[k] \o ss[k + 1] /\ g[k + 1] = g[k] \o qs[k + 1]
            /\ qs[k + 1] = ss[k + 1] /\ ss[k + 1] \in Seq(T)
        BY <1>1, <2>2, <4>1
      <4>4. \A p, q \in Seq(T) : p \o q \in Seq(T)
        OBVIOUS
      <4> QED
        BY <4>2, <4>3, <4>4
    <3> QED
      BY <3>1, <3>2
  <2> HIDE DEF G
  <2>5. n \in G
    BY <1>1, <2>3, <2>4, Induction
  <2>6. h[n] \in Seq(T) /\ g[n] = h[n]
    BY <1>1, <1>4, <2>5 DEF G
  <2>7. g[n + 1] = g[n] \o s
    <3>1. n + 1 \in Nat /\ n + 1 \in 1..(n + 1) /\ n + 1 # 1 /\ (n + 1) - 1 = n
      BY <1>1, <1>4
    <3>2. g[n + 1] = g[(n + 1) - 1] \o qs[n + 1]
      BY ONLY <1>2, <3>1, FlatAt
    <3> QED
      BY <1>1, <3>1, <3>2
  <2> QED
    BY <1>2, <2>1, <2>6, <2>7
<1> QED
  BY <1>1, <1>3, <1>4

-----------------------------------------------------------------------------
(* Numbers of Printf.tla: print_num_to_buf *)

Bases == {10, 16}
Ints == MinInt..MaxInt

\* One more than the largest int is as far from zero as an int is.
Within(m) == {v \in Ints : -m <= v /\ v <= m}

LEMMA WithinInt ==
  /\ MaxInt \in Nat /\ MinInt \in Int /\ Ints \subseteq Int /\ 0 \in Ints
  /\ Within(0) = {0} /\ Within(MaxInt + 1) = Ints
<1>1. MaxInt \in Nat
  BY PrintfConstants
<1> QED
  BY <1>1 DEF Ints, Within, MinInt

\* A division brings a number nearer to zero, and leaves a digit.
LEMMA Divided ==
  ASSUME NEW base \in Bases, NEW v \in Ints, v # 0
  PROVE  /\ Quotient(v, base) \in Ints
         /\ \A m \in Nat : v \in Within(m + 1) => Quotient(v, base) \in Within(m)
         /\ Remainder(v, base) \in 1-base..base-1
         /\ v = base * Quotient(v, base) + Remainder(v, base)
         /\ v > 0 => Quotient(v, base) >= 0 /\ Remainder(v, base) \in 0..base-1
<1>1. v \in Int /\ MaxInt \in Nat
  BY WithinInt
<1>2. CASE v > 0
  <2>1. PICK q, r : q = v \div base /\ r = v % base
    OBVIOUS
  <2>2. q \in Int /\ r \in 0..base-1 /\ v = base * q + r
    BY <1>1, <2>1 DEF Bases
  <2>3. 0 <= q /\ q < v
    BY <1>1, <1>2, <2>2 DEF Bases
  <2>4. Quotient(v, base) = q /\ Remainder(v, base) = r
    <3>1. Quotient(v, base) = q
      BY <1>2, <2>1, <1>1 DEF Quotient
    <3>2. base * q \in Int
      BY <2>2 DEF Bases
    <3> QED
      BY <3>1, <3>2, <2>2 DEF Remainder
  <2>5. q \in Ints /\ \A m \in Nat : v \in Within(m + 1) => q \in Within(m)
    BY <1>1, <2>2, <2>3 DEF Ints, Within, MinInt
  <2> QED
    BY <2>2, <2>3, <2>4, <2>5 DEF Bases
<1>3. CASE v < 0
  <2>1. PICK q, r : q = (-v) \div base /\ r = (-v) % base
    OBVIOUS
  <2>2. q \in Int /\ r \in 0..base-1 /\ -v = base * q + r
    BY <1>1, <2>1 DEF Bases
  <2>3. 0 <= q /\ q < -v
    BY <1>1, <1>3, <2>2 DEF Bases
  <2>4. Quotient(v, base) = -q /\ Remainder(v, base) = -r /\ v = base * (-q) + (-r)
    <3>1. Quotient(v, base) = -q
      BY <1>3, <2>1, <1>1 DEF Quotient
    <3>2. base * (-q) \in Int /\ v = base * (-q) + (-r)
      BY <2>2, <1>1 DEF Bases
    <3> QED
      BY <3>1, <3>2, <2>2 DEF Remainder
  <2>5. -q \in Ints /\ \A m \in Nat : v \in Within(m + 1) => -q \in Within(m)
    BY <1>1, <1>3, <2>2, <2>3 DEF Ints, Within, MinInt
  <2>6. -r \in 1-base..base-1
    BY <2>2 DEF Bases
  <2> QED
    BY <1>3, <2>4, <2>5, <2>6, <1>1
<1> QED
  BY <1>1, <1>2, <1>3

LEMMA NumeralsAre ==
  /\ Numerals[1] = "0" /\ Numerals[2] = "1" /\ Numerals[3] = "2" /\ Numerals[4] = "3"
  /\ Numerals[5] = "4" /\ Numerals[6] = "5" /\ Numerals[7] = "6" /\ Numerals[8] = "7"
  /\ Numerals[9] = "8" /\ Numerals[10] = "9" /\ Numerals[11] = "A" /\ Numerals[12] = "B"
  /\ Numerals[13] = "C" /\ Numerals[14] = "D" /\ Numerals[15] = "E" /\ Numerals[16] = "F"
  /\ Len(Numerals) = 16
  BY DEF Numerals

\* The characters of a message.  (They are strings all, which the provers do
\* not know of a literal.)
Chars == STRING \cup {Numerals[k] : k \in 1..16} \cup {BeforeZero[k] : k \in 1..15}
         \cup {"-", "0", "%"}

LEMMA DigitCharIs ==
  /\ \A d \in -15..15 : DigitChar(d) \in Chars
  /\ \A d \in 0..15 : DigitChar(d) = Numerals[d + 1]
<1>1. ASSUME NEW d \in 0..15 PROVE DigitChar(d) = Numerals[d + 1] /\ d + 1 \in 1..16
  BY DEF DigitChar
<1>2. ASSUME NEW d \in -15..15, d < 0 PROVE DigitChar(d) = BeforeZero[-d] /\ -d \in 1..15
  BY <1>2 DEF DigitChar
<1>3. \A d \in -15..15 : d < 0 \/ d \in 0..15
  OBVIOUS
<1> QED
  BY <1>1, <1>2, <1>3 DEF Chars

\* The function that Digits chooses, on the ints of some set.
Writes(h, base, D) ==
  h = [v \in D |-> IF v = 0 THEN <<>>
                   ELSE Append(h[Quotient(v, base)], DigitChar(Remainder(v, base)))]

LEMMA WritesAt ==
  ASSUME NEW base, NEW D, NEW h, Writes(h, base, D), NEW v \in D
  PROVE  h[v] = IF v = 0 THEN <<>>
                ELSE Append(h[Quotient(v, base)], DigitChar(Remainder(v, base)))
<1> DEFINE body(w) == IF w = 0 THEN <<>>
                      ELSE Append(h[Quotient(w, base)], DigitChar(Remainder(w, base)))
<1>1. h = [w \in D |-> body(w)]
  BY DEF Writes
<1> HIDE DEF body
<1>2. h[v] = body(v)
  BY <1>1
<1> QED
  BY <1>2 DEF body

LEMMA WritesExists == ASSUME NEW base \in Bases PROVE \E h : Writes(h, base, Ints)
<1> DEFINE G == {m \in Nat : \E h : Writes(h, base, Within(m))}
<1>1. 0 \in G
  <2>1. Writes([v \in {0} |-> <<>>], base, {0})
    BY DEF Writes
  <2> QED
    BY <2>1, WithinInt
<1>2. ASSUME NEW m \in Nat, m \in G PROVE m + 1 \in G
  <2>1. PICK h : Writes(h, base, Within(m))
    BY <1>2
  <2> DEFINE Next1(f, v) == IF v = 0 THEN <<>>
                            ELSE Append(f[Quotient(v, base)], DigitChar(Remainder(v, base)))
             g == [v \in Within(m + 1) |-> IF v \in Within(m) THEN h[v] ELSE Next1(h, v)]
  <2>2. Within(m) \subseteq Within(m + 1) /\ Within(m + 1) \subseteq Ints
    <3>1. \A v \in Int : -m <= v /\ v <= m => -(m + 1) <= v /\ v <= m + 1
      OBVIOUS
    <3> QED
      BY <3>1, WithinInt DEF Within
  <2>3. \A v \in Within(m) : g[v] = h[v]
    BY <2>2
  <2>4. ASSUME NEW v \in Within(m + 1) PROVE Next1(g, v) = Next1(h, v)
    <3>1. CASE v = 0
      BY <3>1
    <3>2. CASE v # 0
      <4>1. Quotient(v, base) \in Within(m)
        BY <2>2, <3>2, Divided
      <4> HIDE DEF g
      <4> QED
        BY <2>3, <4>1
    <3> QED
      BY <3>1, <3>2
  <2>5. \A v \in Within(m) : h[v] = Next1(h, v)
    BY <2>1, WritesAt
  <2> HIDE DEF Next1
  <2>6. \A v \in Within(m + 1) : g[v] = Next1(h, v)
    BY <2>5
  <2>7. g = [v \in Within(m + 1) |-> g[v]]
    OBVIOUS
  <2> HIDE DEF g
  <2>8. g = [v \in Within(m + 1) |-> Next1(g, v)]
    BY <2>4, <2>6, <2>7
  <2>9. Writes(g, base, Within(m + 1))
    BY <2>8 DEF Writes, Next1
  <2> QED
    BY <2>9
<1> HIDE DEF G
<1>3. MaxInt + 1 \in Nat /\ MaxInt + 1 \in G
  BY <1>1, <1>2, Induction, WithinInt
<1> QED
  BY <1>3, WithinInt DEF G

\* The digits of an int are those of its quotient, and one for its remainder.
LEMMA DigitsAre ==
  ASSUME NEW base \in Bases, NEW v \in Ints
  PROVE  Digits(v, base) = IF v = 0 THEN <<>>
                           ELSE Append(Digits(Quotient(v, base), base),
                                       DigitChar(Remainder(v, base)))
<1> PICK h : h = CHOOSE g : Writes(g, base, Ints)
  OBVIOUS
<1>1. Writes(h, base, Ints)
  BY WritesExists
<1>2. \A w : Digits(w, base) = h[w]
  BY DEF Digits, Writes, Ints
<1>3. h[v] = IF v = 0 THEN <<>>
             ELSE Append(h[Quotient(v, base)], DigitChar(Remainder(v, base)))
  BY <1>1, WritesAt
<1> QED
  BY <1>2, <1>3

LEMMA DigitsTyped ==
  ASSUME NEW base \in Bases
  PROVE  \A v \in Ints : Digits(v, base) \in Seq(Chars)
<1> DEFINE G == {m \in Nat : \A v \in Within(m) : Digits(v, base) \in Seq(Chars)}
<1>1. 0 \in G
  <2>1. Digits(0, base) = <<>>
    BY DigitsAre, WithinInt
  <2>2. <<>> \in Seq(Chars)
    OBVIOUS
  <2> QED
    BY <2>1, <2>2, WithinInt
<1>2. ASSUME NEW m \in Nat, m \in G PROVE m + 1 \in G
  <2> SUFFICES ASSUME NEW v \in Within(m + 1) PROVE Digits(v, base) \in Seq(Chars)
    OBVIOUS
  <2>1. v \in Ints
    BY DEF Within
  <2>2. CASE v = 0
    <3>1. Digits(v, base) = <<>>
      BY <2>1, <2>2, DigitsAre
    <3> QED
      BY <3>1
  <2>3. CASE v # 0
    <3>1. Quotient(v, base) \in Within(m) /\ Remainder(v, base) \in 1-base..base-1
      BY <2>1, <2>3, Divided
    <3>2. Digits(Quotient(v, base), base) \in Seq(Chars)
      BY <1>2, <3>1
    <3>3. DigitChar(Remainder(v, base)) \in Chars
      <4>1. Remainder(v, base) \in -15..15
        BY <3>1 DEF Bases
      <4> QED
        BY <4>1, DigitCharIs
    <3>4. \A T : \A s \in Seq(T), c \in T : Append(s, c) \in Seq(T)
      OBVIOUS
    <3>5. Digits(v, base) = Append(Digits(Quotient(v, base), base), DigitChar(Remainder(v, base)))
      BY <2>1, <2>3, DigitsAre
    <3> QED
      BY <3>2, <3>3, <3>4, <3>5
  <2> QED
    BY <2>2, <2>3
<1> HIDE DEF G
<1>3. MaxInt + 1 \in G
  BY <1>1, <1>2, Induction, WithinInt
<1> QED
  BY <1>3, WithinInt DEF G

-----------------------------------------------------------------------------
(* Reading a numeral *)

LEMMA DigitValueIs ==
  /\ \A c : DigitValue(c) \in Int
  /\ \A d \in 0..15 : DigitValue(Numerals[d + 1]) = d
<1> DEFINE I(c) == {k \in 1..Len(Numerals) : Numerals[k] = c}
<1>1. \A c : DigitValue(c) = (IF I(c) # {} THEN Min(I(c)) ELSE 0) - 1
  BY DEF DigitValue, SelectInSeq
<1>2. Len(Numerals) = 16
  BY NumeralsAre
<1>3. ASSUME NEW c PROVE DigitValue(c) \in Int
  <2>1. I(c) \subseteq Nat
    BY <1>2
  <2>2. I(c) # {} => Min(I(c)) \in Nat
    <3> HIDE DEF I
    <3> QED BY <2>1, First
  <2> HIDE DEF I
  <2> QED
    BY <1>1, <2>2
<1>4. ASSUME NEW d \in 0..15 PROVE DigitValue(Numerals[d + 1]) = d
  <2>1. \A k, l \in 1..16 : Numerals[k] = Numerals[l] => k = l
    <3>1. ASSUME NEW k \in 1..16
          PROVE  \/ k = 1 \/ k = 2 \/ k = 3 \/ k = 4 \/ k = 5 \/ k = 6 \/ k = 7 \/ k = 8
                 \/ k = 9 \/ k = 10 \/ k = 11 \/ k = 12 \/ k = 13 \/ k = 14 \/ k = 15
                 \/ k = 16
      OBVIOUS
    <3> QED
      BY <3>1, NumeralsAre
  <2>2. d + 1 \in 1..16
    OBVIOUS
  <2>3. I(Numerals[d + 1]) = {d + 1}
    BY <1>2, <2>1, <2>2
  <2>4. Min({d + 1}) = d + 1
    <3>1. {d + 1} \subseteq Nat /\ {d + 1} # {}
      OBVIOUS
    <3> QED
      BY ONLY <3>1, First
  <2>5. DigitValue(Numerals[d + 1]) = Min({d + 1}) - 1
    <3> HIDE DEF I
    <3> QED BY <1>1, <2>3
  <2> QED
    BY <2>4, <2>5
<1> QED
  BY <1>3, <1>4

LEMMA ReadTyped ==
  ASSUME NEW base \in Bases, NEW a \in Int, NEW c
  PROVE  base * a + DigitValue(c) \in Int
<1>1. base * a \in Int /\ DigitValue(c) \in Int
  BY DigitValueIs DEF Bases
<1> QED
  BY <1>1

\* What a numeral is read as, digit by digit.
LEMMA ReadIs ==
  ASSUME NEW base \in Bases, NEW digits \in Seq(Chars)
  PROVE  \E w \in [0..Len(digits) -> Int] :
           /\ w[0] = 0
           /\ \A k \in 1..Len(digits) : w[k] = base * w[k - 1] + DigitValue(digits[k])
           /\ ReadBack(digits, base) = w[Len(digits)]
<1> DEFINE n == Len(digits)
           F == [a \in Int |-> [b \in Chars |-> base * a + DigitValue(b)]]
           Body(h, s) == IF s = {} THEN 0
                         ELSE base * h[s \ {Max(s)}] + DigitValue(digits[Max(s)])
           Iter(h) == h = [s \in SUBSET DOMAIN digits |-> Body(h, s)]
<1>0. n \in Nat /\ DOMAIN digits = 1..n /\ \A k \in 1..n : digits[k] \in Chars
  OBVIOUS
<1>1. ReadBack(digits, base) = (CHOOSE h : Iter(h))[DOMAIN digits]
  BY DEF ReadBack, FoldLeft, MapThenFoldSet
<1>2. \E h : Iter(h)
  <2>1. F \in [Int -> [Chars -> Int]]
    BY ReadTyped
  <2>2. 0 \in Int
    OBVIOUS
  <2> HIDE DEF F
  <2>3. PICK h \in [SUBSET (1..n) -> Int] : Folds(F, 0, digits, n, h)
    <3> PICK fn, L, C, r : fn = F /\ L = Int /\ C = Chars /\ r = 0
      OBVIOUS
    <3>1. fn \in [L -> [C -> L]] /\ r \in L /\ \A k \in 1..n : digits[k] \in C
      BY <1>0, <2>1, <2>2
    <3>2. Foldable(L, fn, r, digits, n)
      <4> HIDE DEF n
      <4> QED BY ONLY <1>0, <3>1, FoldExists
    <3> QED
      BY <3>2 DEF Foldable
  <2>4. ASSUME NEW s \in SUBSET (1..n) PROVE h[s] = Body(h, s)
    <3>1. CASE s = {}
      BY <2>3, <3>1 DEF Folds
    <3>2. CASE s # {}
      <4>1. Max(s) \in 1..n
        BY <1>0, <3>2, LargestIs
      <4>2. h[s \ {Max(s)}] \in Int /\ digits[Max(s)] \in Chars
        BY <1>0, <4>1
      <4>3. F[h[s \ {Max(s)}]][digits[Max(s)]] = base * h[s \ {Max(s)}] + DigitValue(digits[Max(s)])
        BY <4>2 DEF F
      <4> QED
        BY <2>3, <3>2, <4>3 DEF Folds
    <3> QED
      BY <3>1, <3>2
  <2> HIDE DEF Body, n
  <2>5. h = [s \in SUBSET (1..n) |-> Body(h, s)]
    BY <2>4
  <2> QED
    BY <1>0, <2>5
<1> PICK h : h = CHOOSE g : Iter(g)
  OBVIOUS
<1>3. h = [s \in SUBSET (1..n) |-> Body(h, s)]
  <2>1. Iter(h)
    BY <1>2
  <2> QED
    BY <1>0, <2>1
<1>4. ASSUME NEW s \in SUBSET (1..n) PROVE h[s] = Body(h, s)
  <2> HIDE DEF Body
  <2> QED
    BY <1>3
<1> DEFINE v == [k \in 0..n |-> h[1..k]]
<1>5. v[0] = 0
  <2>1. 0 \in 0..n /\ 1..0 = {} /\ 1..0 \in SUBSET (1..n)
    BY <1>0
  <2> HIDE DEF n
  <2> QED
    BY <1>4, <2>1
<1>6. ASSUME NEW k \in 1..n PROVE v[k] = base * v[k - 1] + DigitValue(digits[k])
  <2>1. /\ k \in Nat \ {0} /\ k \in 0..n /\ k - 1 \in 0..n
        /\ 1..k # {} /\ 1..k \in SUBSET (1..n) /\ (1..k) \ {k} = 1..(k - 1)
    <3> HIDE DEF n
    <3> QED BY ONLY <1>0, UpTo, k \in 1..n
  <2>2. Max(1..k) = k
    BY <2>1, TopIs
  <2> HIDE DEF n
  <2>3. h[1..k] = base * h[1..(k - 1)] + DigitValue(digits[k])
    BY <1>4, <2>1, <2>2
  <2> QED
    BY <2>1, <2>3
<1>7. \A k \in 0..n : v[k] \in Int
  <2> DEFINE G == {k \in 0..n : v[k] \in Int}
  <2>1. 0 \in G
    <3>1. 0 \in Int /\ 0 \in 0..n
      BY <1>0
    <3> HIDE DEF v, n
    <3> QED BY <1>5, <3>1
  <2>2. ASSUME NEW k \in 0..n, k \in G, k < n PROVE k + 1 \in G
    <3>1. k + 1 \in 1..n /\ k + 1 \in 0..n /\ (k + 1) - 1 = k
      BY <1>0, <2>2
    <3>2. v[k + 1] = base * v[k] + DigitValue(digits[k + 1])
      BY <1>6, <3>1
    <3> HIDE DEF v, n
    <3> QED
      BY <1>0, <2>2, <3>1, <3>2, ReadTyped
  <2> HIDE DEF G, n
  <2>3. \A k \in 0..n : k \in G
    BY <1>0, <2>1, <2>2, Counted
  <2> QED
    BY <2>3 DEF G
<1>8. v \in [0..n -> Int]
  BY <1>7
<1>9. ReadBack(digits, base) = v[n]
  BY <1>0, <1>1
<1> HIDE DEF v
<1> QED
  BY <1>5, <1>6, <1>8, <1>9

LEMMA ReadDigit ==
  ASSUME NEW base \in Bases, NEW digits \in Seq(Chars), NEW c \in Chars
  PROVE  /\ ReadBack(digits, base) \in Int
         /\ ReadBack(Append(digits, c), base) = base * ReadBack(digits, base) + DigitValue(c)
<1> PICK more : more = Append(digits, c)
  OBVIOUS
<1> PICK n : n = Len(digits)
  OBVIOUS
<1>1. /\ more \in Seq(Chars) /\ n \in Nat /\ Len(more) = n + 1 /\ more[n + 1] = c
      /\ \A k \in 1..n : more[k] = digits[k]
  OBVIOUS
<1>2. PICK w \in [0..n -> Int] :
        /\ w[0] = 0
        /\ \A k \in 1..n : w[k] = base * w[k - 1] + DigitValue(digits[k])
        /\ ReadBack(digits, base) = w[n]
  BY ReadIs
<1>3. PICK u \in [0..n + 1 -> Int] :
        /\ u[0] = 0
        /\ \A k \in 1..n + 1 : u[k] = base * u[k - 1] + DigitValue(more[k])
        /\ ReadBack(more, base) = u[n + 1]
  <2>1. \E u \in [0..Len(more) -> Int] :
           /\ u[0] = 0
           /\ \A k \in 1..Len(more) : u[k] = base * u[k - 1] + DigitValue(more[k])
           /\ ReadBack(more, base) = u[Len(more)]
    BY <1>1, ReadIs
  <2> QED
    BY <1>1, <2>1
<1> DEFINE G == {k \in Nat : u[k] = w[k]}
<1>4. \A k \in 0..n : k \in G
  <2>1. 0 \in G
    BY <1>2, <1>3
  <2>2. ASSUME NEW k \in 0..n, k \in G, k < n PROVE k + 1 \in G
    <3>1. k + 1 \in 1..n /\ k + 1 \in 1..n+1 /\ (k + 1) - 1 = k /\ k + 1 \in Nat
      BY <1>1, <2>2
    <3>2. w[k + 1] = base * w[k] + DigitValue(digits[k + 1])
      BY <1>2, <3>1
    <3>3. u[k + 1] = base * u[k] + DigitValue(more[k + 1])
      BY <1>3, <3>1
    <3> QED
      BY <1>1, <2>2, <3>1, <3>2, <3>3
  <2> HIDE DEF G
  <2> QED
    BY <1>1, <2>1, <2>2, Counted
<1>5. u[n] = w[n] /\ w[n] \in Int
  BY <1>1, <1>4
<1>6. u[n + 1] = base * u[n] + DigitValue(c)
  <2>1. n + 1 \in 1..n+1 /\ (n + 1) - 1 = n
    BY <1>1
  <2>2. u[n + 1] = base * u[(n + 1) - 1] + DigitValue(more[n + 1])
    BY <1>3, <2>1
  <2> QED
    BY <1>1, <2>1, <2>2
<1> QED
  BY <1>2, <1>3, <1>5, <1>6

LEMMA ReadNothing == ASSUME NEW base \in Bases PROVE ReadBack(<<>>, base) = 0
<1> PICK e : e = <<>>
  OBVIOUS
<1>1. e \in Seq(Chars) /\ Len(e) = 0
  OBVIOUS
<1>2. \E w \in [0..Len(e) -> Int] :
         /\ w[0] = 0
         /\ \A k \in 1..Len(e) : w[k] = base * w[k - 1] + DigitValue(e[k])
         /\ ReadBack(e, base) = w[Len(e)]
  BY <1>1, ReadIs
<1> QED
  BY <1>1, <1>2

-----------------------------------------------------------------------------
(* What is written is read back *)

\* A numeral of a positive number, with its first digit.
Positive(s, v, base) ==
  /\ s \in Seq(Chars) /\ s # <<>> /\ s[1] # "0"
  /\ \A k \in DOMAIN s : DigitValue(s[k]) \in 0..(base - 1)
  /\ ReadBack(s, base) = v

LEMMA OneMoreDigit ==
  ASSUME NEW base \in Bases, NEW v \in Ints, v > 0,
         Quotient(v, base) > 0 =>
           Positive(Digits(Quotient(v, base), base), Quotient(v, base), base)
  PROVE  Positive(Digits(v, base), v, base)
<1> PICK q, r : q = Quotient(v, base) /\ r = Remainder(v, base)
  OBVIOUS
<1>0. v \in Int /\ v # 0
  BY WithinInt
<1>1. q \in Ints /\ q \in Int /\ r \in 0..base-1 /\ v = base * q + r /\ q >= 0
  <2>1. q \in Ints /\ r \in 0..base-1 /\ v = base * q + r /\ q >= 0
    BY <1>0, Divided
  <2> QED
    BY <2>1, WithinInt
<1> PICK s, t, c : s = Digits(q, base) /\ c = DigitChar(r) /\ t = Append(s, c)
  OBVIOUS
<1>2. Digits(v, base) = t
  BY <1>0, DigitsAre
<1>3. s \in Seq(Chars) /\ c \in Chars
  <2>0. r \in 0..base-1
    BY <1>1
  <2>1. r \in -15..15
    BY ONLY <2>0, base \in Bases DEF Bases
  <2> QED
    BY <1>1, <2>1, DigitsTyped, DigitCharIs
<1>4. c = Numerals[r + 1] /\ DigitValue(c) = r
  <2>0. r \in 0..base-1
    BY <1>1
  <2>1. r \in 0..15
    BY ONLY <2>0, base \in Bases DEF Bases
  <2> QED
    BY <2>1, DigitCharIs, DigitValueIs
<1>5. t \in Seq(Chars) /\ t # <<>> /\ Len(t) = Len(s) + 1 /\ t[Len(s) + 1] = c
      /\ Len(s) \in Nat /\ \A k \in 1..Len(s) : t[k] = s[k]
  BY <1>3
<1>6. ReadBack(t, base) = base * ReadBack(s, base) + r
  BY <1>3, <1>4, ReadDigit
<1>7. CASE q > 0
  <2>1. Positive(s, q, base)
    BY <1>7
  <2>2. Len(s) >= 1 /\ s[1] # "0" /\ \A k \in 1..Len(s) : DigitValue(s[k]) \in 0..(base - 1)
    BY <2>1, <1>3 DEF Positive
  <2>3. t[1] # "0"
    BY <1>5, <2>2
  <2>4. ASSUME NEW k \in DOMAIN t PROVE DigitValue(t[k]) \in 0..(base - 1)
    <3>1. k \in 1..Len(s) \/ k = Len(s) + 1
      BY <1>5
    <3> QED
      BY <1>1, <1>4, <1>5, <2>2, <3>1
  <2>5. ReadBack(t, base) = v
    BY <1>1, <1>6, <2>1 DEF Positive
  <2> QED
    BY <1>2, <1>5, <2>3, <2>4, <2>5 DEF Positive
<1>8. CASE ~(q > 0)
  <2>1. q = 0 /\ r = v
    BY <1>0, <1>1, <1>8 DEF Bases
  <2>2. s = <<>>
    BY <2>1, <1>1, DigitsAre
  <2>3. Len(s) = 0 /\ ReadBack(s, base) = 0
    BY <2>2, ReadNothing
  <2>4. t[1] = c
    BY <1>5, <2>3
  <2>5. c # "0"
    <3>1. DigitValue("0") = 0
      <4>1. Numerals[0 + 1] = "0" /\ 0 \in 0..15
        BY NumeralsAre
      <4> QED
        BY ONLY <4>1, DigitValueIs
    <3>2. r # 0
      BY <2>1
    <3> QED
      BY <1>4, <3>1, <3>2
  <2>6. \A k \in DOMAIN t : DigitValue(t[k]) \in 0..(base - 1)
    <3>1. \A k \in DOMAIN t : k = 1
      BY <1>5, <2>3
    <3> QED
      BY <1>1, <1>4, <2>4, <3>1
  <2>7. ReadBack(t, base) = v
    BY <1>1, <1>6, <2>1, <2>3 DEF Bases
  <2> QED
    BY <1>2, <1>5, <2>4, <2>5, <2>6, <2>7 DEF Positive
<1> QED
  BY <1>7, <1>8

LEMMA PositiveNumbers ==
  ASSUME NEW base \in Bases
  PROVE  \A v \in Ints : v > 0 => Positive(Digits(v, base), v, base)
<1> DEFINE G == {m \in Nat : \A v \in Within(m) : v > 0 => Positive(Digits(v, base), v, base)}
<1>1. 0 \in G
  BY WithinInt
<1>2. ASSUME NEW m \in Nat, m \in G PROVE m + 1 \in G
  <2> SUFFICES ASSUME NEW v \in Within(m + 1), v > 0 PROVE Positive(Digits(v, base), v, base)
    OBVIOUS
  <2>1. v \in Ints /\ v # 0
    BY DEF Within
  <2>2. Quotient(v, base) \in Within(m)
    BY <2>1, Divided
  <2> QED
    BY <1>2, <2>1, <2>2, OneMoreDigit
<1> HIDE DEF G
<1>3. MaxInt + 1 \in G
  BY <1>1, <1>2, Induction, WithinInt
<1> QED
  BY <1>3, WithinInt DEF G

LEMMA NumIs ==
  ASSUME NEW v \in Ints, NEW base \in Bases
  PROVE  /\ Num(v, base) \in Seq(Chars)
         /\ v >= 0 => Numeral(Num(v, base), v, base)
         /\ v < 0 /\ base = 10 =>
              /\ Num(v, base)[1] = "-"
              /\ v # MinInt => Numeral(Tail(Num(v, base)), -v, base)
<1>0. v \in Int /\ MinInt \in Int /\ MaxInt \in Nat /\ Ints = MinInt..MaxInt
  BY WithinInt DEF Ints
<1>1. ASSUME NEW u \in Ints, u > 0
      PROVE  Numeral(Digits(u, base), u, base)
  BY <1>1, PositiveNumbers DEF Positive, Numeral
<1>2. CASE v = 0
  <2>1. Num(v, base) = <<"0">>
    BY <1>2 DEF Num
  <2>2. "0" \in Chars /\ <<"0">> \in Seq(Chars) /\ <<>> \in Seq(Chars) /\ <<"0">> = Append(<<>>, "0")
    BY DEF Chars
  <2>3. DigitValue("0") = 0
    <3>1. Numerals[0 + 1] = "0" /\ 0 \in 0..15
      BY NumeralsAre
    <3> QED
      BY ONLY <3>1, DigitValueIs
  <2>4. ReadBack(<<"0">>, base) = 0
    <3>1. ReadBack(Append(<<>>, "0"), base) = base * ReadBack(<<>>, base) + DigitValue("0")
      BY ONLY <2>2, ReadDigit, base \in Bases
    <3>2. ReadBack(<<>>, base) = 0 /\ base * 0 = 0
      BY ReadNothing DEF Bases
    <3> QED
      BY <2>2, <2>3, <3>1, <3>2
  <2>5. 0 \in 0..(base - 1)
    BY DEF Bases
  <2>6. Numeral(<<"0">>, 0, base)
    BY <2>3, <2>4, <2>5 DEF Numeral
  <2> QED
    BY <1>0, <1>2, <2>1, <2>2, <2>6
<1>3. CASE v > 0
  <2>1. Num(v, base) = Digits(v, base)
    BY <1>0, <1>3 DEF Num
  <2> QED
    BY <1>0, <1>1, <1>3, <2>1, DigitsTyped
<1>4. CASE v < 0 /\ base = 10
  <2>1. Negated(v) \in Ints /\ (v # MinInt => Negated(v) = -v /\ -v > 0)
    BY <1>0, <1>4 DEF Negated, MinInt
  <2> PICK s : s = Digits(Negated(v), 10)
    OBVIOUS
  <2>2. Num(v, base) = <<"-">> \o s
    BY <1>0, <1>4 DEF Num
  <2>3. s \in Seq(Chars) /\ "-" \in Chars
    BY <1>4, <2>1, DigitsTyped DEF Chars
  <2>4. /\ <<"-">> \o s \in Seq(Chars)
        /\ (<<"-">> \o s)[1] = "-" /\ Tail(<<"-">> \o s) = s
    BY <2>3
  <2>5. v # MinInt => Numeral(s, -v, base)
    BY <1>1, <1>4, <2>1
  <2>6. ~(v >= 0)
    BY <1>0, <1>4
  <2> QED
    BY <2>2, <2>4, <2>5, <2>6
<1>5. CASE v < 0 /\ base # 10
  <2>1. Num(v, base) = Digits(v, base)
    BY <1>0, <1>5 DEF Num
  <2> QED
    BY <1>0, <1>5, <2>1, DigitsTyped
<1> QED
  BY <1>0, <1>2, <1>3, <1>4, <1>5

-----------------------------------------------------------------------------
(* The formatting of a message *)

LEMMA Directive ==
  ASSUME NEW d \in Directives
  PROVE  \/ d.kind \in {"char", "c"} /\ d.arg \in STRING
         \/ d.kind = "s" /\ d.arg \in Seq(STRING)
         \/ d.kind \in NUMBERS /\ d.arg \in Ints
         \/ d.kind \in {"%", "unknown"}
  BY PrintfConstants DEF Ints

LEMMA RenderedTyped ==
  ASSUME NEW d \in Directives
  PROVE  Rendered(d) \in Seq(Chars)
<1>1. CASE d.kind \in {"char", "c"} /\ d.arg \in STRING
  <2>1. Rendered(d) = <<d.arg>> /\ d.arg \in Chars
    BY <1>1 DEF Rendered, Chars
  <2> QED
    BY <2>1
<1>2. CASE d.kind = "s" /\ d.arg \in Seq(STRING)
  <2>1. Rendered(d) = d.arg
    BY <1>2 DEF Rendered
  <2>2. STRING \subseteq Chars
    BY DEF Chars
  <2>3. \A T, U : T \subseteq U => \A s \in Seq(T) : s \in Seq(U)
    OBVIOUS
  <2> QED
    BY <1>2, <2>1, <2>2, <2>3
<1>3. CASE d.kind \in NUMBERS /\ d.arg \in Ints
  <2>1. Rendered(d) = Num(d.arg, 10) \/ Rendered(d) = Num(d.arg, 16)
    BY <1>3 DEF Rendered, NUMBERS
  <2>2. 10 \in Bases /\ 16 \in Bases
    BY DEF Bases
  <2> QED
    BY <1>3, <2>1, <2>2, NumIs
<1>4. CASE d.kind \in {"%", "unknown"}
  <2>1. Rendered(d) = <<"%">> \/ Rendered(d) = <<>>
    BY <1>4 DEF Rendered
  <2>2. "%" \in Chars
    BY DEF Chars
  <2>3. <<"%">> \in Seq(Chars) /\ <<>> \in Seq(Chars)
    BY <2>2
  <2> QED
    BY <2>1, <2>3
<1> QED
  BY <1>1, <1>2, <1>3, <1>4, Directive

LEMMA NumbersWritten ==
  ASSUME NEW d \in Directives
  PROVE  WellWritten(d, Rendered(d))
<1>1. CASE d.kind \in NUMBERS /\ d.arg \in Ints
  <2>1. /\ d.kind = "d" => Rendered(d) = Num(d.arg, 10)
        /\ d.kind = "x" => Rendered(d) = Num(d.arg, 16)
        /\ d.kind = "d" \/ d.kind = "x"
    BY <1>1 DEF Rendered, NUMBERS
  <2>2. 10 \in Bases /\ 16 \in Bases
    BY DEF Bases
  <2>3. /\ d.arg >= 0 => Numeral(Num(d.arg, 10), d.arg, 10) /\ Numeral(Num(d.arg, 16), d.arg, 16)
        /\ d.arg < 0 =>
             /\ Num(d.arg, 10)[1] = "-"
             /\ d.arg # MinInt => Numeral(Tail(Num(d.arg, 10)), -d.arg, 10)
    BY <1>1, <2>2, NumIs
  <2>4. d.arg \in Int
    BY <1>1, WithinInt
  <2>5. CASE d.kind = "d" /\ d.arg >= 0
    BY <2>1, <2>3, <2>4, <2>5 DEF WellWritten
  <2>6. CASE d.kind = "d" /\ d.arg < 0
    BY <2>1, <2>3, <2>4, <2>6 DEF WellWritten
  <2>7. CASE d.kind = "x" /\ d.arg >= 0
    BY <2>1, <2>3, <2>4, <2>7 DEF WellWritten
  <2>8. CASE d.kind = "x" /\ d.arg < 0
    BY <2>4, <2>8 DEF WellWritten
  <2> QED
    BY <2>1, <2>4, <2>5, <2>6, <2>7, <2>8
<1>2. CASE d.kind \notin NUMBERS
  BY <1>2 DEF WellWritten, NUMBERS
<1> QED
  BY <1>1, <1>2, Directive DEF NUMBERS

LEMMA FirstOfIs ==
  ASSUME NEW s \in Seq(Chars), NEW n \in Nat
  PROVE  /\ FirstOf(s, n) \in Seq(Chars)
         /\ n >= Len(s) => FirstOf(s, n) = s
         /\ n < Len(s) => FirstOf(s, n) = SubSeq(s, 1, n) /\ Len(FirstOf(s, n)) = n
<1>1. CASE n < Len(s)
  <2>1. SubSeq(s, 1, n) \in Seq(Chars) /\ Len(SubSeq(s, 1, n)) = n
    BY <1>1
  <2> QED
    BY <1>1, <2>1 DEF FirstOf
<1>2. CASE ~(n < Len(s))
  <2>1. SubSeq(s, 1, Len(s)) = s
    OBVIOUS
  <2> QED
    BY <1>2, <2>1 DEF FirstOf
<1> QED
  BY <1>1, <1>2

LEMMA PutTyped ==
  ASSUME NEW out \in Seq(Chars), NEW d \in Directives
  PROVE  Put(out, d) \in Seq(Chars)
<1>1. Rendered(d) \in Seq(Chars) /\ Room(out) \in Int
  BY RenderedTyped, PrintfConstants DEF Room
<1>2. CASE Room(out) <= 0
  BY <1>2 DEF Put
<1>3. CASE ~(Room(out) <= 0)
  <2>1. Room(out) \in Nat
    BY <1>1, <1>3
  <2>2. FirstOf(Rendered(d), Room(out)) \in Seq(Chars)
    BY <1>1, <2>1, FirstOfIs
  <2>3. \A s \in Seq(Chars) : out \o s \in Seq(Chars)
    OBVIOUS
  <2>4. \/ Put(out, d) = out \o Rendered(d)
        \/ Put(out, d) = out \o FirstOf(Rendered(d), Room(out))
    BY <1>3 DEF Put
  <2> QED
    BY <1>1, <2>2, <2>3, <2>4
<1> QED
  BY <1>2, <1>3
\* The loop of printf, round by round.
LEMMA FormattedIs ==
  ASSUME NEW f \in Seq(Directives)
  PROVE  \E w \in [0..Len(f) -> Seq(Chars)] :
           /\ w[0] = <<>>
           /\ \A k \in 1..Len(f) : w[k] = Put(w[k - 1], f[k])
           /\ Formatted(f) = w[Len(f)]
<1> DEFINE n == Len(f)
           F == [a \in Seq(Chars) |-> [b \in Directives |-> Put(a, b)]]
           Body(h, s) == IF s = {} THEN <<>>
                         ELSE Put(h[s \ {Max(s)}], f[Max(s)])
           Iter(h) == h = [s \in SUBSET DOMAIN f |-> Body(h, s)]
<1>0. n \in Nat /\ DOMAIN f = 1..n /\ \A k \in 1..n : f[k] \in Directives
  OBVIOUS
<1>1. Formatted(f) = (CHOOSE h : Iter(h))[DOMAIN f]
  BY DEF Formatted, FoldLeft, MapThenFoldSet
<1>2. \E h : Iter(h)
  <2>1. F \in [Seq(Chars) -> [Directives -> Seq(Chars)]]
    BY PutTyped
  <2>2. <<>> \in Seq(Chars)
    OBVIOUS
  <2> HIDE DEF F
  <2>3. PICK h \in [SUBSET (1..n) -> Seq(Chars)] : Folds(F, <<>>, f, n, h)
    <3> PICK fn, L, C, r : fn = F /\ L = Seq(Chars) /\ C = Directives /\ r = <<>>
      OBVIOUS
    <3>1. fn \in [L -> [C -> L]] /\ r \in L /\ \A k \in 1..n : f[k] \in C
      BY <1>0, <2>1, <2>2
    <3>2. Foldable(L, fn, r, f, n)
      <4> HIDE DEF n
      <4> QED BY ONLY <1>0, <3>1, FoldExists
    <3> QED
      BY <3>2 DEF Foldable
  <2>4. ASSUME NEW s \in SUBSET (1..n) PROVE h[s] = Body(h, s)
    <3>1. CASE s = {}
      BY <2>3, <3>1 DEF Folds
    <3>2. CASE s # {}
      <4>1. Max(s) \in 1..n
        BY <1>0, <3>2, LargestIs
      <4>2. h[s \ {Max(s)}] \in Seq(Chars) /\ f[Max(s)] \in Directives
        BY <1>0, <4>1
      <4>3. F[h[s \ {Max(s)}]][f[Max(s)]] = Put(h[s \ {Max(s)}], f[Max(s)])
        BY <4>2 DEF F
      <4> QED
        BY <2>3, <3>2, <4>3 DEF Folds
    <3> QED
      BY <3>1, <3>2
  <2> HIDE DEF Body, n
  <2>5. h = [s \in SUBSET (1..n) |-> Body(h, s)]
    BY <2>4
  <2> QED
    BY <1>0, <2>5
<1> PICK h : h = CHOOSE g : Iter(g)
  OBVIOUS
<1>3. h = [s \in SUBSET (1..n) |-> Body(h, s)]
  <2>1. Iter(h)
    BY <1>2
  <2> QED
    BY <1>0, <2>1
<1>4. ASSUME NEW s \in SUBSET (1..n) PROVE h[s] = Body(h, s)
  <2> HIDE DEF Body
  <2> QED
    BY <1>3
<1> DEFINE v == [k \in 0..n |-> h[1..k]]
<1>5. v[0] = <<>>
  <2>1. 0 \in 0..n /\ 1..0 = {} /\ 1..0 \in SUBSET (1..n)
    BY <1>0
  <2> HIDE DEF n
  <2> QED
    BY <1>4, <2>1
<1>6. ASSUME NEW k \in 1..n PROVE v[k] = Put(v[k - 1], f[k])
  <2>1. /\ k \in Nat \ {0} /\ k \in 0..n /\ k - 1 \in 0..n
        /\ 1..k # {} /\ 1..k \in SUBSET (1..n) /\ (1..k) \ {k} = 1..(k - 1)
    <3> HIDE DEF n
    <3> QED BY ONLY <1>0, UpTo, k \in 1..n
  <2>2. Max(1..k) = k
    BY <2>1, TopIs
  <2> HIDE DEF n
  <2>3. h[1..k] = Put(h[1..(k - 1)], f[k])
    BY <1>4, <2>1, <2>2
  <2> QED
    BY <2>1, <2>3
<1>7. \A k \in 0..n : v[k] \in Seq(Chars)
  <2> DEFINE G == {k \in 0..n : v[k] \in Seq(Chars)}
  <2>1. 0 \in G
    <3>1. <<>> \in Seq(Chars) /\ 0 \in 0..n
      BY <1>0
    <3> HIDE DEF v, n
    <3> QED BY <1>5, <3>1
  <2>2. ASSUME NEW k \in 0..n, k \in G, k < n PROVE k + 1 \in G
    <3>1. k + 1 \in 1..n /\ k + 1 \in 0..n /\ (k + 1) - 1 = k
      BY <1>0, <2>2
    <3>2. v[k + 1] = Put(v[k], f[k + 1])
      BY <1>6, <3>1
    <3> HIDE DEF v, n
    <3> QED
      BY <1>0, <2>2, <3>1, <3>2, PutTyped
  <2> HIDE DEF G, n
  <2>3. \A k \in 0..n : k \in G
    BY <1>0, <2>1, <2>2, Counted
  <2> QED
    BY <2>3 DEF G
<1>8. v \in [0..n -> Seq(Chars)]
  BY <1>7
<1>9. Formatted(f) = v[n]
  BY <1>0, <1>1
<1> HIDE DEF v
<1> QED
  BY <1>5, <1>6, <1>8, <1>9

\* The buffer holds the beginning of the text, and all of it if there is room.
Kept(out, text) ==
  /\ IsPrefix(out, text)
  /\ Len(text) < SIZE => out = text
  /\ Len(out) < SIZE - 1 => out = text

\* What one directive adds to the buffer and to the text it should hold.
LEMMA PutKeepsUp ==
  ASSUME NEW out \in Seq(Chars), NEW text \in Seq(Chars), NEW d \in Directives,
         Kept(out, text)
  PROVE  /\ Kept(Put(out, d), text \o Rendered(d))
         /\ Len(Put(out, d)) >= SIZE =>
              \/ Put(out, d) = out
              \/ /\ d.kind \in NUMBERS /\ Len(text) < SIZE - 1
                 /\ Put(out, d) = text \o Rendered(d)
<1> PICK r, more, put : r = Rendered(d) /\ more = text \o Rendered(d) /\ put = Put(out, d)
  OBVIOUS
<1> SUFFICES /\ Kept(put, more)
             /\ Len(put) >= SIZE =>
                  \/ put = out
                  \/ d.kind \in NUMBERS /\ Len(text) < SIZE - 1 /\ put = more
  OBVIOUS
<1> USE DEF Kept
<1>1. r \in Seq(Chars) /\ SIZE \in Nat /\ SIZE > 1 /\ Len(out) \in Nat /\ Len(text) \in Nat
  BY RenderedTyped, PrintfConstants
<1>2. /\ more \in Seq(Chars) /\ Len(more) = Len(text) + Len(r) /\ Len(r) \in Nat
      /\ \A k \in 1..Len(text) : more[k] = text[k]
      /\ \A k \in 1..Len(r) : more[Len(text) + k] = r[k]
  BY <1>1
<1>3. Room(out) = SIZE - 1 - Len(out)
  BY DEF Room
<1>4. CASE Room(out) <= 0
  <2>1. put = out /\ Len(out) >= SIZE - 1
    BY <1>1, <1>3, <1>4 DEF Put
  <2>2. IsPrefix(out, more)
    <3>1. Len(out) <= Len(text) /\ SubSeq(out, 1, Len(out)) = SubSeq(text, 1, Len(out))
      BY DEF IsPrefix
    <3>2. SubSeq(more, 1, Len(out)) = SubSeq(text, 1, Len(out))
      BY <1>1, <1>2, <3>1
    <3> QED
      BY <1>1, <1>2, <3>1, <3>2 DEF IsPrefix
  <2>3. ASSUME Len(more) < SIZE PROVE put = more
    <3>1. out = text /\ Len(r) = 0
      BY <1>1, <1>2, <2>1, <2>3
    <3>2. r = <<>>
      BY <1>1, <3>1
    <3>3. text \o <<>> = text
      OBVIOUS
    <3> QED
      BY <2>1, <3>1, <3>2, <3>3
  <2> QED
    BY <1>1, <2>1, <2>2, <2>3
<1>5. CASE ~(Room(out) <= 0)
  <2>1. out = text /\ Len(out) < SIZE - 1 /\ Room(out) \in Nat
    BY <1>1, <1>3, <1>5
  <2>2. IsPrefix(more, more)
    BY <1>2 DEF IsPrefix
  <2>3. CASE d.kind \in NUMBERS
    <3>1. put = more
      BY <1>5, <2>1, <2>3 DEF Put
    <3> QED
      BY <2>1, <2>2, <2>3, <3>1
  <2>4. CASE d.kind \notin NUMBERS
    <3> PICK s : s = FirstOf(r, Room(out))
      OBVIOUS
    <3>1. put = text \o s
      BY <1>5, <2>1, <2>4 DEF Put
    <3>2. CASE Room(out) >= Len(r)
      <4>1. s = r
        BY <1>1, <2>1, <3>2, FirstOfIs
      <4>2. put = more /\ Len(put) < SIZE
        BY <1>1, <1>2, <1>3, <2>1, <3>1, <3>2, <4>1
      <4> QED
        BY <1>1, <1>2, <2>2, <4>2
    <3>3. CASE ~(Room(out) >= Len(r))
      <4>1. s = SubSeq(r, 1, Room(out)) /\ Len(s) = Room(out) /\ s \in Seq(Chars)
        <5>1. Room(out) \in Nat /\ Room(out) < Len(r) /\ r \in Seq(Chars)
          BY <1>1, <1>2, <2>1, <3>3
        <5> QED
          BY ONLY <5>1, FirstOfIs, s = FirstOf(r, Room(out))
      <4>2. Len(put) = SIZE - 1 /\ ~(Len(more) < SIZE) /\ Len(put) <= Len(more)
        BY <1>1, <1>2, <1>3, <2>1, <3>1, <3>3, <4>1
      <4>3. SubSeq(put, 1, Len(put)) = SubSeq(more, 1, Len(put))
        <5>1. put \in Seq(Chars) /\ Len(put) \in Nat
          BY <3>1, <4>1
        <5>2. ASSUME NEW k \in 1..Len(put) PROVE put[k] = more[k]
          <6>1. CASE k <= Len(text)
            <7>1. k \in 1..Len(text)
              BY <5>1, <6>1, <1>1
            <7>2. put[k] = text[k]
              BY <3>1, <4>1, <7>1
            <7> QED
              BY <1>2, <7>1, <7>2
          <6>2. CASE ~(k <= Len(text))
            <7>1. PICK l \in 1..Len(s) : k = Len(text) + l
              <8>1. Len(put) = Len(text) + Len(s)
                BY <3>1, <4>1
              <8>2. k - Len(text) \in 1..Len(s) /\ k = Len(text) + (k - Len(text))
                BY <8>1, <5>1, <6>2, <1>1, <4>1, <2>1
              <8> QED
                BY <8>2
            <7>2. put[k] = s[l]
              BY <3>1, <4>1, <7>1
            <7>3. l \in 1..Len(r) /\ s[l] = r[l]
              BY <1>1, <1>2, <2>1, <3>3, <4>1, <7>1
            <7> QED
              BY <1>2, <7>1, <7>2, <7>3
          <6> QED
            BY <6>1, <6>2
        <5>3. SubSeq(put, 1, Len(put)) = [k \in 1..Len(put) |-> put[k]]
          BY <5>1
        <5>4. SubSeq(more, 1, Len(put)) = [k \in 1..Len(put) |-> more[k]]
          BY <1>2, <4>2, <5>1
        <5> QED
          BY <5>2, <5>3, <5>4
      <4> QED
        BY <1>1, <4>2, <4>3 DEF IsPrefix
    <3> QED
      BY <3>2, <3>3
  <2> QED
    BY <2>3, <2>4
<1> QED
  BY <1>4, <1>5

\* The text of the first k directives.
LEMMA TextOfFirst ==
  ASSUME NEW f \in Seq(Directives)
  PROVE  /\ Text(SubSeq(f, 1, 0)) = <<>>
         /\ SubSeq(f, 1, Len(f)) = f
         /\ \A k \in 0..Len(f) : Text(SubSeq(f, 1, k)) \in Seq(Chars)
         /\ \A k \in 1..Len(f) :
              Text(SubSeq(f, 1, k)) = Text(SubSeq(f, 1, k - 1)) \o Rendered(f[k])
<1> DEFINE Each(k) == [l \in 1..k |-> Rendered(f[l])]
<1>0. Len(f) \in Nat /\ \A k \in 1..Len(f) : f[k] \in Directives
  OBVIOUS
<1>1. ASSUME NEW k \in 0..Len(f)
      PROVE  Text(SubSeq(f, 1, k)) = FlattenSeq(Each(k))
  <2> PICK g : g = SubSeq(f, 1, k)
    OBVIOUS
  <2>1. DOMAIN g = 1..k /\ \A l \in 1..k : g[l] = f[l]
    OBVIOUS
  <2>2. [l \in DOMAIN g |-> Rendered(g[l])] = Each(k)
    BY <2>1
  <2> QED
    BY <2>2 DEF Text
<1>2. ASSUME NEW k \in 0..Len(f)
      PROVE  Each(k) \in Seq(Seq(Chars)) /\ Len(Each(k)) = k
  <2>1. \A l \in 1..k : Rendered(f[l]) \in Seq(Chars)
    <3>1. \A l \in 1..k : l \in 1..Len(f)
      BY <1>0
    <3> QED
      BY <1>0, <3>1, RenderedTyped
  <2>2. \A T : [l \in 1..k |-> Rendered(f[l])] \in [1..k -> T] =>
           Each(k) \in Seq(T) /\ Len(Each(k)) = k
    BY <1>0
  <2> PICK T : T = Seq(Chars)
    OBVIOUS
  <2>3. [l \in 1..k |-> Rendered(f[l])] \in [1..k -> T]
    BY <2>1
  <2> HIDE DEF Each
  <2> QED
    BY <2>2, <2>3
<1>3. ASSUME NEW k \in 1..Len(f)
      PROVE  Each(k) = Append(Each(k - 1), Rendered(f[k]))
  <2>1. k - 1 \in 0..Len(f) /\ Len(Each(k - 1)) = k - 1 /\ k = (k - 1) + 1
    BY <1>0, <1>2
  <2> PICK s, r : s = Each(k - 1) /\ r = Rendered(f[k])
    OBVIOUS
  <2>2. \A l \in 1..(k - 1) : s[l] = Rendered(f[l])
    OBVIOUS
  <2>3. Append(s, r) = [l \in 1..k |-> IF l = k THEN r ELSE s[l]]
    <3> PICK U : s \in Seq(U) /\ r \in U
      <4>1. s \in Seq(Seq(Chars)) /\ r \in Seq(Chars)
        BY <1>0, <1>2, <2>1, RenderedTyped
      <4> QED
        BY <4>1
    <3>1. Len(s) = k - 1 /\ k \in Nat
      BY <2>1
    <3> HIDE DEF Each
    <3> QED
      BY <2>1, <3>1
  <2>4. \A l \in 1..k : l # k => l \in 1..(k - 1)
    OBVIOUS
  <2>5. \A l \in 1..k : (IF l = k THEN r ELSE s[l]) = Rendered(f[l])
    BY <2>2, <2>4
  <2> QED
    BY <2>3, <2>5
<1>4. ASSUME NEW k \in 1..Len(f)
      PROVE  /\ Text(SubSeq(f, 1, k - 1)) \in Seq(Chars) /\ Text(SubSeq(f, 1, k)) \in Seq(Chars)
             /\ Text(SubSeq(f, 1, k)) = Text(SubSeq(f, 1, k - 1)) \o Rendered(f[k])
  <2>1. k - 1 \in 0..Len(f) /\ k \in 0..Len(f)
    BY <1>0
  <2> HIDE DEF Each
  <2>2. Each(k - 1) \in Seq(Seq(Chars)) /\ Rendered(f[k]) \in Seq(Chars)
    BY <1>0, <1>2, <2>1, RenderedTyped
  <2>3. /\ FlattenSeq(Each(k - 1)) \in Seq(Chars)
        /\ FlattenSeq(Append(Each(k - 1), Rendered(f[k]))) = FlattenSeq(Each(k - 1)) \o Rendered(f[k])
    BY ONLY <2>2, Flattened
  <2>4. \A s, t \in Seq(Chars) : s \o t \in Seq(Chars)
    OBVIOUS
  <2> QED
    BY <1>1, <1>3, <2>1, <2>2, <2>3, <2>4
<1>5. Text(SubSeq(f, 1, 0)) = <<>>
  <2> PICK g : g = SubSeq(f, 1, 0)
    OBVIOUS
  <2>1. g = <<>>
    OBVIOUS
  <2>2. [l \in DOMAIN g |-> Rendered(g[l])] = <<>>
    BY <2>1
  <2>3. FlattenSeq(<<>>) = <<>>
    BY DEF FlattenSeq
  <2> QED
    BY <2>2, <2>3 DEF Text
<1>6. \A k \in 0..Len(f) : Text(SubSeq(f, 1, k)) \in Seq(Chars)
  <2>1. \A k \in 0..Len(f) : k = 0 \/ k \in 1..Len(f)
    BY <1>0
  <2>2. <<>> \in Seq(Chars)
    OBVIOUS
  <2> QED
    BY <1>4, <1>5, <2>1, <2>2
<1>7. SubSeq(f, 1, Len(f)) = f
  OBVIOUS
<1> HIDE DEF Each
<1> QED
  BY <1>4, <1>5, <1>6, <1>7

\* A message is its text, cut or overrun.
Cut(f, k, out) ==
  /\ Kept(out, Text(SubSeq(f, 1, k)))
  /\ Len(out) >= SIZE =>
       \E m \in 1..k :
         /\ f[m].kind \in NUMBERS
         /\ Len(Text(SubSeq(f, 1, m - 1))) < SIZE - 1
         /\ out = Text(SubSeq(f, 1, m))

LEMMA MessageCut ==
  ASSUME NEW f \in Seq(Directives)
  PROVE  Formatted(f) \in Seq(Chars) /\ Cut(f, Len(f), Formatted(f))
<1> PICK n : n = Len(f)
  OBVIOUS
<1>0. n \in Nat /\ \A k \in 1..n : f[k] \in Directives
  OBVIOUS
<1>1. PICK w \in [0..n -> Seq(Chars)] :
        /\ w[0] = <<>>
        /\ \A k \in 1..n : w[k] = Put(w[k - 1], f[k])
        /\ Formatted(f) = w[n]
  BY FormattedIs
<1> DEFINE G == {k \in Nat : Cut(f, k, w[k])}
<1>2. 0 \in G
  <2> PICK e : e = <<>>
    OBVIOUS
  <2>1. Text(SubSeq(f, 1, 0)) = e /\ w[0] = e
    BY <1>1, TextOfFirst
  <2>2. Len(e) = 0 /\ IsPrefix(e, e)
    BY DEF IsPrefix
  <2>3. SIZE \in Nat /\ SIZE > 1
    BY PrintfConstants
  <2> QED
    BY <2>1, <2>2, <2>3 DEF Cut, Kept
<1>3. ASSUME NEW k \in 0..n, k \in G, k < n PROVE k + 1 \in G
  <2>1. k + 1 \in 1..n /\ (k + 1) - 1 = k /\ k + 1 \in Nat /\ k \in 0..n
    BY <1>0, <1>3
  <2> PICK out, put, d, text, more :
        /\ out = w[k] /\ put = w[k + 1] /\ d = f[k + 1]
        /\ text = Text(SubSeq(f, 1, k)) /\ more = Text(SubSeq(f, 1, k + 1))
    OBVIOUS
  <2>2. put = Put(out, d)
    BY <1>1, <2>1
  <2>3. more = text \o Rendered(d) /\ text \in Seq(Chars)
    BY <2>1, TextOfFirst
  <2>4. out \in Seq(Chars) /\ d \in Directives
    BY <1>0, <1>1, <2>1
  <2>5. Cut(f, k, out)
    BY <1>3
  <2>6. Kept(out, text)
    BY <2>5 DEF Cut
  <2>7. /\ Kept(put, more)
        /\ Len(put) >= SIZE =>
             \/ put = out
             \/ d.kind \in NUMBERS /\ Len(text) < SIZE - 1 /\ put = more
    <3>1. /\ Kept(Put(out, d), text \o Rendered(d))
          /\ Len(Put(out, d)) >= SIZE =>
               \/ Put(out, d) = out
               \/ /\ d.kind \in NUMBERS /\ Len(text) < SIZE - 1
                  /\ Put(out, d) = text \o Rendered(d)
      BY ONLY <2>3, <2>4, <2>6, PutKeepsUp
    <3> QED
      BY ONLY <2>2, <2>3, <3>1
  <2>8. ASSUME Len(put) >= SIZE
        PROVE  \E m \in 1..k+1 :
                 /\ f[m].kind \in NUMBERS
                 /\ Len(Text(SubSeq(f, 1, m - 1))) < SIZE - 1
                 /\ put = Text(SubSeq(f, 1, m))
    <3>1. CASE put = out
      <4>1. PICK m \in 1..k : /\ f[m].kind \in NUMBERS
                              /\ Len(Text(SubSeq(f, 1, m - 1))) < SIZE - 1
                              /\ out = Text(SubSeq(f, 1, m))
        BY <2>5, <2>8, <3>1 DEF Cut
      <4>2. m \in 1..k+1
        BY <2>1
      <4> QED
        BY <3>1, <4>1, <4>2
    <3>2. CASE d.kind \in NUMBERS /\ Len(text) < SIZE - 1 /\ put = more
      <4>1. k + 1 \in 1..k+1
        BY <2>1
      <4> QED
        BY <2>1, <3>2, <4>1
    <3> QED
      BY <2>7, <2>8, <3>1, <3>2
  <2>9. Cut(f, k + 1, put)
    BY <2>7, <2>8 DEF Cut
  <2> QED
    BY <2>1, <2>9
<1> HIDE DEF G
<1>4. n \in G
  <2>1. \A k \in 0..n : k \in G
    BY <1>0, <1>2, <1>3, Counted
  <2> QED
    BY <1>0, <2>1
<1> QED
  BY <1>0, <1>1, <1>4 DEF G

-----------------------------------------------------------------------------
(* The inductive invariant of printf *)

Printed ==
  /\ fmt \in Seq(Directives)
  /\ out_buf = Formatted(fmt)
  /\ smashed = (Len(out_buf) >= SIZE)

LEMMA PrintedFirst == PrintfInit => Printed
<1> SUFFICES ASSUME PrintfInit PROVE Printed
  OBVIOUS
<1> PICK f : f = <<>>
  OBVIOUS
<1>1. f \in Seq(Directives) /\ Len(f) = 0
  OBVIOUS
<1>2. \E w \in [0..Len(f) -> Seq(Chars)] :
        /\ w[0] = <<>>
        /\ \A k \in 1..Len(f) : w[k] = Put(w[k - 1], f[k])
        /\ Formatted(f) = w[Len(f)]
  BY <1>1, FormattedIs
<1>3. Formatted(f) = <<>>
  BY <1>1, <1>2
<1>4. (Len(f) >= SIZE) = FALSE
  BY <1>1, PrintfConstants
<1>5. fmt = f /\ out_buf = f /\ smashed = FALSE
  BY DEF PrintfInit
<1>6. fmt \in Seq(Directives) /\ out_buf = Formatted(fmt)
  BY <1>1, <1>3, <1>5
<1>7. smashed = (Len(out_buf) >= SIZE)
  BY <1>4, <1>5, Zenon
<1> QED
  BY <1>6, <1>7 DEF Printed

LEMMA PrintedNext == ASSUME Printed, [PrintfNext]_printf_vars PROVE Printed'
<1>1. CASE UNCHANGED <<fmt, out_buf, smashed>>
  BY <1>1 DEF Printed
<1>2. ASSUME NEW f \in Formats, Call(f) PROVE Printed'
  <2>1. f \in Seq(Directives)
    <3>1. MaxDirectives \in Nat
      BY PrintfConstants
    <3>2. PICK n \in 1..MaxDirectives : f \in [1..n -> Directives]
      BY DEF Formats
    <3>3. n \in Nat
      BY <3>1
    <3> QED
      BY <3>2, <3>3
  <2> QED
    BY <1>2, <2>1 DEF Call, Printed
<1> QED
  BY <1>1, <1>2 DEF PrintfNext, PutNext, printf_vars

(***************************************************************************)
(* printf of fb.c formats a message as its format says, for any format and *)
(* any size of the buffer: print_num_to_buf writes numerals that read back *)
(* as the number, in both bases; a message that is too long is cut, and    *)
(* only a number that begins before the end of out_buf can overrun it.     *)
(***************************************************************************)
THEOREM PrintfMessageAsMeant == PrintfSpec => []MessageAsMeant
<1>1. ASSUME Printed PROVE MessageAsMeant
  <2>1. fmt \in Seq(Directives) /\ out_buf = Formatted(fmt) /\ (smashed <=> Len(out_buf) >= SIZE)
    BY <1>1 DEF Printed
  <2>2. Cut(fmt, Len(fmt), out_buf) /\ out_buf \in Seq(Chars) /\ SubSeq(fmt, 1, Len(fmt)) = fmt
    BY <2>1, MessageCut, TextOfFirst
  <2>3. DOMAIN fmt = 1..Len(fmt) /\ \A k \in DOMAIN fmt : fmt[k] \in Directives
    BY <2>1
  <2>4. \A k \in DOMAIN fmt : WellWritten(fmt[k], Rendered(fmt[k]))
    BY <2>3, NumbersWritten
  <2>5. IsPrefix(out_buf, Text(fmt)) /\ (Len(Text(fmt)) < SIZE => out_buf = Text(fmt))
    BY <2>2 DEF Cut, Kept
  <2>6. ~smashed => Len(out_buf) < SIZE
    BY <2>1, <2>2, PrintfConstants
  <2>7. smashed => \E k \in DOMAIN fmt :
                     /\ fmt[k].kind \in NUMBERS
                     /\ Len(Text(SubSeq(fmt, 1, k - 1))) < SIZE - 1
                     /\ out_buf = Text(SubSeq(fmt, 1, k))
    BY <2>1, <2>2, <2>3 DEF Cut
  <2> QED
    BY <2>4, <2>5, <2>6, <2>7 DEF MessageAsMeant
<1>2. Printed /\ [PrintfNext]_printf_vars => Printed'
  BY PrintedNext
<1>3. Printed => MessageAsMeant
  BY <1>1
<1> QED
  BY PrintedFirst, <1>2, <1>3, PTL DEF PrintfSpec

-----------------------------------------------------------------------------
(* Disk.tla and Ext2.tla *)

Used(k) == disk.mbr[k].type \notin {UNUSED, GPT}
Partition(k) == [name |-> PartitionName(k), start_lba |-> disk.mbr[k].lba_start,
                 total_sectors |-> disk.mbr[k].sector_count]

(***************************************************************************)
(* The table holds the disk, and behind it used entries only; while        *)
(* mbr_parse is at entry i, all the used ones before it, and it is not     *)
(* full.                                                                   *)
(***************************************************************************)
Registered ==
  /\ \E Devs : block_devices \in Seq(Devs)
  /\ progress \in {"ata_init", "sector0", "mbr", "header", "array", "entries"} \cup Ended
  /\ progress = "ata_init" => block_devices = <<>> /\ i = 0
  /\ progress = "sector0" => i = 0
  /\ block_devices # <<>> => block_devices[1].name = "sda"
  /\ \A m \in 2..Len(block_devices) : \E k \in 1..4 : Used(k) /\ block_devices[m] = Partition(k)
  /\ progress \in {"sector0", "mbr", "parsed"} =>
       /\ i \in 0..4 /\ block_devices # <<>> /\ Len(block_devices) <= i + 1
       /\ \A k \in 1..i :
            /\ disk.mbr[k].type # GPT
            /\ Used(k) => \E m \in DOMAIN block_devices : block_devices[m] = Partition(k)
  /\ progress = "parsed" => i = 4

\* What is mounted is the first entry of the table.
Mounted ==
  /\ stage \in {"mount", "groups"} => Used(1) /\ sda1 = <<Partition(1)>>
  /\ stage \in {"init", "partitions", "mount"} => ext2_fs = <<>>
  /\ stage = "groups" =>
       \E b \in BlockCounts, g \in GroupSizes :
         ext2_fs = <<[dev |-> sda1[1], blocks_count |-> b, blocks_per_group |-> g,
                      group_count |-> 0]>>

Ext2IInv == Registered /\ Mounted /\ SuperblockOfSda1

\* The four names are different, and none is the disk's.
LEMMA PartitionNames ==
  /\ PartitionName(1) = "sda1"
  /\ \A k \in 1..4 : PartitionName(k) # "sda"
  /\ \A k, l \in 1..4 : PartitionName(k) = PartitionName(l) => k = l
<1>1. /\ PartitionName(1) = "sda1" /\ PartitionName(2) = "sda2"
      /\ PartitionName(3) = "sda3" /\ PartitionName(4) = "sda4"
  BY DEF PartitionName
<1>2. \A k \in 1..4 : k = 1 \/ k = 2 \/ k = 3 \/ k = 4
  OBVIOUS
<1> QED
  BY <1>1, <1>2

\* A name finds the entry it is the name of, or nothing.
LEMMA Found ==
  ASSUME Registered, NEW k \in 1..4
  PROVE  LET found == get_block_device(PartitionName(k)) IN
           /\ found = <<>> \/ (Used(k) /\ found = <<Partition(k)>>)
           /\ (\E m \in DOMAIN block_devices : block_devices[m] = Partition(k)) =>
                found = <<Partition(k)>>
<1> DEFINE I == {m \in 1..Len(block_devices) : block_devices[m].name = PartitionName(k)}
<1>0. Len(block_devices) \in Nat /\ DOMAIN block_devices = 1..Len(block_devices)
  BY DEF Registered
<1>1. SelectInSeq(block_devices, LAMBDA d : d.name = PartitionName(k))
        = IF I # {} THEN Min(I) ELSE 0
  BY DEF SelectInSeq
<1>2. ASSUME NEW m \in I PROVE m \in Nat \ {0} /\ Used(k) /\ block_devices[m] = Partition(k)
  <2>1. m \in 1..Len(block_devices) /\ block_devices[m].name = PartitionName(k)
    OBVIOUS
  <2>2. m # 1
    <3>1. block_devices # <<>>
      BY <2>1, <1>0
    <3> QED
      BY <2>1, <3>1, PartitionNames DEF Registered
  <2>3. m \in 2..Len(block_devices)
    BY <2>1, <2>2, <1>0
  <2>4. PICK l \in 1..4 : Used(l) /\ block_devices[m] = Partition(l)
    BY <2>3 DEF Registered
  <2>5. block_devices[m].name = PartitionName(l)
    BY <2>4 DEF Partition
  <2>6. l = k
    BY <2>1, <2>5, PartitionNames
  <2> QED
    BY <2>3, <2>4, <2>6
<1>3. I # {} => Min(I) \in I
  <2>1. I \subseteq Nat
    BY <1>0
  <2> HIDE DEF I
  <2> QED
    BY <2>1, First
<1>4. (\E m \in DOMAIN block_devices : block_devices[m] = Partition(k)) => I # {}
  BY <1>0 DEF Partition
<1> HIDE DEF I
<1>5. I # {} => get_block_device(PartitionName(k)) = <<block_devices[Min(I)]>>
  BY <1>1, <1>2, <1>3 DEF get_block_device
<1>6. I = {} => get_block_device(PartitionName(k)) = <<>>
  BY <1>1 DEF get_block_device
<1> QED
  BY <1>2, <1>3, <1>4, <1>5, <1>6

\* A device that there is room for is the last.
LEMMA Registering ==
  ASSUME Registered, Len(block_devices) < MAX_BLOCK_DEVICES,
         NEW d, register_block_device(d)
  PROVE  /\ \E Devs : block_devices' \in Seq(Devs)
         /\ Len(block_devices) \in Nat /\ Len(block_devices') = Len(block_devices) + 1
         /\ \A m \in 1..Len(block_devices) : block_devices'[m] = block_devices[m]
         /\ block_devices'[Len(block_devices) + 1] = d
<1>1. PICK Devs : block_devices \in Seq(Devs)
  BY DEF Registered
<1> DEFINE More == Devs \cup {d}
<1>2. /\ Len(block_devices) \in Nat /\ d \in More
      /\ \A m \in 1..Len(block_devices) : block_devices[m] \in More
  BY <1>1
<1>3. block_devices' = Append(block_devices, d)
  BY <1>2, DiskConstants DEF register_block_device
<1> HIDE DEF More
<1>4. block_devices \in Seq(More)
  BY <1>1, <1>2
<1> QED
  BY <1>2, <1>3, <1>4

\* mbr_parse has room for the entry that it registers.
LEMMA OnePartition == Registered /\ MbrPartition => Registered'
<1> SUFFICES ASSUME Registered, MbrPartition PROVE Registered'
  OBVIOUS
<1>1. /\ progress = "mbr" /\ progress' = "mbr" /\ disk' = disk /\ i' = i + 1
      /\ i \in 0..3 /\ i + 1 \in 1..4 /\ Used(i + 1)
      /\ register_block_device(Partition(i + 1))
  <2>1. i \in 0..4
    BY DEF Registered, MbrPartition
  <2> QED
    BY <2>1 DEF MbrPartition, Used, Partition
<1>2. Len(block_devices) \in Nat /\ Len(block_devices) <= i + 1 /\ block_devices # <<>>
  BY <1>1 DEF Registered
<1>3. Len(block_devices) < MAX_BLOCK_DEVICES
  BY <1>1, <1>2, DiskConstants
<1> DEFINE n == Len(block_devices)
           d == Partition(i + 1)
<1>4. /\ \E Devs : block_devices' \in Seq(Devs)
      /\ n \in Nat /\ Len(block_devices') = n + 1
      /\ \A m \in 1..n : block_devices'[m] = block_devices[m]
      /\ block_devices'[n + 1] = d
  BY <1>1, <1>3, Registering
<1>5. DOMAIN block_devices' = 1..(n + 1) /\ DOMAIN block_devices = 1..n /\ n >= 1
  <2>1. PICK Devs : block_devices \in Seq(Devs)
    BY DEF Registered
  <2> QED
    BY <1>2, <1>4, <2>1
<1>6. \A k : (Used(k))' = Used(k) /\ Partition(k)' = Partition(k)
  BY <1>1 DEF Used, Partition
<1>7. block_devices'[1].name = "sda" /\ block_devices' # <<>>
  BY <1>2, <1>4, <1>5 DEF Registered
<1>8. \A m \in 2..Len(block_devices') : \E k \in 1..4 :
        (Used(k))' /\ block_devices'[m] = Partition(k)'
  <2>1. ASSUME NEW m \in 2..(n + 1)
        PROVE  \E k \in 1..4 : Used(k) /\ block_devices'[m] = Partition(k)
    <3>1. CASE m = n + 1
      BY <1>1, <1>4, <3>1
    <3>2. CASE m # n + 1
      <4>1. m \in 2..n /\ m \in 1..n
        BY <1>4, <3>2
      <4>2. \E k \in 1..4 : Used(k) /\ block_devices[m] = Partition(k)
        BY <4>1 DEF Registered
      <4> QED
        BY <1>4, <4>1, <4>2
    <3> QED
      BY <3>1, <3>2
  <2> QED
    BY <1>4, <1>6, <2>1
<1>9. \A k \in 1..(i + 1) :
        /\ disk.mbr[k].type # GPT
        /\ Used(k) => \E m \in 1..(n + 1) : block_devices'[m] = Partition(k)
  <2> SUFFICES ASSUME NEW k \in 1..(i + 1)
               PROVE  /\ disk.mbr[k].type # GPT
                      /\ Used(k) => \E m \in 1..(n + 1) : block_devices'[m] = Partition(k)
    OBVIOUS
  <2>1. CASE k = i + 1
    <3>1. n + 1 \in 1..(n + 1)
      BY <1>4
    <3> QED
      BY <1>1, <1>4, <2>1, <3>1 DEF Used
  <2>2. CASE k # i + 1
    <3>1. k \in 1..i
      BY <1>1, <2>2
    <3>2. /\ disk.mbr[k].type # GPT
          /\ Used(k) => \E m \in 1..n : block_devices[m] = Partition(k)
      BY <1>1, <1>5, <3>1 DEF Registered
    <3>3. \A m \in 1..n : m \in 1..(n + 1)
      BY <1>4
    <3> QED
      BY <1>4, <3>2, <3>3
  <2> QED
    BY <2>1, <2>2
<1>10. Len(block_devices') <= i' + 1 /\ i' \in 0..4
  BY <1>1, <1>2, <1>4
<1> QED
  BY <1>1, <1>4, <1>5, <1>6, <1>7, <1>8, <1>9, <1>10 DEF Registered

\* Every step of the search for partitions keeps the table as it should be.
LEMMA Searching == Registered /\ DiskNext => Registered'
<1> SUFFICES ASSUME Registered, DiskNext PROVE Registered'
  OBVIOUS
<1>1. CASE ata_init
  <2>1. block_devices = <<>> /\ i = 0 /\ i' = 0 /\ progress' = "sector0"
    BY <1>1 DEF ata_init, Registered
  <2>2. block_devices' = <<[name |-> "sda", start_lba |-> 0, total_sectors |-> DISK_SECTORS]>>
    BY <1>1, <2>1, DiskConstants DEF ata_init, register_block_device
  <2>3. block_devices' \in Seq({block_devices'[1]})
    BY <2>2
  <2>4. Len(block_devices') = 1 /\ block_devices'[1].name = "sda" /\ block_devices' # <<>>
    BY <2>2
  <2>5. 2..Len(block_devices') = {} /\ 1..i' = {} /\ i' \in 0..4 /\ Len(block_devices') <= i' + 1
    BY <2>1, <2>4
  <2>6. \E Devs : block_devices' \in Seq(Devs)
    BY <2>3
  <2> QED
    BY ONLY <2>1, <2>4, <2>5, <2>6 DEF Registered
<1>2. CASE MbrPartition
  BY <1>2, OnePartition
<1>3. CASE MbrSkip
  <2>1. /\ progress = "mbr" /\ i \in 0..3 /\ ~Used(i + 1) /\ disk.mbr[i + 1].type # GPT
    <3>1. i \in 0..4
      BY <1>3 DEF MbrSkip, Registered
    <3> QED
      BY <1>3, <3>1 DEF MbrSkip, Used, UNUSED, GPT
  <2>2. i' = i + 1 /\ UNCHANGED <<disk, block_devices, progress>>
    BY <1>3 DEF MbrSkip
  <2>3. \A k \in 1..i' : k = i + 1 \/ k \in 1..i
    BY <2>1, <2>2
  <2>4. \A k : (Used(k))' = Used(k) /\ Partition(k)' = Partition(k)
    BY <2>2 DEF Used, Partition
  <2>5. i' \in 0..4 /\ (Len(block_devices) \in Nat => i + 1 <= i' + 1)
    BY <2>1, <2>2
  <2>6. Len(block_devices) \in Nat
    BY DEF Registered
  <2>7. Len(block_devices) <= i' + 1
    BY <2>1, <2>2, <2>6 DEF Registered
  <2> QED
    BY <2>1, <2>2, <2>3, <2>4, <2>5, <2>7 DEF Registered
<1>4. CASE ReadSector0 \/ ReadFails \/ MbrProtective \/ MbrEnd \/ ReadHeader \/ ReadArray
             \/ ListEntries \/ GptEnd
  <2>1. /\ UNCHANGED <<disk, block_devices>>
        /\ progress' \in {"mbr", "header", "array", "entries"} \cup Ended
        /\ progress' = "mbr" => progress = "sector0" /\ i' = i
        /\ progress' = "parsed" => progress = "mbr" /\ i' = i /\ i = 4
    BY <1>4 DEF ReadSector0, ReadFails, MbrProtective, MbrEnd, ReadHeader, ReadArray,
                ListEntries, GptEnd, Ended
  <2>2. \A k : (Used(k))' = Used(k) /\ Partition(k)' = Partition(k)
    BY <2>1 DEF Used, Partition
  <2> QED
    BY <2>1, <2>2 DEF Registered, Ended
<1> QED
  BY <1>1, <1>2, <1>3, <1>4 DEF DiskNext

\* The end of the table has been reached: a name finds its entry.
LEMMA Parsed == Registered => NamesFindPartitions
<1> SUFFICES ASSUME Registered, progress = "parsed", NEW k \in 1..4
             PROVE  get_block_device(PartitionName(k)) =
                      IF disk.mbr[k].type = UNUSED THEN <<>> ELSE <<Partition(k)>>
  BY DEF NamesFindPartitions, Partition
<1>1. /\ disk.mbr[k].type # GPT
      /\ Used(k) => \E m \in DOMAIN block_devices : block_devices[m] = Partition(k)
  BY DEF Registered
<1>2. Used(k) <=> disk.mbr[k].type # UNUSED
  BY <1>1 DEF Used
<1> QED
  BY <1>1, <1>2, Found

\* The groups that the blocks need, if the sum fits in 32 bits.
LEMMA GroupsNeeded ==
  ASSUME NEW b \in Nat, NEW g \in Nat, g # 0, b + g <= WORD
  PROVE  b - Groups(b, g) * g \in 1-g..0
<1>1. WORD \in Nat /\ WORD # 0
  BY Ext2Constants
<1>2. b + g - 1 \in Nat /\ b + g - 1 < WORD
  BY <1>1
<1>3. (b + g - 1) % WORD = b + g - 1
  BY <1>1, <1>2
<1> DEFINE q == (b + g - 1) \div g
           r == (b + g - 1) % g
<1>4. /\ q \in Int /\ r \in 0..(g - 1)
      /\ b + g - 1 = g * q + r
  BY <1>2
<1> HIDE DEF q, r
<1>5. Groups(b, g) = q
  BY <1>3 DEF Groups, q
<1>6. g * q = q * g /\ q * g \in Int
  BY <1>4
<1>7. b - q * g = r - (g - 1)
  <2>1. \A p \in Int : b + g - 1 = p + r => b - p = r - (g - 1)
    BY <1>4
  <2> QED
    BY <1>4, <1>6, <2>1
<1>8. r - (g - 1) \in 1-g..0
  BY <1>4
<1> QED
  BY <1>5, <1>7, <1>8

-----------------------------------------------------------------------------
LEMMA Ext2Start == Ext2Init => Ext2IInv
<1> SUFFICES ASSUME Ext2Init PROVE Ext2IInv
  OBVIOUS
<1>1. block_devices = <<>> /\ progress = "ata_init" /\ i = 0 /\ stage = "init" /\ ext2_fs = <<>>
  BY DEF Ext2Init, DiskInit
<1>2. block_devices \in Seq({}) /\ Len(block_devices) = 0
  BY <1>1
<1>3. Registered
  BY <1>1, <1>2 DEF Registered
<1> QED
  BY <1>1, <1>3 DEF Ext2IInv, Mounted, SuperblockOfSda1

LEMMA Ext2Step == Ext2IInv /\ [Ext2Next]_<<disk_vars, ext2vars>> => Ext2IInv'
<1> SUFFICES ASSUME Ext2IInv, [Ext2Next]_<<disk_vars, ext2vars>> PROVE Ext2IInv'
  OBVIOUS
<1> USE DEF Ext2IInv
<1>1. ASSUME disk' = disk
      PROVE  /\ \A k : (Used(k))' = Used(k) /\ Partition(k)' = Partition(k)
             /\ UNCHANGED ext2vars => Mounted' /\ SuperblockOfSda1'
  <2>1. \A k : (Used(k))' = Used(k) /\ Partition(k)' = Partition(k)
    BY <1>1 DEF Used, Partition
  <2> QED
    BY <1>1, <2>1 DEF ext2vars, Mounted, SuperblockOfSda1
<1>2. ASSUME UNCHANGED disk_vars PROVE Registered'
  BY <1>2 DEF disk_vars, Registered, Used, Partition
<1>3. CASE Partitions
  <2>1. DiskNext /\ UNCHANGED ext2vars
    BY <1>3 DEF Partitions
  <2>2. disk' = disk
    BY <2>1 DEF DiskNext, ata_init, ReadSector0, ReadFails, MbrSkip, MbrPartition, MbrProtective,
                MbrEnd, ReadHeader, ReadArray, ListEntries, GptEnd
  <2> QED
    BY <1>1, <2>1, <2>2, Searching
<1>4. CASE ext2_init
  <2>1. /\ UNCHANGED disk_vars /\ ext2_fs = <<>> /\ ext2_fs' = <<>> /\ stage' = "partitions"
    BY <1>4 DEF ext2_init, Mounted
  <2> QED
    BY <1>2, <2>1 DEF Mounted, SuperblockOfSda1
<1>5. CASE FindSda1
  <2>1. /\ UNCHANGED disk_vars /\ disk' = disk /\ ext2_fs = <<>> /\ ext2_fs' = <<>>
        /\ stage' \in {"done", "mount"}
        /\ stage' = "mount" => sda1' # <<>>
        /\ sda1' \in {<<>>, get_block_device("sda1")}
    BY <1>5 DEF FindSda1, Mounted, disk_vars
  <2>2. get_block_device("sda1") = get_block_device(PartitionName(1))
    BY PartitionNames
  <2>3. stage' = "mount" => Used(1) /\ sda1' = <<Partition(1)>>
    BY <2>1, <2>2, Found
  <2> QED
    BY <1>1, <1>2, <2>1, <2>3 DEF Mounted, SuperblockOfSda1
<1>6. CASE MountFails
  <2>1. /\ UNCHANGED disk_vars /\ ext2_fs = <<>> /\ ext2_fs' = <<>> /\ stage' = "done"
    BY <1>6 DEF MountFails, Mounted
  <2> QED
    BY <1>2, <2>1 DEF Mounted, SuperblockOfSda1
<1>7. CASE ReadSuperblock
  <2>1. /\ UNCHANGED disk_vars /\ disk' = disk /\ sda1' = sda1 /\ stage' = "groups"
        /\ Used(1) /\ sda1 = <<Partition(1)>>
        /\ absolute_lba(sda1[1], 2) = disk.superblock
    BY <1>7 DEF ReadSuperblock, Mounted, disk_vars
  <2>2. PICK b \in BlockCounts, g \in GroupSizes :
          ext2_fs' = <<[dev |-> sda1[1], blocks_count |-> b, blocks_per_group |-> g,
                        group_count |-> 0]>>
    BY <1>7 DEF ReadSuperblock
  <2>3. disk.superblock = disk.mbr[1].lba_start + 2
    BY <2>1 DEF absolute_lba, Partition
  <2>4. Mounted'
    BY <1>1, <2>1, <2>2 DEF Mounted
  <2>5. SuperblockOfSda1'
    BY <2>1, <2>3 DEF SuperblockOfSda1, Used
  <2> QED
    BY <1>2, <2>1, <2>4, <2>5
<1>8. CASE CountGroups
  <2>1. /\ UNCHANGED disk_vars /\ disk' = disk /\ sda1' = sda1 /\ stage = "groups"
        /\ Used(1)
    BY <1>8 DEF CountGroups, Mounted, disk_vars
  <2>2. PICK b \in BlockCounts, g \in GroupSizes :
          ext2_fs = <<[dev |-> sda1[1], blocks_count |-> b, blocks_per_group |-> g,
                       group_count |-> 0]>>
    BY <2>1 DEF Mounted
  <2>3. /\ ext2_fs # <<>>
        /\ ext2_fs[1].blocks_count = b /\ ext2_fs[1].blocks_per_group = g
    BY <2>2
  <2>4. b \in Nat /\ g \in Nat
    BY <2>2, Ext2Constants
  <2>5. disk.mbr[1].type \notin {UNUSED, GPT} /\ disk.superblock = disk.mbr[1].lba_start + 2
    BY <2>3 DEF SuperblockOfSda1
  <2>6. CASE g = 0
    <3>1. stage' = "exception" /\ ext2_fs' = ext2_fs
      BY <1>8, <2>3, <2>6 DEF CountGroups
    <3> QED
      BY <1>2, <2>1, <2>5, <3>1 DEF Mounted, SuperblockOfSda1
  <2>7. CASE g # 0
    <3>1. stage' = "done" /\ ext2_fs' = [ext2_fs EXCEPT ![1].group_count = Groups(b, g)]
      BY <1>8, <2>3, <2>7 DEF CountGroups
    <3>2. /\ ext2_fs'[1].blocks_count = b /\ ext2_fs'[1].blocks_per_group = g
          /\ ext2_fs'[1].group_count = Groups(b, g)
      BY <2>2, <3>1
    <3>3. b + g <= WORD => b - Groups(b, g) * g \in 1-g..0
      BY <2>4, <2>7, GroupsNeeded
    <3>4. SuperblockOfSda1'
      BY <2>1, <2>5, <3>2, <3>3 DEF SuperblockOfSda1
    <3> QED
      BY <1>2, <2>1, <3>1, <3>4 DEF Mounted
  <2> QED
    BY <2>6, <2>7
<1>9. CASE Stop \/ UNCHANGED <<disk_vars, ext2vars>>
  <2>1. UNCHANGED disk_vars /\ UNCHANGED ext2vars /\ disk' = disk
    BY <1>9 DEF Stop, disk_vars
  <2> QED
    BY <1>1, <1>2, <2>1
<1> QED
  BY <1>3, <1>4, <1>5, <1>6, <1>7, <1>8, <1>9 DEF Ext2Next

(***************************************************************************)
(* When mbr_parse has come to the end of the table of a disk, any disk,    *)
(* get_block_device finds every used entry under its name "sda1".."sda4",  *)
(* whatever gaps the table has, and finds nothing under the name of an     *)
(* unused one.                                                             *)
(***************************************************************************)
THEOREM DiskNamesFindPartitions == Ext2Spec => []NamesFindPartitions
<1>1. Ext2IInv => NamesFindPartitions
  BY Parsed DEF Ext2IInv
<1> QED
  BY <1>1, Ext2Start, Ext2Step, PTL DEF Ext2Spec

(***************************************************************************)
(* ext2_mount reads the superblock of the first entry of the partition     *)
(* table and of no other, however the search for partitions has ended; and *)
(* the group count it computes is the number of groups that the blocks     *)
(* need, for all numbers that do not overflow together.                    *)
(***************************************************************************)
THEOREM Ext2SuperblockOfSda1 == Ext2Spec => []SuperblockOfSda1
<1>1. Ext2IInv => SuperblockOfSda1
  BY DEF Ext2IInv
<1> QED
  BY <1>1, Ext2Start, Ext2Step, PTL DEF Ext2Spec
=============================================================================

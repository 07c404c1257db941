------------------------------ MODULE Console ------------------------------
(***************************************************************************)
(* The console: kern/console.c from the keyboard and the serial port to    *)
(* the circular buffer, lib/console.c and lib/readline.c from the buffer   *)
(* to the line a program gets, and the echo of that line on the display.   *)
(* A key of the keyboard is the index kbd_proc_data computes for it: the   *)
(* scan code, plus 128 for a key whose bytes carry the prefix 0xE0.  The   *)
(* kernel's steps are atomic: they hold the big kernel lock.  The display  *)
(* attributes, the prompt and other programs' output are left out.         *)
(***************************************************************************)
EXTENDS Integers, Sequences, SequencesExt, FiniteSets

CONSTANTS CONSBUFSIZE,  \* length of the circular buffer (512 in the code)
          BUFLEN,       \* length of readline's buffer (1024 in the code)
          Keys,         \* the keys that are pressed
          SerialBytes,  \* the bytes the serial line delivers
          CRT_COLS, CRT_ROWS, \* the display (80 by 25 in the code)
          CRTSTART,     \* where the BIOS left the cursor
          Readers,      \* environments that call readline
          EVENTMAX,     \* bound: presses and releases
          SERIALMAX,    \* bound: bytes on the serial line
          ASKMAX        \* bound: calls of readline

E0 == 224
CTLKEYS == {29, 157}
SHIFTKEYS == {42, 54}
CAPSKEY == 58
EOF == 4
Idle == <<-1>>   \* no line: the reader is not in readline

ASSUME BufferAssumption == CONSBUFSIZE \in Nat /\ CONSBUFSIZE > 1 /\ BUFLEN \in Nat /\ BUFLEN > 1
ASSUME DisplayAssumption ==
  /\ CRT_COLS \in Nat \ {0} /\ CRT_ROWS \in Nat \ {0}
  /\ CRTSTART \in 0..(CRT_ROWS * CRT_COLS - 1) /\ BUFLEN - 1 <= (CRT_ROWS - 1) * CRT_COLS
ASSUME KeysAssumption == Keys \subseteq ({14, 28, 30, 32, CAPSKEY} \cup CTLKEYS \cup SHIFTKEYS)
ASSUME SerialAssumption == SerialBytes \subseteq {127}
ASSUME ReadersAssumption == IsFiniteSet(Readers)

VARIABLES
  held, caps,          \* the keys that are down; whether Caps Lock is on
  wire,                \* bytes the keyboard has still to send
  kbd,                 \* bytes in the keyboard controller
  uart,                \* the serial port's receive register, at most one byte
  shift,               \* kbd_proc_data's static modifier state
  cons,                \* the circular buffer [buf, rpos, wpos]
  line,                \* per reader, the line in readline's buffer, or Idle
  crt,                 \* the display [pos, buf]
  typed, heard,        \* history: characters typed; serial bytes not overwritten
  got, overrun,        \* history: characters handed out; the buffer ran over
  asked, returns,      \* history: readline's calls and its returns
  events, bytes        \* presses and releases; serial bytes (bounded)

devices == <<held, caps, wire, kbd, uart, typed, heard, events, bytes>>
vars == <<devices, shift, cons, line, crt, got, overrun, asked, returns>>

-----------------------------------------------------------------------------
(* kern/console.c: the tables, for the keys modelled.                      *)

shiftcode(k) == IF k \in CTLKEYS THEN {"CTL"} ELSE IF k \in SHIFTKEYS THEN {"SHIFT"} ELSE {}

togglecode(k) == IF k = CAPSKEY THEN {"CAPSLOCK"} ELSE {}

normalmap ==
  [k \in {14, 28, 30, 32} |-> CASE k = 14 -> 8 [] k = 28 -> 10 [] k = 30 -> 97 [] k = 32 -> 100]

shiftmap ==
  [k \in {14, 28, 30, 32} |-> CASE k = 14 -> 8 [] k = 28 -> 10 [] k = 30 -> 65 [] k = 32 -> 68]

ctlmap == [k \in {28, 30, 32} |-> CASE k = 28 -> 13 [] k = 30 -> 1 [] k = 32 -> 4]

\* charcode[shift & (CTL | SHIFT)][data]; NO is 0.
charcode(sh, k) ==
  LET map == IF "CTL" \in sh THEN ctlmap ELSE IF "SHIFT" \in sh THEN shiftmap ELSE normalmap
  IN  IF k \in DOMAIN map THEN map[k] ELSE 0

\* Caps Lock exchanges the case of a letter.
FlipCase(c) == IF c \in 97..122 THEN c - 32 ELSE IF c \in 65..90 THEN c + 32 ELSE c

\* The index a break code names: with the prefix it is already the key's.
BreakKey(sh, data) == IF "E0ESC" \in sh THEN data ELSE data % 128

\* Mutant: a release leaves the prefix pending.
ReleasedKeepsEscape(sh, data) == sh \ shiftcode(BreakKey(sh, data))

\* The modifier state after a key goes up.
Released(sh, data) == sh \ (shiftcode(BreakKey(sh, data)) \cup {"E0ESC"})

\* The modifier state after key k goes down.
Pressed(sh, k) ==
  LET on == (sh \ {"E0ESC"}) \cup shiftcode(k)
  IN  (on \cup togglecode(k)) \ (on \cap togglecode(k))

\* One byte of the keyboard: the modifier state after it and the character
\* it completes, or 0.
kbd_proc_data(sh, data) ==
  LET k   == IF "E0ESC" \in sh THEN data + 128 ELSE data
      new == Pressed(sh, k)
      c   == charcode(new, k)
  IN  IF data = E0 THEN [shift |-> sh \cup {"E0ESC"}, c |-> 0]
      ELSE IF data >= 128 THEN [shift |-> Released(sh, data), c |-> 0]
      ELSE [shift |-> new, c |-> IF "CAPSLOCK" \in new THEN FlipCase(c) ELSE c]

-----------------------------------------------------------------------------
(* kern/console.c: the circular buffer.                                    *)

NextPos(p) == IF p + 1 = CONSBUFSIZE THEN 0 ELSE p + 1

\* Mutant: a break code is stored as a character.
StoreZero(q, c) == [q EXCEPT !.buf[q.wpos] = c, !.wpos = NextPos(q.wpos)]

\* cons_intr's loop body; the zero of an unfinished character is skipped.
Store(q, c) ==
  IF c = 0 THEN q
  ELSE [q EXCEPT !.buf[q.wpos] = c, !.wpos = NextPos(q.wpos)]

\* What is in the buffer to be read.
Waiting(q) == [i \in 1..((q.wpos - q.rpos) % CONSBUFSIZE) |-> q.buf[(q.rpos + i - 1) % CONSBUFSIZE]]

\* A character that makes the write position meet the read position.
Overruns(q, c) == c # 0 /\ NextPos(q.wpos) = q.rpos

Modifiers == {"SHIFT", "CTL", "CAPSLOCK", "E0ESC"}
Positions == 0..(CONSBUFSIZE - 1)

\* The state cons_intr works on.
InputType ==
  [shift : SUBSET Modifiers, overrun : BOOLEAN,
   cons : [buf : [Positions -> 0..255], rpos : Positions, wpos : Positions]]
Input == [shift |-> shift, cons |-> cons, overrun |-> overrun]

\* cons_intr(serial_proc_data): all the receive register holds.
serial_intr(in, reg) ==
  IF reg = << >> THEN in
  ELSE [in EXCEPT !.cons = Store(in.cons, reg[1]),
                  !.overrun = in.overrun \/ Overruns(in.cons, reg[1])]

\* One byte of the keyboard through cons_intr's loop.
KbdByte(s, d) ==
  LET p == kbd_proc_data(s.shift, d)
  IN  [shift |-> p.shift, cons |-> Store(s.cons, p.c), overrun |-> s.overrun \/ Overruns(s.cons, p.c)]

\* cons_intr(kbd_proc_data): all the controller holds, byte after byte.
kbd_intr(in, q) ==
  LET one[x \in InputType \X (0..255)] == KbdByte(x[1], x[2])
      after[i \in 0..Len(q)] == IF i = 0 THEN in ELSE one[<<after[i - 1], q[i]>>]
  IN  after[Len(q)]

\* Mutant: cons_getc leaves the devices to the interrupts.
PollNothing == [in |-> Input, uart |-> uart, kbd |-> kbd]

\* cons_getc's polling, which reaches the devices with interrupts disabled.
Poll == [in |-> kbd_intr(serial_intr(Input, uart), kbd), uart |-> << >>, kbd |-> << >>]

\* The rest of cons_getc: the next character, or 0, and the state without it.
cons_getc(in) ==
  IF in.cons.rpos = in.cons.wpos THEN [c |-> 0, in |-> in]
  ELSE [c |-> in.cons.buf[in.cons.rpos], in |-> [in EXCEPT !.cons.rpos = NextPos(in.cons.rpos)]]

-----------------------------------------------------------------------------
(* kern/console.c: the display.                                            *)

CRT_SIZE == CRT_ROWS * CRT_COLS
Cells == 0..(CRT_SIZE - 1)

\* At the end of the screen everything moves up one row.
Scroll(d) ==
  IF d.pos < CRT_SIZE THEN d
  ELSE [pos |-> d.pos - CRT_COLS,
        buf |-> [i \in Cells |-> IF i < CRT_SIZE - CRT_COLS THEN d.buf[i + CRT_COLS] ELSE 32]]

cga_putc(d, c) ==
  Scroll(CASE c = 8  -> IF d.pos > 0 THEN [pos |-> d.pos - 1, buf |-> [d.buf EXCEPT ![d.pos - 1] = 32]] ELSE d
           [] c = 10 -> [d EXCEPT !.pos = d.pos + CRT_COLS - (d.pos % CRT_COLS)]
           [] OTHER  -> [pos |-> d.pos + 1, buf |-> [d.buf EXCEPT ![d.pos] = c]])

-----------------------------------------------------------------------------
(* lib/readline.c: what a character does to the line.                      *)

\* Mutant: no room is kept for the terminating zero.
EditFull(l, c) == IF c >= 32 /\ Len(l) < BUFLEN THEN Append(l, c) ELSE l

\* The line after character c, which does not end it.  A backspace on an
\* empty line falls through to the next test, which an ASCII DEL passes.
Edit(l, c) ==
  IF c \in {8, 127} /\ Len(l) > 0 THEN Front(l)
  ELSE IF c >= 32 /\ Len(l) < BUFLEN - 1 THEN Append(l, c) ELSE l

\* Mutant: an ASCII DEL is not echoed.
EchoOnlyBackspace(d, l, c) ==
  CASE c = 8 /\ Len(l) > 0 -> cga_putc(d, 8)
    [] c >= 32 /\ c # 127 /\ Len(l) < BUFLEN - 1 -> cga_putc(d, c)
    [] c \in {10, 13} -> cga_putc(d, 10)
    [] OTHER -> d

\* What readline prints for character c when its input is the console.
Echo(d, l, c) ==
  CASE c \in {8, 127} /\ Len(l) > 0 -> cga_putc(d, 8)
    [] c >= 32 /\ ~(c = 127 /\ Len(l) > 0) /\ Len(l) < BUFLEN - 1 -> cga_putc(d, c)
    [] c \in {10, 13} -> cga_putc(d, 10)
    [] OTHER -> d

\* readline returns on these: at a line end with the line, at ^D with NULL.
EndsLine == {10, 13, EOF}

-----------------------------------------------------------------------------
(* The keyboard and the serial line.                                       *)

Init ==
  /\ held = {} /\ caps = FALSE /\ wire = << >> /\ kbd = << >> /\ uart = << >>
  /\ shift = {}
  /\ cons = [buf |-> [p \in Positions |-> 0], rpos |-> 0, wpos |-> 0]
  /\ line = [r \in Readers |-> Idle]
  /\ crt = [pos |-> CRTSTART, buf |-> [i \in Cells |-> 32]]
  /\ typed = << >> /\ heard = 0 /\ got = << >> /\ overrun = FALSE
  /\ asked = 0 /\ returns = 0 /\ events = 0 /\ bytes = 0

kernel == <<shift, cons, overrun, line, crt, got, asked, returns>>

\* The character a key means to the person who presses it, judged by the
\* keys that are down and not by the driver's tables.
Meaning(k, down, upper) ==
  LET ctl == down \cap CTLKEYS # {}
      big == (down \cap SHIFTKEYS # {}) # upper
      letter == IF k = 30 THEN 97 ELSE 100
  IN CASE k \in {30, 32} -> <<IF ctl THEN letter - 96 ELSE IF big THEN letter - 32 ELSE letter>>
       [] k = 28 -> <<IF ctl THEN 13 ELSE 10>>
       [] k = 14 -> IF ctl THEN << >> ELSE <<8>>
       [] OTHER -> << >>

\* A key goes down, or repeats while it is down.  Of the keys with the same
\* modifier one is down at a time, and Caps Lock does not repeat.
Press(k) ==
  /\ wire = << >> /\ events < EVENTMAX
  /\ shiftcode(k) # {} => \A j \in held \ {k} : shiftcode(j) # shiftcode(k)
  /\ k = CAPSKEY => k \notin held
  /\ held' = held \cup {k}
  /\ caps' = (caps # (k = CAPSKEY))
  /\ wire' = IF k >= 128 THEN <<E0, k - 128>> ELSE <<k>>
  /\ typed' = typed \o Meaning(k, held', caps')
  /\ events' = events + 1
  /\ UNCHANGED <<kbd, uart, heard, bytes, kernel>>

\* A key goes up.
Release(k) ==
  /\ wire = << >> /\ k \in held /\ events < EVENTMAX
  /\ held' = held \ {k}
  /\ wire' = IF k >= 128 THEN <<E0, k>> ELSE <<k + 128>>
  /\ events' = events + 1
  /\ UNCHANGED <<caps, kbd, uart, typed, heard, bytes, kernel>>

\* A byte of the keyboard reaches its controller.
Arrive ==
  /\ wire # << >>
  /\ kbd' = Append(kbd, Head(wire)) /\ wire' = Tail(wire)
  /\ UNCHANGED <<held, caps, uart, typed, heard, events, bytes, kernel>>

\* A byte reaches the serial port.  serial_init turned the FIFO off: it
\* replaces the one that was not read yet.
Receive(c) ==
  /\ bytes < SERIALMAX
  /\ uart' = <<c>> /\ bytes' = bytes + 1
  /\ heard' = IF uart = << >> THEN heard + 1 ELSE heard
  /\ UNCHANGED <<held, caps, wire, kbd, typed, events, kernel>>

-----------------------------------------------------------------------------
(* The kernel and the readers.                                             *)

Result(in) == shift' = in.shift /\ cons' = in.cons /\ overrun' = in.overrun

\* IRQ_KBD, taken while some environment runs.
KbdIntr ==
  /\ kbd # << >>
  /\ Result(kbd_intr(Input, kbd)) /\ kbd' = << >>
  /\ UNCHANGED <<held, caps, wire, uart, typed, heard, events, bytes, line, crt, got, asked, returns>>

\* IRQ_SERIAL.
SerialIntr ==
  /\ uart # << >>
  /\ Result(serial_intr(Input, uart)) /\ uart' = << >>
  /\ UNCHANGED <<held, caps, wire, kbd, typed, heard, events, bytes, line, crt, got, asked, returns>>

\* A program calls readline.
Readline(r) ==
  /\ line[r] = Idle /\ asked < ASKMAX
  /\ line' = [line EXCEPT ![r] = << >>] /\ asked' = asked + 1
  /\ UNCHANGED <<devices, shift, cons, crt, got, overrun, returns>>

\* What readline does with the character getchar returned.
ReadlineGot(r, c) ==
  /\ got' = Append(got, c)
  /\ crt' = Echo(crt, line[r], c)
  /\ line' = [line EXCEPT ![r] = IF c \in EndsLine THEN Idle ELSE Edit(line[r], c)]
  /\ returns' = IF c \in EndsLine THEN returns + 1 ELSE returns

\* readline calls getchar, which reads one character through devcons_read and
\* sys_cgetc; with none there devcons_read yields and tries again.
Getchar(r) ==
  /\ line[r] # Idle
  /\ \E poll \in {Poll} : \E g \in {cons_getc(poll.in)} :
       /\ kbd' = poll.kbd /\ uart' = poll.uart
       /\ Result(g.in)
       /\ IF g.c = 0 THEN UNCHANGED <<line, crt, got, returns>> ELSE ReadlineGot(r, g.c)
  /\ UNCHANGED <<held, caps, wire, typed, heard, events, bytes, asked>>

Next ==
  \/ \E k \in Keys : Press(k) \/ Release(k)
  \/ Arrive
  \/ \E c \in SerialBytes : Receive(c)
  \/ KbdIntr \/ SerialIntr
  \/ \E r \in Readers : Readline(r) \/ Getchar(r)

\* The keyboard sends what it has, and the round-robin scheduler runs some
\* reader again and again.  Interrupts need not be taken: the monitor reads
\* with interrupts disabled.
Fairness == WF_vars(Arrive) /\ WF_vars(\E r \in Readers : Getchar(r))

Spec == Init /\ [][Next]_vars /\ Fairness

-----------------------------------------------------------------------------
(* Properties.                                                             *)

\* Types; a line leaves room for its zero in readline's buffer, and the calls
\* of readline that have not returned are the readers that are in one.
TypeOK ==
  /\ held \subseteq Keys /\ caps \in BOOLEAN
  /\ Input \in InputType
  /\ crt \in [pos : Cells, buf : [Cells -> 0..255]]
  /\ \A r \in Readers : line[r] = Idle \/ Len(line[r]) < BUFLEN
  /\ asked - returns = Cardinality({r \in Readers : line[r] # Idle})

\* No byte is on its way from the devices to the buffer.
Drained == wire = << >> /\ kbd = << >> /\ uart = << >>

\* kbd_proc_data's modifier state is that of the keyboard once every byte has
\* been processed, whichever interrupts and polls the bytes came through: no
\* modifier sticks after its key is up, and no prefix is left over to change
\* the meaning of the next key.
ModifiersFollowKeys ==
  Drained => shift = (UNION {shiftcode(k) : k \in held}) \cup (IF caps THEN {"CAPSLOCK"} ELSE {})

\* Every character typed is handed to a reader, or waits for one, once and in
\* the order of typing.  When the buffer runs over, which cons_intr does not
\* test for, it loses exactly the CONSBUFSIZE characters it held and nothing
\* of what comes later; without that nothing is lost.
TypedArrives ==
  Drained =>
    LET out  == got \o Waiting(cons)
        lost == Len(typed) + heard - Len(out)
        keys == {i \in DOMAIN out : out[i] # 127}
    IN /\ lost % CONSBUFSIZE = 0 /\ lost >= 0
       /\ \E at \in [keys -> DOMAIN typed] :
            /\ \A i \in keys : out[i] = typed[at[i]]
            /\ \A i, j \in keys : i < j => at[i] < at[j]
            /\ ~overrun => lost = 0 /\ \A t \in DOMAIN typed : \E i \in keys : at[i] = t

\* What the user sees is what the program will get: the cells before the
\* cursor hold the line readline has so far, through deletions, wrapping rows
\* and scrolling, when one reader has the display to itself.
EchoShowsLine ==
  \A r \in Readers :
    Readers = {r} /\ line[r] # Idle =>
      LET n == Len(line[r])
      IN  n <= crt.pos /\ \A i \in 1..n : crt.buf[crt.pos - n + i - 1] = line[r][i]

\* Polling alone delivers lines: with n line ends typed and n calls of
\* readline made, n calls return, unless the buffer ran over.
LineDelivered ==
  \A n \in 1..ASKMAX :
    (Len(SelectSeq(typed, LAMBDA c : c \in EndsLine)) >= n /\ asked >= n)
      ~> (returns >= n \/ overrun)
=============================================================================

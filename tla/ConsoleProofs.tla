---------------------------- MODULE ConsoleProofs ----------------------------
(***************************************************************************)
(* What readline echoes is what it keeps, on a display of any size and for *)
(* a buffer of any length, whatever characters the buffer of console.c     *)
(* hands out.  And those characters are the ones typed: the invariant      *)
(* KeysInv reads the bytes that have not been processed as a path from the *)
(* driver's modifier state to that of the keyboard, which completes the    *)
(* characters that have been typed and not yet stored, and names for every *)
(* character that was stored and not overrun the one typed.                *)
(***************************************************************************)
EXTENDS Console, TLAPS, SequenceTheorems, FiniteSetTheorems, WellFoundedInduction

-----------------------------------------------------------------------------
(* The inductive invariant. *)

\* A display: the cursor is on it.
Screen(d) ==
  /\ d = [pos |-> d.pos, buf |-> d.buf]
  /\ d.pos \in Cells
  /\ d.buf = [i \in Cells |-> d.buf[i]]

\* A line of some characters with room for the terminating zero.
Held(l) == l \in Seq(Range(l)) /\ Len(l) < BUFLEN

\* The cells before the cursor hold the line l.
Shown(l, d) ==
  /\ Len(l) <= d.pos
  /\ \A i \in 1 .. Len(l) : d.buf[d.pos - Len(l) + i - 1] = l[i]

EchoInv ==
  /\ Screen(crt)
  /\ line = [r \in Readers |-> line[r]]
  /\ \A r \in Readers :
       line[r] # Idle => Held(line[r]) /\ (Readers = {r} => Shown(line[r], crt))

-----------------------------------------------------------------------------
(* The display. *)

\* The rows above the last one hold any line.
LEMMA SizeIs ==
  /\ CRT_SIZE \in Nat /\ CRT_COLS \in Nat /\ CRT_COLS > 0 /\ CRT_COLS <= CRT_SIZE
  /\ BUFLEN \in Nat /\ BUFLEN - 1 <= CRT_SIZE - CRT_COLS
  /\ CRTSTART \in Cells
  <1>1. CRT_ROWS \in Nat /\ CRT_ROWS >= 1 /\ CRT_COLS \in Nat /\ CRT_COLS >= 1
    BY DisplayAssumption
  <1>2. CRT_ROWS * CRT_COLS \in Nat /\ (CRT_ROWS - 1) * CRT_COLS = CRT_ROWS * CRT_COLS - CRT_COLS
    BY <1>1
  <1>3. (CRT_ROWS - 1) * CRT_COLS >= 0
    BY <1>1
  <1>4. QED BY <1>1, <1>2, <1>3, DisplayAssumption, BufferAssumption DEF CRT_SIZE, Cells

\* The next line starts on the display or just below it.
LEMMA NextRow ==
  ASSUME NEW p \in Cells
  PROVE  p + CRT_COLS - (p % CRT_COLS) \in 1 .. CRT_SIZE
  <1> DEFINE q == p \div CRT_COLS
             m == p % CRT_COLS
  <1>1. CRT_ROWS \in Nat /\ CRT_COLS \in Nat /\ CRT_COLS >= 1 /\ p \in Nat /\ p < CRT_SIZE
    BY DisplayAssumption, SizeIs DEF Cells
  <1>2. q \in Nat /\ m \in 0 .. CRT_COLS - 1 /\ p = CRT_COLS * q + m
    BY <1>1
  <1>3. q < CRT_ROWS
    <2>1. SUFFICES ASSUME q >= CRT_ROWS PROVE FALSE
      BY <1>1, <1>2
    <2>2. CRT_COLS * q >= CRT_COLS * CRT_ROWS
      BY <1>1, <1>2, <2>1
    <2>3. QED BY <1>1, <1>2, <2>2 DEF CRT_SIZE
  <1>4. CRT_COLS * (q + 1) <= CRT_COLS * CRT_ROWS /\ CRT_COLS * (q + 1) = CRT_COLS * q + CRT_COLS
    <2> HIDE DEF q
    <2>1. QED BY <1>1, <1>2, <1>3
  <1>5. QED BY <1>1, <1>2, <1>4 DEF CRT_SIZE

\* Scrolling brings the cursor back onto the display.
LEMMA ScrollScreen ==
  ASSUME NEW p \in 0 .. CRT_SIZE, NEW b, b = [i \in Cells |-> b[i]]
  PROVE  Screen(Scroll([pos |-> p, buf |-> b]))
  <1>1. CASE p < CRT_SIZE
    BY <1>1, SizeIs DEF Scroll, Screen, Cells
  <1>2. CASE ~(p < CRT_SIZE)
    <2> DEFINE up == [i \in Cells |-> IF i < CRT_SIZE - CRT_COLS THEN b[i + CRT_COLS] ELSE 32]
    <2>1. Scroll([pos |-> p, buf |-> b]) = [pos |-> p - CRT_COLS, buf |-> up]
      BY <1>2 DEF Scroll
    <2>2. p - CRT_COLS \in Cells
      BY <1>2, SizeIs DEF Cells
    <2>3. up = [i \in Cells |-> up[i]]
      OBVIOUS
    <2> HIDE DEF up
    <2>4. QED BY <2>1, <2>2, <2>3 DEF Screen
  <1>3. QED BY <1>1, <1>2, SizeIs

\* What cga_putc does, character by character.
LEMMA PutcIs ==
  ASSUME NEW d, Screen(d), NEW c
  PROVE  /\ cga_putc(d, 8) =
              Scroll(IF d.pos > 0 THEN [pos |-> d.pos - 1, buf |-> [d.buf EXCEPT ![d.pos - 1] = 32]] ELSE d)
         /\ cga_putc(d, 10) = Scroll([pos |-> d.pos + CRT_COLS - (d.pos % CRT_COLS), buf |-> d.buf])
         /\ c \notin {8, 10} =>
              cga_putc(d, c) = Scroll([pos |-> d.pos + 1, buf |-> [d.buf EXCEPT ![d.pos] = c]])
  <1>1. [d EXCEPT !.pos = d.pos + CRT_COLS - (d.pos % CRT_COLS)] =
          [pos |-> d.pos + CRT_COLS - (d.pos % CRT_COLS), buf |-> d.buf]
    BY DEF Screen
  <1>2. QED BY <1>1 DEF cga_putc

\* Whatever is printed, the cursor stays on the display.
LEMMA PutcScreen ==
  ASSUME NEW d, Screen(d), NEW c
  PROVE  Screen(cga_putc(d, c))
  <1>1. d.pos \in Cells /\ d.buf = [i \in Cells |-> d.buf[i]] /\ Scroll(d) = d
    BY SizeIs DEF Screen, Scroll, Cells
  <1>2. ASSUME NEW p \in 0 .. CRT_SIZE, NEW i, NEW x
        PROVE  Screen(Scroll([pos |-> p, buf |-> [d.buf EXCEPT ![i] = x]]))
    <2> DEFINE b == [d.buf EXCEPT ![i] = x]
    <2>1. b = [j \in Cells |-> b[j]]
      BY <1>1
    <2> HIDE DEF b
    <2>2. Screen(Scroll([pos |-> p, buf |-> b]))
      BY <2>1, ScrollScreen
    <2>3. QED BY <2>2 DEF b
  <1>3. CASE c = 8
    <2>1. CASE d.pos > 0
      <3>1. cga_putc(d, c) = Scroll([pos |-> d.pos - 1, buf |-> [d.buf EXCEPT ![d.pos - 1] = 32]])
        BY <1>3, <2>1, PutcIs
      <3>2. d.pos - 1 \in 0 .. CRT_SIZE
        BY <1>1, <2>1, SizeIs DEF Cells
      <3>3. QED BY <1>2, <3>1, <3>2
    <2>2. CASE ~(d.pos > 0)
      BY <1>1, <1>3, <2>2, PutcIs
    <2>3. QED BY <2>1, <2>2
  <1>4. CASE c = 10
    <2>1. cga_putc(d, c) = Scroll([pos |-> d.pos + CRT_COLS - (d.pos % CRT_COLS), buf |-> d.buf])
      BY <1>4, PutcIs
    <2>2. d.pos + CRT_COLS - (d.pos % CRT_COLS) \in 0 .. CRT_SIZE
      BY <1>1, NextRow
    <2>3. QED BY <1>1, <2>1, <2>2, ScrollScreen
  <1>5. CASE c \notin {8, 10}
    <2>1. cga_putc(d, c) = Scroll([pos |-> d.pos + 1, buf |-> [d.buf EXCEPT ![d.pos] = c]])
      BY <1>5, PutcIs
    <2>2. d.pos + 1 \in 0 .. CRT_SIZE
      BY <1>1, SizeIs DEF Cells
    <2>3. QED BY <1>2, <2>1, <2>2
  <1>6. QED BY <1>3, <1>4, <1>5

\* A backspace takes the last character off the display.
LEMMA BackShown ==
  ASSUME NEW d, Screen(d), NEW S, NEW l \in Seq(S), Len(l) > 0, Shown(l, d)
  PROVE  Shown(Front(l), cga_putc(d, 8))
  <1> DEFINE b == [d.buf EXCEPT ![d.pos - 1] = 32]
             n == Len(l) - 1
  <1>1. /\ d.pos \in Cells /\ d.buf = [i \in Cells |-> d.buf[i]] /\ Len(l) \in Nat /\ n \in Nat
        /\ Len(l) <= d.pos /\ \A i \in 1 .. Len(l) : d.buf[d.pos - Len(l) + i - 1] = l[i]
    <2>1. Len(l) \in Nat /\ n \in Nat
      BY LenProperties
    <2>2. QED BY <2>1 DEF Screen, Shown
  <1>2. d.pos > 0 /\ d.pos - 1 < CRT_SIZE
    BY <1>1, SizeIs DEF Cells
  <1>3. cga_putc(d, 8) = Scroll([pos |-> d.pos - 1, buf |-> b])
    BY <1>2, PutcIs
  <1>4. cga_putc(d, 8) = [pos |-> d.pos - 1, buf |-> b]
    BY <1>2, <1>3 DEF Scroll
  <1>5. Len(Front(l)) = n /\ \A i \in 1 .. n : Front(l)[i] = l[i]
    <2>1. \A i \in 1 .. n : l[i] \in S
      BY <1>1, ElementOfSeq
    <2>2. /\ Len(SubSeq(l, 1, n)) = IF 1 <= n THEN n - 1 + 1 ELSE 0
          /\ \A i \in 1 .. n - 1 + 1 : SubSeq(l, 1, n)[i] = l[1 + i - 1]
      <3> HIDE DEF n
      <3>1. QED BY <1>1, <2>1, SubSeqProperties
    <2>3. Front(l) = SubSeq(l, 1, n)
      BY DEF Front
    <2> HIDE DEF n
    <2>4. QED BY <1>1, <2>2, <2>3
  <1>6. ASSUME NEW i \in 1 .. n PROVE b[d.pos - 1 - n + i - 1] = Front(l)[i]
    <2>1. i \in 1 .. Len(l) /\ d.pos - 1 - n + i - 1 = d.pos - Len(l) + i - 1
      BY <1>1, SizeIs DEF Cells
    <2>2. d.pos - Len(l) + i - 1 \in Cells /\ d.pos - Len(l) + i - 1 # d.pos - 1
      BY <1>1, SizeIs DEF Cells
    <2>3. b[d.pos - Len(l) + i - 1] = d.buf[d.pos - Len(l) + i - 1]
      BY <1>1, <2>2
    <2>4. d.buf[d.pos - Len(l) + i - 1] = l[i]
      BY <1>1, <2>1
    <2> HIDE DEF b
    <2>5. QED BY <1>5, <2>1, <2>3, <2>4
  <1>7. n <= d.pos - 1
    BY <1>1, SizeIs DEF Cells
  <1> HIDE DEF b, n
  <1>8. QED BY <1>4, <1>5, <1>6, <1>7 DEF Shown

\* The line scrolls with the cursor, if it is not longer than the rows that stay.
LEMMA ScrollShown ==
  ASSUME NEW p \in 1 .. CRT_SIZE, NEW b, NEW l, NEW n \in Nat, Len(l) = n,
         n <= p, n <= CRT_SIZE - CRT_COLS, \A i \in 1 .. n : b[p - n + i - 1] = l[i]
  PROVE  Shown(l, Scroll([pos |-> p, buf |-> b]))
  <1>1. CASE p < CRT_SIZE
    BY <1>1 DEF Scroll, Shown
  <1>2. CASE ~(p < CRT_SIZE)
    <2> DEFINE up == [i \in Cells |-> IF i < CRT_SIZE - CRT_COLS THEN b[i + CRT_COLS] ELSE 32]
               top == p - CRT_COLS
    <2>1. Scroll([pos |-> p, buf |-> b]) = [pos |-> top, buf |-> up]
      BY <1>2 DEF Scroll
    <2>2. p = CRT_SIZE /\ top \in Nat /\ top = CRT_SIZE - CRT_COLS /\ n <= top
      BY <1>2, SizeIs
    <2>3. ASSUME NEW i \in 1 .. n PROVE up[top - n + i - 1] = l[i]
      <3>1. top - n + i - 1 \in Cells /\ top - n + i - 1 < CRT_SIZE - CRT_COLS
        BY <2>2, SizeIs DEF Cells
      <3>2. up[top - n + i - 1] = b[top - n + i - 1 + CRT_COLS]
        BY <3>1
      <3>3. top - n + i - 1 + CRT_COLS = p - n + i - 1
        BY <2>2, SizeIs
      <3>4. QED BY <3>2, <3>3
    <2> HIDE DEF up, top
    <2>4. QED BY <2>1, <2>2, <2>3 DEF Shown
  <1>3. QED BY <1>1, <1>2

\* A character is printed after the line.
LEMMA PutShown ==
  ASSUME NEW d, Screen(d), NEW S, NEW l \in Seq(S), Shown(l, d), NEW c \in S, c \notin {8, 10},
         Len(l) + 1 <= CRT_SIZE - CRT_COLS
  PROVE  Shown(Append(l, c), cga_putc(d, c))
  <1> DEFINE b == [d.buf EXCEPT ![d.pos] = c]
             k == Append(l, c)
             n == Len(l) + 1
             p == d.pos + 1
  <1>1. /\ d.pos \in Cells /\ d.buf = [i \in Cells |-> d.buf[i]] /\ Len(l) \in Nat
        /\ Len(l) <= d.pos /\ \A i \in 1 .. Len(l) : d.buf[d.pos - Len(l) + i - 1] = l[i]
    BY LenProperties DEF Screen, Shown
  <1>2. Len(k) = n /\ \A i \in 1 .. n : k[i] = IF i = n THEN c ELSE l[i]
    BY <1>1
  <1>3. cga_putc(d, c) = Scroll([pos |-> p, buf |-> b])
    BY PutcIs
  <1>4. ASSUME NEW i \in 1 .. n PROVE b[p - n + i - 1] = k[i]
    <2>1. p - n + i - 1 = d.pos - Len(l) + i - 1 /\ d.pos - Len(l) + i - 1 \in Cells
      <3>1. d.pos \in Int /\ Len(l) \in Int /\ i \in Int /\ 1 <= i /\ i <= Len(l) + 1
        BY <1>1, SizeIs DEF Cells
      <3>2. p - n + i - 1 = d.pos - Len(l) + i - 1
        <4>1. PICK u, v : u = d.pos /\ v = Len(l)
          OBVIOUS
        <4>2. (u + 1) - (v + 1) + i - 1 = u - v + i - 1
          <5>1. u \in Int /\ v \in Int /\ i \in Int
            BY <3>1, <4>1
          <5>2. QED BY <5>1
        <4>3. QED BY <4>1, <4>2
      <3>3. d.pos - Len(l) + i - 1 \in Cells
        <4>1. PICK u, v : u = d.pos /\ v = Len(l)
          OBVIOUS
        <4>2. u \in Cells /\ v \in Nat /\ v <= u /\ i \in Int /\ 1 <= i /\ i <= v + 1
          BY <1>1, <3>1, <4>1
        <4>3. u - v + i - 1 \in Cells
          BY <4>2, SizeIs DEF Cells
        <4>4. QED BY <4>1, <4>3
      <3>4. QED BY <3>2, <3>3
    <2>2. CASE i = n
      <3>1. d.pos - Len(l) + i - 1 = d.pos
        BY <1>1, <2>2, SizeIs DEF Cells
      <3>2. b[d.pos] = c
        BY <1>1
      <3> HIDE DEF b
      <3>3. QED BY <1>2, <2>1, <2>2, <3>1, <3>2
    <2>3. CASE i # n
      <3>1. i \in 1 .. Len(l) /\ d.pos - Len(l) + i - 1 # d.pos
        BY <1>1, <2>3, SizeIs DEF Cells
      <3>2. b[d.pos - Len(l) + i - 1] = d.buf[d.pos - Len(l) + i - 1]
        BY <1>1, <2>1, <3>1
      <3>3. d.buf[d.pos - Len(l) + i - 1] = l[i]
        BY <1>1, <3>1
      <3> HIDE DEF b
      <3>4. QED BY <1>2, <2>1, <2>3, <3>2, <3>3
    <2>4. QED BY <2>2, <2>3
  <1>5. n \in Nat /\ n <= p /\ p \in 1 .. CRT_SIZE /\ n <= CRT_SIZE - CRT_COLS
    BY <1>1, SizeIs DEF Cells
  <1>6. Shown(k, Scroll([pos |-> p, buf |-> b]))
    <2> HIDE DEF b, n, k, p
    <2>1. QED BY <1>2, <1>4, <1>5, ScrollShown
  <1>7. QED BY <1>3, <1>6

-----------------------------------------------------------------------------
(* A character of readline. *)

\* What readline keeps is a line.
LEMMA EditHeld ==
  ASSUME NEW l, Held(l), NEW c
  PROVE  Held(Edit(l, c))
  <1> DEFINE S == Range(l) \cup {c}
  <1>1. l \in Seq(S) /\ Len(l) \in Nat /\ Len(l) < BUFLEN
    BY SeqMonotonic, LenProperties DEF Held
  <1>2. Edit(l, c) \in Seq(S) /\ Len(Edit(l, c)) < BUFLEN
    <2>1. CASE c \in {8, 127} /\ Len(l) > 0
      BY <1>1, <2>1, SizeIs DEF Edit, Front
    <2>2. CASE ~(c \in {8, 127} /\ Len(l) > 0) /\ c >= 32 /\ Len(l) < BUFLEN - 1
      BY <1>1, <2>2, SizeIs DEF Edit
    <2>3. CASE ~(c \in {8, 127} /\ Len(l) > 0) /\ ~(c >= 32 /\ Len(l) < BUFLEN - 1)
      BY <1>1, <2>3 DEF Edit
    <2>4. QED BY <2>1, <2>2, <2>3
  <1>3. QED BY <1>2, SeqOfRange DEF Held

\* The echo is a display.
LEMMA EchoScreen ==
  ASSUME NEW d, Screen(d), NEW l, NEW c
  PROVE  Screen(Echo(d, l, c))
  <1>1. Echo(d, l, c) = d \/ \E x : Echo(d, l, c) = cga_putc(d, x)
    BY DEF Echo
  <1>2. QED BY <1>1, PutcScreen

\* The echo shows the line as edited.
LEMMA EchoShown ==
  ASSUME NEW d, Screen(d), NEW l, Held(l), Shown(l, d), NEW c, c \notin EndsLine
  PROVE  Shown(Edit(l, c), Echo(d, l, c))
  <1> DEFINE S == Range(l) \cup {c}
  <1>1. l \in Seq(S) /\ Len(l) \in Nat /\ c \in S
    BY SeqMonotonic, LenProperties DEF Held
  <1>2. CASE c \in {8, 127} /\ Len(l) > 0
    <2>1. Echo(d, l, c) = cga_putc(d, 8) /\ Edit(l, c) = Front(l)
      BY <1>2 DEF Echo, Edit
    <2>2. QED BY <1>1, <1>2, <2>1, BackShown
  <1>3. CASE ~(c \in {8, 127} /\ Len(l) > 0) /\ c >= 32 /\ Len(l) < BUFLEN - 1
    <2>1. Echo(d, l, c) = cga_putc(d, c) /\ Edit(l, c) = Append(l, c) /\ c \notin {8, 10}
      BY <1>3 DEF Echo, Edit, EndsLine
    <2>2. Len(l) + 1 <= CRT_SIZE - CRT_COLS
      BY <1>1, <1>3, SizeIs
    <2>3. QED BY <1>1, <2>1, <2>2, PutShown
  <1>4. CASE ~(c \in {8, 127} /\ Len(l) > 0) /\ ~(c >= 32 /\ Len(l) < BUFLEN - 1)
    <2>1. Echo(d, l, c) = d /\ Edit(l, c) = l
      BY <1>4 DEF Echo, Edit, EndsLine
    <2>2. QED BY <2>1
  <1>5. QED BY <1>2, <1>3, <1>4

-----------------------------------------------------------------------------
(* The invariant. *)

\* The display is blank and no one reads.
LEMMA InitEcho == Init => EchoInv
  BY SizeIs DEF Init, EchoInv, Screen

\* A reader that takes a character, another step, or none.
LEMMA NextEcho == EchoInv /\ [Next]_vars => EchoInv'
  <1> SUFFICES ASSUME EchoInv, [Next]_vars PROVE EchoInv'
    OBVIOUS
  <1>1. ASSUME UNCHANGED <<line, crt>> PROVE EchoInv'
    BY <1>1 DEF EchoInv
  <1>2. ASSUME NEW r \in Readers, Readline(r) PROVE EchoInv'
    <2>1. line' = [line EXCEPT ![r] = << >>] /\ crt' = crt
      BY <1>2 DEF Readline
    <2>2. Held(<< >>) /\ Shown(<< >>, crt)
      <3>1. << >> \in Seq(Range(<< >>)) /\ Len(<< >>) = 0
        OBVIOUS
      <3>2. QED BY <3>1, SizeIs, BufferAssumption DEF Held, Shown, EchoInv, Screen, Cells
    <2>3. QED BY <2>1, <2>2 DEF EchoInv
  <1>3. ASSUME NEW r \in Readers, Getchar(r) PROVE EchoInv'
    <2>1. PICK c : ReadlineGot(r, c) \/ UNCHANGED <<line, crt>>
      BY <1>3 DEF Getchar
    <2>2. CASE UNCHANGED <<line, crt>>
      BY <1>1, <2>2
    <2>3. CASE ReadlineGot(r, c)
      <3>1. /\ crt' = Echo(crt, line[r], c)
            /\ line' = [line EXCEPT ![r] = IF c \in EndsLine THEN Idle ELSE Edit(line[r], c)]
            /\ line[r] # Idle
        BY <1>3, <2>3 DEF ReadlineGot, Getchar
      <3>2. Held(line[r]) /\ Screen(crt) /\ line = [s \in Readers |-> line[s]]
        BY <3>1 DEF EchoInv
      <3>3. Screen(crt')
        BY <3>1, <3>2, EchoScreen
      <3>4. ASSUME NEW s \in Readers, line'[s] # Idle PROVE Held(line'[s])
        <4>1. CASE s = r
          BY <3>1, <3>2, <3>4, <4>1, EditHeld
        <4>2. CASE s # r
          BY <3>1, <3>2, <3>4, <4>2 DEF EchoInv
        <4>3. QED BY <4>1, <4>2
      <3>5. ASSUME NEW s \in Readers, line'[s] # Idle, Readers = {s} PROVE Shown(line'[s], crt')
        <4>1. s = r
          BY <3>5
        <4>2. c \notin EndsLine /\ line'[s] = Edit(line[r], c)
          BY <3>1, <3>2, <3>5, <4>1
        <4>3. Shown(line[r], crt)
          BY <3>1, <3>5, <4>1 DEF EchoInv
        <4>4. QED BY <3>1, <3>2, <4>2, <4>3, EchoShown
      <3>6. line' = [s \in Readers |-> line'[s]]
        BY <3>1, <3>2
      <3>7. QED BY <3>3, <3>4, <3>5, <3>6 DEF EchoInv
    <2>4. QED BY <2>1, <2>2, <2>3
  <1>4. CASE UNCHANGED vars
    BY <1>1, <1>4 DEF vars
  <1>5. ASSUME NEW k \in Keys, Press(k) \/ Release(k) PROVE EchoInv'
    BY <1>1, <1>5 DEF Press, Release, kernel
  <1>6. CASE Arrive
    BY <1>1, <1>6 DEF Arrive, kernel
  <1>7. ASSUME NEW c \in SerialBytes, Receive(c) PROVE EchoInv'
    BY <1>1, <1>7 DEF Receive, kernel
  <1>8. CASE KbdIntr \/ SerialIntr
    BY <1>1, <1>8 DEF KbdIntr, SerialIntr
  <1>9. QED BY <1>2, <1>3, <1>4, <1>5, <1>6, <1>7, <1>8 DEF Next

(* The user sees the line the program will get: backspaces, deletions,     *)
(* wrapping rows and scrolling leave readline's buffer and the cells       *)
(* before the cursor equal, for every size of both.                        *)
THEOREM EchoShowsLineHolds == Spec => []EchoShowsLine
  <1>1. Init => EchoInv
    BY InitEcho
  <1>2. EchoInv /\ [Next]_vars => EchoInv'
    BY NextEcho
  <1>3. EchoInv => EchoShowsLine
    <2>1. SUFFICES ASSUME EchoInv, NEW r \in Readers, Readers = {r}, line[r] # Idle
                   PROVE  Shown(line[r], crt)
      BY DEF EchoShowsLine, Shown
    <2>2. QED BY <2>1 DEF EchoInv
  <1>4. QED BY <1>1, <1>2, <1>3, PTL DEF Spec


-----------------------------------------------------------------------------
(* kbd_intr, byte after byte. *)

\* The loop body as a function.
One == [x \in InputType \X (0..255) |-> KbdByte(x[1], x[2])]

StepOf(f, q, i) == One[<<f[i - 1], q[i]>>]

\* The states kbd_intr goes through in the first n bytes of q.
IsRun(f, in, q, n) == f = [i \in 0 .. n |-> IF i = 0 THEN in ELSE StepOf(f, q, i)]

\* There is a least number in a set of natural numbers.
LEMMA LeastElement ==
  ASSUME NEW T, T \subseteq Nat, T # {}
  PROVE  \E x \in T : \A y \in T : x <= y
  <1>1. PICK x \in T : \A y \in T : <<y, x>> \notin OpToRel(<, Nat)
    BY WFMin, NatLessThanWellFounded, Zenon
  <1>2. \A y \in T : ~(y < x)
    BY <1>1, Zenon DEF OpToRel
  <1>3. QED BY <1>2

\* The loop has a run over any number of bytes.
LEMMA RunExists ==
  ASSUME NEW in, NEW q, NEW m \in Nat
  PROVE  \E f : IsRun(f, in, q, m)
  <1> DEFINE T == {n \in Nat : ~\E f : IsRun(f, in, q, n)}
  <1>1. SUFFICES ASSUME T # {} PROVE FALSE
    OBVIOUS
  <1>2. PICK n \in T : \A y \in T : n <= y
    BY <1>1, LeastElement
  <1>3. CASE n = 0
    <2>1. IsRun([i \in 0 .. 0 |-> in], in, q, 0)
      BY DEF IsRun
    <2>2. QED BY <1>2, <1>3, <2>1
  <1>4. CASE n # 0
    <2>1. n - 1 \in Nat /\ n - 1 \notin T
      BY <1>2, <1>4
    <2>2. PICK f : IsRun(f, in, q, n - 1)
      BY <2>1
    <2> DEFINE h == [i \in 0 .. n |-> IF i = n THEN StepOf(f, q, n) ELSE f[i]]
    <2>3. ASSUME NEW i \in 0 .. n PROVE h[i] = IF i = 0 THEN in ELSE StepOf(h, q, i)
      <3>1. \A j \in 0 .. n - 1 : f[j] = IF j = 0 THEN in ELSE StepOf(f, q, j)
        BY <2>2 DEF IsRun
      <3>2. h[i] = (IF i = n THEN StepOf(f, q, n) ELSE f[i]) /\ (i # 0 => h[i - 1] = f[i - 1])
        BY <2>1
      <3>4. i # 0 => StepOf(h, q, i) = StepOf(f, q, i)
        BY <3>2 DEF StepOf
      <3> HIDE DEF h
      <3>3. QED BY <1>4, <2>1, <3>1, <3>2, <3>4
    <2>4. h = [i \in 0 .. n |-> h[i]]
      OBVIOUS
    <2> HIDE DEF h
    <2>5. IsRun(h, in, q, n)
      BY <2>3, <2>4 DEF IsRun
    <2>6. QED BY <1>2, <2>5
  <1>5. QED BY <1>3, <1>4

LEMMA OneIs ==
  ASSUME NEW s \in InputType, NEW d \in 0 .. 255
  PROVE  One[<<s, d>>] = KbdByte(s, d)
  <1> DEFINE x == <<s, d>>
  <1>1. x \in InputType \X (0 .. 255) /\ x[1] = s /\ x[2] = d
    OBVIOUS
  <1> HIDE DEF x
  <1>2. One[x] = KbdByte(s, d)
    BY <1>1 DEF One
  <1>3. QED BY <1>2 DEF x

\* What each byte keeps, kbd_intr keeps: W[i] is a set of states in which
\* the loop is after i bytes.
LEMMA KbdKeeps ==
  ASSUME NEW in, NEW q \in Seq(0 .. 255), NEW W,
         in \in W[0], \A i \in 0 .. Len(q) : W[i] \subseteq InputType,
         \A i \in 1 .. Len(q) : \A s \in W[i - 1] : KbdByte(s, q[i]) \in W[i]
  PROVE  kbd_intr(in, q) \in W[Len(q)]
  <1> DEFINE n == Len(q)
             f == CHOOSE g : IsRun(g, in, q, n)
  <1>1. n \in Nat
    OBVIOUS
  <1>2. kbd_intr(in, q) = f[n]
    BY DEF kbd_intr, One, StepOf, IsRun
  <1>3. IsRun(f, in, q, n)
    BY <1>1, RunExists
  <1> HIDE DEF f
  <1>4. \A i \in 0 .. n : f[i] = IF i = 0 THEN in ELSE StepOf(f, q, i)
    BY <1>3 DEF IsRun
  <1> DEFINE T == {i \in Nat : i <= n /\ f[i] \notin W[i]}
  <1>5. CASE T = {}
    BY <1>1, <1>2, <1>5
  <1>6. CASE T # {}
    <2>1. PICK i \in T : \A y \in T : i <= y
      BY <1>6, LeastElement
    <2>2. i # 0
      BY <1>1, <1>4, <2>1
    <2>3. i \in 1 .. n /\ i - 1 \in 0 .. n /\ f[i - 1] \in W[i - 1]
      BY <1>1, <2>1, <2>2
    <2>4. f[i - 1] \in InputType /\ q[i] \in 0 .. 255
      <3>1. q[i] \in 0 .. 255
        BY <2>3, ElementOfSeq
      <3>2. W[i - 1] \subseteq InputType
        BY <2>3
      <3>3. QED BY <2>3, <3>1, <3>2
    <2>5. f[i] = KbdByte(f[i - 1], q[i])
      <3>1. f[i] = StepOf(f, q, i)
        BY <1>4, <2>2, <2>3
      <3>2. One[<<f[i - 1], q[i]>>] = KbdByte(f[i - 1], q[i])
        BY <2>4, OneIs
      <3>3. QED BY <3>1, <3>2 DEF StepOf
    <2>6. QED BY <2>1, <2>3, <2>5
  <1>7. QED BY <1>5, <1>6

-----------------------------------------------------------------------------
(* kbd_proc_data and the tables. *)

\* What the tables give.
Chars == {0, 1, 4, 8, 10, 13, 65, 68, 97, 100}

LEMMA MapsAre ==
  /\ DOMAIN normalmap = {14, 28, 30, 32} /\ DOMAIN shiftmap = {14, 28, 30, 32}
  /\ DOMAIN ctlmap = {28, 30, 32}
  /\ normalmap[14] = 8 /\ normalmap[28] = 10 /\ normalmap[30] = 97 /\ normalmap[32] = 100
  /\ shiftmap[14] = 8 /\ shiftmap[28] = 10 /\ shiftmap[30] = 65 /\ shiftmap[32] = 68
  /\ ctlmap[28] = 13 /\ ctlmap[30] = 1 /\ ctlmap[32] = 4
  BY DEF normalmap, shiftmap, ctlmap

LEMMA CharcodeIs ==
  ASSUME NEW sh, NEW k
  PROVE  /\ charcode(sh, k) \in Chars
         /\ k \notin {14, 28, 30, 32} => charcode(sh, k) = 0
         /\ "CTL" \in sh =>
              charcode(sh, k) = IF k = 28 THEN 13 ELSE IF k = 30 THEN 1 ELSE IF k = 32 THEN 4 ELSE 0
         /\ "CTL" \notin sh /\ "SHIFT" \in sh =>
              charcode(sh, k) = IF k = 14 THEN 8 ELSE IF k = 28 THEN 10
                                ELSE IF k = 30 THEN 65 ELSE IF k = 32 THEN 68 ELSE 0
         /\ "CTL" \notin sh /\ "SHIFT" \notin sh =>
              charcode(sh, k) = IF k = 14 THEN 8 ELSE IF k = 28 THEN 10
                                ELSE IF k = 30 THEN 97 ELSE IF k = 32 THEN 100 ELSE 0
  <1>1. CASE "CTL" \in sh
    BY <1>1, MapsAre DEF charcode, Chars
  <1>2. CASE "CTL" \notin sh /\ "SHIFT" \in sh
    BY <1>2, MapsAre DEF charcode, Chars
  <1>3. CASE "CTL" \notin sh /\ "SHIFT" \notin sh
    BY <1>3, MapsAre DEF charcode, Chars
  <1>4. QED BY <1>1, <1>2, <1>3

LEMMA ProcTyped ==
  ASSUME NEW sh \in SUBSET Modifiers, NEW d \in 0 .. 255
  PROVE  /\ kbd_proc_data(sh, d).shift \in SUBSET Modifiers
         /\ kbd_proc_data(sh, d).c \in 0 .. 255
  <1> DEFINE k == IF "E0ESC" \in sh THEN d + 128 ELSE d
             new == Pressed(sh, k)
             c == charcode(new, k)
  <1>1. kbd_proc_data(sh, d) =
          IF d = E0 THEN [shift |-> sh \cup {"E0ESC"}, c |-> 0]
          ELSE IF d >= 128 THEN [shift |-> Released(sh, d), c |-> 0]
          ELSE [shift |-> new, c |-> IF "CAPSLOCK" \in new THEN FlipCase(c) ELSE c]
    BY DEF kbd_proc_data
  <1>2. sh \cup {"E0ESC"} \in SUBSET Modifiers /\ Released(sh, d) \in SUBSET Modifiers
    BY DEF Modifiers, Released
  <1>3. new \in SUBSET Modifiers
    <2>1. shiftcode(k) \in SUBSET Modifiers /\ togglecode(k) \in SUBSET Modifiers
      BY DEF shiftcode, togglecode, Modifiers
    <2>2. QED BY <2>1 DEF Pressed
  <1>4. c \in Chars
    BY CharcodeIs
  <1> HIDE DEF new, c
  <1>5. c \in 0 .. 255 /\ FlipCase(c) \in 0 .. 255
    BY <1>4 DEF Chars, FlipCase
  <1>6. QED BY <1>1, <1>2, <1>3, <1>5

\* The modifier state that the keys and Caps Lock stand for.
Mods(down, upper) == (UNION {shiftcode(k) : k \in down}) \cup (IF upper THEN {"CAPSLOCK"} ELSE {})

LEMMA ModsIs ==
  ASSUME NEW down, NEW upper
  PROVE  /\ Mods(down, upper) \subseteq Modifiers \ {"E0ESC"}
         /\ "CTL" \in Mods(down, upper) <=> down \cap CTLKEYS # {}
         /\ "SHIFT" \in Mods(down, upper) <=> down \cap SHIFTKEYS # {}
         /\ "CAPSLOCK" \in Mods(down, upper) <=> upper
  <1>1. \A k : shiftcode(k) \subseteq {"CTL", "SHIFT"}
    BY DEF shiftcode
  <1>2. \A k : ("CTL" \in shiftcode(k) <=> k \in CTLKEYS) /\ ("SHIFT" \in shiftcode(k) <=> k \in SHIFTKEYS)
    BY DEF shiftcode, CTLKEYS, SHIFTKEYS
  <1>3. \A m : m \in Mods(down, upper) <=>
                 (\E k \in down : m \in shiftcode(k)) \/ (upper /\ m = "CAPSLOCK")
    BY DEF Mods
  <1> HIDE DEF Mods, shiftcode
  <1>4. Mods(down, upper) \subseteq Modifiers \ {"E0ESC"}
    BY <1>1, <1>3 DEF Modifiers
  <1>5. "CTL" \in Mods(down, upper) <=> down \cap CTLKEYS # {}
    BY <1>2, <1>3
  <1>6. "SHIFT" \in Mods(down, upper) <=> down \cap SHIFTKEYS # {}
    BY <1>2, <1>3
  <1>7. "CAPSLOCK" \in Mods(down, upper) <=> upper
    BY <1>1, <1>3
  <1>8. QED BY <1>4, <1>5, <1>6, <1>7

-----------------------------------------------------------------------------
(* What the bytes of a key do. *)

LEMMA ModsMember ==
  ASSUME NEW down, NEW upper
  PROVE  \A m : m \in Mods(down, upper) <=>
                  (\E k \in down : m \in shiftcode(k)) \/ (upper /\ m = "CAPSLOCK")
  BY DEF Mods

LEMMA CodesAre ==
  /\ \A k : shiftcode(k) \subseteq {"CTL", "SHIFT"}
  /\ \A k : ("CTL" \in shiftcode(k) <=> k \in CTLKEYS) /\ ("SHIFT" \in shiftcode(k) <=> k \in SHIFTKEYS)
  /\ \A k : togglecode(k) \subseteq {"CAPSLOCK"} /\ ("CAPSLOCK" \in togglecode(k) <=> k = CAPSKEY)
  BY DEF shiftcode, togglecode, CTLKEYS, SHIFTKEYS

\* A key goes down: the keys that are down and Caps Lock are what Pressed says,
\* with or without the prefix.
LEMMA PressedIs ==
  ASSUME NEW down, NEW caps0, NEW caps1, NEW k, NEW sh,
         caps1 <=> ~(caps0 <=> k = CAPSKEY), sh \ {"E0ESC"} = Mods(down, caps0)
  PROVE  Pressed(sh, k) = Mods(down \cup {k}, caps1)
  <1> DEFINE on == (sh \ {"E0ESC"}) \cup shiftcode(k)
  <1>1. \A m : m \in Pressed(sh, k) <=> ~(m \in on <=> m \in togglecode(k))
    BY DEF Pressed
  <1>2. \A m : m \in on <=> m \in Mods(down, caps0) \/ m \in shiftcode(k)
    OBVIOUS
  <1> HIDE DEF on
  <1>3. \A m : m \in on <=>
                 (\E j \in down \cup {k} : m \in shiftcode(j)) \/ (caps0 /\ m = "CAPSLOCK")
    BY <1>2, ModsMember
  <1>4. \A m : m \in togglecode(k) <=> m = "CAPSLOCK" /\ k = CAPSKEY
    BY CodesAre
  <1>5. \A j : "CAPSLOCK" \notin shiftcode(j)
    BY CodesAre
  <1>6. \A m : m \in Pressed(sh, k) <=> m \in Mods(down \cup {k}, caps1)
    BY <1>1, <1>3, <1>4, <1>5, ModsMember
  <1>7. QED BY <1>6

\* The character kbd_proc_data makes of a key in a modifier state.
KeyChar(sh, k) == IF "CAPSLOCK" \in sh THEN FlipCase(charcode(sh, k)) ELSE charcode(sh, k)

\* It is what the key means to the person who presses it.
\* A key types nothing and its character is 0, or it types that character.
Says(m, x) == (m = <<>> /\ x = 0) \/ (m = <<x>> /\ x \in 1 .. 126)

LEMMA MeaningIs ==
  ASSUME NEW down, NEW upper, upper \in BOOLEAN, NEW k, k \in Keys
  PROVE  Says(Meaning(k, down, upper), KeyChar(Mods(down, upper), k))
  <1> DEFINE sh == Mods(down, upper)
             c == charcode(sh, k)
             m == Meaning(k, down, upper)
             ctl == down \cap CTLKEYS # {}
             big == down \cap SHIFTKEYS # {}
  <1>1. ("CTL" \in sh <=> ctl) /\ ("SHIFT" \in sh <=> big) /\ ("CAPSLOCK" \in sh <=> upper)
    BY ModsIs
  <1>2. /\ k \notin {14, 28, 30, 32} => m = <<>>
        /\ k = 28 => m = <<IF ctl THEN 13 ELSE 10>>
        /\ k = 14 => m = IF ctl THEN <<>> ELSE <<8>>
        /\ k = 30 => m = <<IF ctl THEN 1 ELSE IF big # upper THEN 65 ELSE 97>>
        /\ k = 32 => m = <<IF ctl THEN 4 ELSE IF big # upper THEN 68 ELSE 100>>
    BY DEF Meaning
  <1>3. KeyChar(sh, k) = IF upper THEN FlipCase(c) ELSE c
    BY <1>1 DEF KeyChar
  <1> SUFFICES (m = <<>> /\ KeyChar(sh, k) = 0) \/ (m = <<KeyChar(sh, k)>> /\ KeyChar(sh, k) \in 1 .. 126)
    BY DEF Says
  <1> HIDE DEF ctl, big, sh, m, c
  <1>4. CASE k \notin {14, 28, 30, 32}
    <2>1. c = 0 /\ FlipCase(0) = 0
      BY <1>4, CharcodeIs DEF FlipCase, c
    <2>2. QED BY <1>2, <1>3, <1>4, <2>1
  <1>5. CASE k = 28
    <2>1. c = IF ctl THEN 13 ELSE 10
      BY <1>1, <1>5, CharcodeIs DEF c
    <2>2. QED BY <1>2, <1>3, <1>5, <2>1 DEF FlipCase
  <1>6. CASE k = 14
    <2>1. c = IF ctl THEN 0 ELSE 8
      BY <1>1, <1>6, CharcodeIs DEF c
    <2>2. QED BY <1>2, <1>3, <1>6, <2>1 DEF FlipCase
  <1>7. ASSUME NEW lo \in {97, 100}, k = IF lo = 97 THEN 30 ELSE 32
        PROVE  m = <<KeyChar(sh, k)>> /\ KeyChar(sh, k) \in 1 .. 126
    <2>1. c = IF ctl THEN lo - 96 ELSE IF big THEN lo - 32 ELSE lo
      BY <1>1, <1>7, CharcodeIs DEF c
    <2>2. m = <<IF ctl THEN lo - 96 ELSE IF big # upper THEN lo - 32 ELSE lo>>
      BY <1>2, <1>7
    <2>3. FlipCase(lo - 96) = lo - 96 /\ FlipCase(lo - 32) = lo /\ FlipCase(lo) = lo - 32
      BY <1>7 DEF FlipCase
    <2>4. CASE upper
      <3>1. big # upper <=> ~big
        BY <2>4 DEF big
      <3>2. m = <<IF ctl THEN lo - 96 ELSE IF big THEN lo ELSE lo - 32>>
        BY <2>2, <3>1
      <3>3. KeyChar(sh, k) = IF ctl THEN lo - 96 ELSE IF big THEN lo ELSE lo - 32
        <4>1. CASE ctl
          BY <1>3, <2>1, <2>3, <2>4, <4>1
        <4>2. CASE ~ctl /\ big
          BY <1>3, <2>1, <2>3, <2>4, <4>2
        <4>3. CASE ~ctl /\ ~big
          BY <1>3, <2>1, <2>3, <2>4, <4>3
        <4>4. QED BY <4>1, <4>2, <4>3
      <3>4. QED BY <3>2, <3>3
    <2>5. CASE ~upper
      <3>1. big # upper <=> big
        BY <2>5 DEF big
      <3>2. QED BY <1>3, <2>1, <2>2, <2>3, <2>5, <3>1
    <2>6. QED BY <2>4, <2>5
  <1>8. CASE k \in {30, 32}
    BY <1>7, <1>8
  <1>9. QED BY <1>4, <1>5, <1>6, <1>8

\* The cases of kbd_proc_data.
LEMMA ProcPrefix ==
  ASSUME NEW sh
  PROVE  kbd_proc_data(sh, E0) = [shift |-> sh \cup {"E0ESC"}, c |-> 0]
  BY DEF kbd_proc_data, E0

LEMMA ProcBreak ==
  ASSUME NEW sh, NEW d \in 128 .. 255, d # E0
  PROVE  kbd_proc_data(sh, d) = [shift |-> Released(sh, d), c |-> 0]
  BY DEF kbd_proc_data, E0

LEMMA ProcMake ==
  ASSUME NEW sh, "E0ESC" \notin sh, NEW k \in 0 .. 127
  PROVE  kbd_proc_data(sh, k) = [shift |-> Pressed(sh, k), c |-> KeyChar(Pressed(sh, k), k)]
  BY DEF kbd_proc_data, KeyChar, E0

LEMMA ProcMakePrefixed ==
  ASSUME NEW sh, "E0ESC" \in sh, NEW k \in 128 .. 255
  PROVE  kbd_proc_data(sh, k - 128) = [shift |-> Pressed(sh, k), c |-> KeyChar(Pressed(sh, k), k)]
  <1>1. k - 128 \in 0 .. 127 /\ k - 128 + 128 = k
    OBVIOUS
  <1>2. QED BY <1>1 DEF kbd_proc_data, KeyChar, E0

\* The keys that are down, at most one of those with the same modifier.
OneEach(down) == \A j, k \in down : shiftcode(j) = shiftcode(k) /\ shiftcode(k) # {} => j = k

\* A key goes up.
LEMMA ReleasedIs ==
  ASSUME NEW down, OneEach(down), NEW upper, NEW k \in down, NEW sh, NEW d,
         sh \ {"E0ESC"} = Mods(down, upper), BreakKey(sh, d) = k
  PROVE  Released(sh, d) = Mods(down \ {k}, upper)
  <1>1. \A m : m \in Released(sh, d) <=> m \in Mods(down, upper) /\ m \notin shiftcode(k)
    BY DEF Released
  <1>2. \A j : shiftcode(j) \in {{}, {"CTL"}, {"SHIFT"}}
    BY DEF shiftcode
  <1>3. \A j \in down : \A m : m \in shiftcode(j) /\ m \in shiftcode(k) => j = k
    BY <1>2 DEF OneEach
  <1>4. \A m : m \in Mods(down, upper) /\ m \notin shiftcode(k) <=> m \in Mods(down \ {k}, upper)
    BY <1>3, ModsMember, CodesAre
  <1>5. QED BY <1>1, <1>4

\* One byte: the modifier state and the characters of ty stored so far.
Step(sh, d, p, sh2, p2, ty) ==
  LET r == kbd_proc_data(sh, d)
  IN  /\ r.shift = sh2
      /\ \/ r.c = 0 /\ p2 = p
         \/ r.c # 0 /\ p2 = p + 1 /\ p2 <= Len(ty) /\ r.c = ty[p2]

\* Caps Lock before and after key k goes down.
Toggled(k, upper, up2) == up2 \in BOOLEAN /\ (up2 <=> ~(upper <=> k = CAPSKEY))

\* The bytes of key k, <<E0, d2>> when it has the prefix and <<d1>> when it has
\* not, lead from sh and p characters of ty to sh2 and p2.
KeyPath(k, d2, d1, sh, p, sh2, p2, ty) ==
  /\ k >= 128 => /\ Step(sh, E0, p, sh \cup {"E0ESC"}, p, ty)
                 /\ Step(sh \cup {"E0ESC"}, d2, p, sh2, p2, ty)
                 /\ d2 \in 0 .. 255
  /\ k < 128 => Step(sh, d1, p, sh2, p2, ty) /\ d1 \in 0 .. 255

\* The bytes of a key that goes down.
LEMMA PressPath ==
  ASSUME NEW down, NEW upper, NEW up2, NEW k \in 0 .. 255, k \in Keys, NEW ty \in Seq(1 .. 126),
         Toggled(k, upper, up2)
  PROVE  KeyPath(k, k - 128, k, Mods(down, upper), Len(ty), Mods(down \cup {k}, up2),
                 Len(ty \o Meaning(k, down \cup {k}, up2)), ty \o Meaning(k, down \cup {k}, up2))
  <1> DEFINE sh == Mods(down, upper)
             sh2 == Mods(down \cup {k}, up2)
             m == Meaning(k, down \cup {k}, up2)
             ty2 == ty \o m
  <1>1. k \in 0 .. 255 /\ k # E0 /\ (k >= 128 => k - 128 \in 0 .. 255 /\ k - 128 < 128) /\ E0 \in 0 .. 255
    BY KeysAssumption DEF E0, CAPSKEY, CTLKEYS, SHIFTKEYS
  <1>2. "E0ESC" \notin sh
    BY ModsIs
  <1>3. sh \ {"E0ESC"} = sh /\ (sh \cup {"E0ESC"}) \ {"E0ESC"} = sh
    BY <1>2
  <1> up2 \in BOOLEAN /\ (up2 <=> ~(upper <=> k = CAPSKEY))
    BY DEF Toggled
  <1>4. Pressed(sh, k) = sh2 /\ Pressed(sh \cup {"E0ESC"}, k) = sh2
    BY <1>3, PressedIs
  <1>5. \/ m = <<>> /\ KeyChar(sh2, k) = 0
        \/ m = <<KeyChar(sh2, k)>> /\ KeyChar(sh2, k) \in 1 .. 126
    <2>1. Says(m, KeyChar(sh2, k))
      BY MeaningIs
    <2>2. QED BY <2>1 DEF Says
  <1>6. \/ Len(ty2) = Len(ty) /\ KeyChar(sh2, k) = 0
        \/ Len(ty2) = Len(ty) + 1 /\ KeyChar(sh2, k) # 0 /\ ty2[Len(ty2)] = KeyChar(sh2, k)
    <2> DEFINE x == KeyChar(sh2, k)
    <2> HIDE DEF m, sh2, x
    <2>1. ASSUME m = <<>> PROVE Len(ty2) = Len(ty)
      BY <2>1
    <2>2. ASSUME m = <<x>>, x \in 1 .. 126 PROVE Len(ty2) = Len(ty) + 1 /\ ty2[Len(ty2)] = x
      <3>1. Len(ty \o <<x>>) = Len(ty) + 1 /\ (ty \o <<x>>)[Len(ty) + 1] = x
        BY <2>2
      <3>2. QED BY <2>2, <3>1
    <2>3. x \in 1 .. 126 => x # 0
      OBVIOUS
    <2>4. QED BY <1>5, <2>1, <2>2, <2>3 DEF x
  <1>7. Len(ty) \in Nat /\ Len(ty2) \in Nat
    BY <1>6
  <1> HIDE DEF sh, sh2, ty2, m
  <1>8. CASE k >= 128
    <2>1. kbd_proc_data(sh, E0) = [shift |-> sh \cup {"E0ESC"}, c |-> 0]
      BY ProcPrefix
    <2>2. kbd_proc_data(sh \cup {"E0ESC"}, k - 128) = [shift |-> sh2, c |-> KeyChar(sh2, k)]
      <3>1. k \in 128 .. 255
        BY <1>1, <1>8
      <3> DEFINE e == sh \cup {"E0ESC"}
      <3>2. "E0ESC" \in e /\ Pressed(e, k) = sh2
        BY <1>4
      <3> HIDE DEF e
      <3>3. kbd_proc_data(e, k - 128) = [shift |-> Pressed(e, k), c |-> KeyChar(Pressed(e, k), k)]
        BY <3>1, <3>2, ProcMakePrefixed
      <3>4. QED BY <3>2, <3>3 DEF e
    <2>3. Step(sh, E0, Len(ty), sh \cup {"E0ESC"}, Len(ty), ty2)
      BY <2>1 DEF Step
    <2>4. Step(sh \cup {"E0ESC"}, k - 128, Len(ty), sh2, Len(ty2), ty2)
      BY <1>6, <1>7, <2>2 DEF Step
    <2>5. k - 128 \in 0 .. 255
      BY <1>1, <1>8
    <2>6. QED BY <1>8, <2>3, <2>4, <2>5 DEF KeyPath, sh, sh2, ty2, m
  <1>9. CASE k < 128
    <2>1. kbd_proc_data(sh, k) = [shift |-> sh2, c |-> KeyChar(sh2, k)]
      <3>1. k \in 0 .. 127
        BY <1>1, <1>9
      <3>2. QED BY <1>2, <1>4, <3>1, ProcMake
    <2>2. Step(sh, k, Len(ty), sh2, Len(ty2), ty2)
      BY <1>6, <1>7, <2>1 DEF Step
    <2>3. QED BY <1>1, <1>9, <2>2 DEF KeyPath, sh, sh2, ty2, m
  <1>10. QED BY <1>1, <1>8, <1>9

\* The same, with names for the keys then down and the characters then typed.
PressPaths(k, down, upper, down2, up2, ty, ty2) ==
  KeyPath(k, k - 128, k, Mods(down, upper), Len(ty), Mods(down2, up2), Len(ty2), ty2)

LEMMA PressSteps ==
  ASSUME NEW down, NEW upper, NEW up2, NEW k \in 0 .. 255, k \in Keys, NEW ty \in Seq(1 .. 126),
         Toggled(k, upper, up2), NEW down2, down2 = down \cup {k}, NEW ty2, ty2 = ty \o Meaning(k, down2, up2)
  PROVE  PressPaths(k, down, upper, down2, up2, ty, ty2)
  <1>1. KeyPath(k, k - 128, k, Mods(down, upper), Len(ty), Mods(down \cup {k}, up2),
                Len(ty \o Meaning(k, down \cup {k}, up2)), ty \o Meaning(k, down \cup {k}, up2))
    BY PressPath
  <1>2. PressPaths(k, down, upper, down \cup {k}, up2, ty, ty \o Meaning(k, down \cup {k}, up2))
    BY <1>1 DEF PressPaths
  <1>3. QED BY <1>2

\* The bytes of a key that goes up.
LEMMA ReleaseSteps ==
  ASSUME NEW down, OneEach(down), down \subseteq Keys, NEW upper, NEW k \in 0 .. 255, k \in down, NEW ty, Len(ty) \in Nat
  PROVE  KeyPath(k, k, k + 128, Mods(down, upper), Len(ty), Mods(down \ {k}, upper), Len(ty), ty)
  <1> DEFINE sh == Mods(down, upper)
             sh2 == Mods(down \ {k}, upper)
  <1>1. k \in 0 .. 255 /\ k # E0 /\ (k < 128 => k + 128 \in 0 .. 255 /\ k + 128 # E0) /\ E0 \in 0 .. 255
    BY KeysAssumption DEF E0, CAPSKEY, CTLKEYS, SHIFTKEYS
  <1>2. "E0ESC" \notin sh
    BY ModsIs
  <1>3. sh \ {"E0ESC"} = sh /\ (sh \cup {"E0ESC"}) \ {"E0ESC"} = sh
    BY <1>2
  <1> HIDE DEF sh, sh2
  <1>4. CASE k >= 128
    <2>1. kbd_proc_data(sh, E0) = [shift |-> sh \cup {"E0ESC"}, c |-> 0]
      BY ProcPrefix
    <2>2. BreakKey(sh \cup {"E0ESC"}, k) = k
      BY DEF BreakKey
    <2>3. Released(sh \cup {"E0ESC"}, k) = sh2
      BY <1>3, <2>2, ReleasedIs DEF sh, sh2
    <2>4. kbd_proc_data(sh \cup {"E0ESC"}, k) = [shift |-> sh2, c |-> 0]
      <3>1. k \in 128 .. 255 /\ k # E0
        BY <1>1, <1>4
      <3>2. QED BY <2>3, <3>1, ProcBreak
    <2>5. Step(sh, E0, Len(ty), sh \cup {"E0ESC"}, Len(ty), ty) /\ Step(sh \cup {"E0ESC"}, k, Len(ty), sh2, Len(ty), ty)
      BY <2>1, <2>4 DEF Step
    <2>6. QED BY <1>1, <1>4, <2>5 DEF KeyPath, sh, sh2
  <1>5. CASE k < 128
    <2>1. BreakKey(sh, k + 128) = k
      BY <1>1, <1>2, <1>5 DEF BreakKey
    <2>2. Released(sh, k + 128) = sh2
      BY <1>3, <2>1, ReleasedIs DEF sh, sh2
    <2>3. kbd_proc_data(sh, k + 128) = [shift |-> sh2, c |-> 0]
      <3>1. k + 128 \in 128 .. 255 /\ k + 128 # E0
        BY <1>1, <1>5
      <3>2. QED BY <2>2, <3>1, ProcBreak
    <2>4. Step(sh, k + 128, Len(ty), sh2, Len(ty), ty)
      BY <2>3 DEF Step
    <2>5. QED BY <1>1, <1>5, <2>4 DEF KeyPath, sh, sh2
  <1>6. QED BY <1>1, <1>4, <1>5

-----------------------------------------------------------------------------
(* The circular buffer. *)

C == CONSBUFSIZE

LEMMA ModIs ==
  ASSUME NEW a \in Int, NEW k \in {-1, 0, 1}, NEW r \in 0 .. C - 1, a = k * C + r
  PROVE  a % C = r
  <1>1. C \in Nat /\ C > 1
    BY BufferAssumption DEF C
  <1> DEFINE d == a \div C
             m == a % C
  <1>2. d \in Int /\ m \in 0 .. C - 1 /\ a = C * d + m
    BY <1>1
  <1> HIDE DEF d, m
  <1>3. C * d + m = k * C + r
    BY <1>2
  <1>4. d <= k
    <2>1. SUFFICES ASSUME d >= k + 1 PROVE FALSE
      BY <1>2
    <2>2. C * d >= C * (k + 1)
      BY <1>1, <1>2, <2>1
    <2>3. QED BY <1>1, <1>2, <1>3, <2>2
  <1>5. d >= k
    <2>1. SUFFICES ASSUME d <= k - 1 PROVE FALSE
      BY <1>2
    <2>2. C * d <= C * (k - 1)
      BY <1>1, <1>2, <2>1
    <2>3. QED BY <1>1, <1>2, <1>3, <2>2
  <1>6. d = k
    BY <1>2, <1>4, <1>5
  <1>7. QED BY <1>1, <1>3, <1>6, <1>2 DEF m

Rings == [buf : [Positions -> 0 .. 255], rpos : Positions, wpos : Positions]

\* The cell i after the read position, and how many characters wait.
Cell(q, i) == IF q.rpos + i < C THEN q.rpos + i ELSE q.rpos + i - C
Filled(q) == IF q.wpos >= q.rpos THEN q.wpos - q.rpos ELSE q.wpos - q.rpos + C

LEMMA PositionsAre ==
  /\ C \in Nat /\ C > 1 /\ Positions = 0 .. C - 1 /\ CONSBUFSIZE = C
  /\ \A p \in Positions : NextPos(p) = (IF p + 1 = C THEN 0 ELSE p + 1) /\ NextPos(p) \in Positions
  BY BufferAssumption DEF C, Positions, NextPos

LEMMA FunIsSeq ==
  ASSUME NEW n \in Nat, NEW S, NEW f \in [1 .. n -> S]
  PROVE  f \in Seq(S) /\ Len(f) = n
  OBVIOUS

LEMMA WaitingIs ==
  ASSUME NEW q \in Rings
  PROVE  /\ Waiting(q) = [i \in 1 .. Filled(q) |-> q.buf[Cell(q, i - 1)]]
         /\ Filled(q) \in 0 .. C - 1
         /\ \A i \in 0 .. C - 1 : Cell(q, i) \in Positions
         /\ Waiting(q) \in Seq(0 .. 255) /\ Len(Waiting(q)) = Filled(q)
         /\ \A i \in 1 .. Filled(q) : Waiting(q)[i] = q.buf[Cell(q, i - 1)]
  <1>1. q.rpos \in 0 .. C - 1 /\ q.wpos \in 0 .. C - 1 /\ q.buf \in [Positions -> 0 .. 255]
    BY PositionsAre DEF Rings
  <1>2. C \in Nat /\ C > 1
    BY PositionsAre
  <1> DEFINE r == q.rpos
             w == q.wpos
  <1>3. (w - r) % C = Filled(q)
    <2>1. CASE w >= r
      <3>1. w - r = 0 * C + (w - r) /\ w - r \in 0 .. C - 1 /\ w - r \in Int
        BY <1>1, <1>2, <2>1
      <3>2. QED BY <2>1, <3>1, ModIs DEF Filled
    <2>2. CASE w < r
      <3>1. w - r = (-1) * C + (w - r + C) /\ w - r + C \in 0 .. C - 1 /\ w - r \in Int
        BY <1>1, <1>2, <2>2
      <3>2. (w - r) % C = w - r + C
        BY <3>1, ModIs
      <3>3. QED BY <1>1, <2>2, <3>2 DEF Filled
    <2>3. QED BY <1>1, <2>1, <2>2
  <1>4. ASSUME NEW i \in 0 .. C - 1 PROVE (r + i) % C = Cell(q, i) /\ Cell(q, i) \in Positions
    <2>1. CASE r + i < C
      <3>1. r + i = 0 * C + (r + i) /\ r + i \in 0 .. C - 1 /\ r + i \in Int
        BY <1>1, <1>2, <2>1
      <3>2. (r + i) % C = r + i
        BY <3>1, ModIs
      <3>3. QED BY <2>1, <3>1, <3>2, PositionsAre DEF Cell
    <2>2. CASE r + i >= C
      <3>1. r + i = 1 * C + (r + i - C) /\ r + i - C \in 0 .. C - 1 /\ r + i \in Int
        BY <1>1, <1>2, <2>2
      <3>2. (r + i) % C = r + i - C
        BY <3>1, ModIs
      <3>3. Cell(q, i) = r + i - C
        BY <1>1, <1>2, <2>2 DEF Cell
      <3>4. QED BY <3>1, <3>2, <3>3, PositionsAre
    <2>3. QED BY <1>1, <1>2, <2>1, <2>2
  <1>5. Filled(q) \in 0 .. C - 1
    BY <1>1, <1>2 DEF Filled
  <1>6. Waiting(q) = [i \in 1 .. Filled(q) |-> q.buf[Cell(q, i - 1)]]
    <2>1. Waiting(q) = [i \in 1 .. Filled(q) |-> q.buf[(r + i - 1) % C]]
      BY <1>3 DEF Waiting, C
    <2>2. ASSUME NEW i \in 1 .. Filled(q) PROVE (r + i - 1) % C = Cell(q, i - 1)
      <3>1. i - 1 \in 0 .. C - 1 /\ r + i - 1 = r + (i - 1)
        BY <1>1, <1>2, <1>5
      <3>2. QED BY <1>4, <3>1
    <2>3. QED BY <2>1, <2>2
  <1>7. \A i \in 1 .. Filled(q) : q.buf[Cell(q, i - 1)] \in 0 .. 255
    <2>1. ASSUME NEW i \in 1 .. Filled(q) PROVE Cell(q, i - 1) \in Positions
      BY <1>2, <1>4, <1>5
    <2>2. QED BY <1>1, <2>1
  <1> HIDE DEF r, w
  <1>8. Waiting(q) \in Seq(0 .. 255) /\ Len(Waiting(q)) = Filled(q)
    <2>1. Filled(q) \in Nat
      BY <1>2, <1>5
    <2>2. Waiting(q) \in [1 .. Filled(q) -> 0 .. 255]
      BY <1>6, <1>7
    <2>3. QED BY <2>1, <2>2, FunIsSeq
  <1>9. \A i \in 1 .. Filled(q) : Waiting(q)[i] = q.buf[Cell(q, i - 1)]
    BY <1>6
  <1>10. QED BY <1>4, <1>5, <1>6, <1>8, <1>9

\* A character stored goes to the end of what waits, unless the write position
\* meets the read position: then nothing waits any more.
LEMMA StoreIs ==
  ASSUME NEW q \in Rings, NEW c \in 1 .. 255
  PROVE  /\ Store(q, c) \in Rings
         /\ ~Overruns(q, c) => Waiting(Store(q, c)) = Append(Waiting(q), c)
         /\ Overruns(q, c) => Waiting(Store(q, c)) = <<>> /\ Len(Waiting(q)) = C - 1
  <1> DEFINE s == Store(q, c)
  <1>1. q.rpos \in 0 .. C - 1 /\ q.wpos \in 0 .. C - 1 /\ q.buf \in [Positions -> 0 .. 255]
    BY PositionsAre DEF Rings
  <1>2. C \in Nat /\ C > 1 /\ Positions = 0 .. C - 1
    BY PositionsAre
  <1>3. /\ s.rpos = q.rpos /\ s.wpos = NextPos(q.wpos) /\ s.buf = [q.buf EXCEPT ![q.wpos] = c]
        /\ s = [buf |-> s.buf, rpos |-> s.rpos, wpos |-> s.wpos]
    <2>1. c # 0
      OBVIOUS
    <2>2. s = [q EXCEPT !.buf[q.wpos] = c, !.wpos = NextPos(q.wpos)]
      BY <2>1 DEF Store
    <2>3. q = [buf |-> q.buf, rpos |-> q.rpos, wpos |-> q.wpos]
      BY DEF Rings
    <2> HIDE DEF s
    <2>4. s = [buf |-> [q.buf EXCEPT ![q.wpos] = c], rpos |-> q.rpos, wpos |-> NextPos(q.wpos)]
      BY <2>2, <2>3
    <2>5. QED BY <2>4
  <1> HIDE DEF s
  <1>4. s \in Rings
    <2>1. NextPos(q.wpos) \in Positions /\ c \in 0 .. 255
      BY <1>1, <1>2, PositionsAre
    <2>2. s.buf \in [Positions -> 0 .. 255] /\ s.rpos \in Positions /\ s.wpos \in Positions
      <3>1. [q.buf EXCEPT ![q.wpos] = c] \in [Positions -> 0 .. 255]
        BY <1>1, <2>1
      <3>2. q.rpos \in Positions
        BY <1>1, <1>2
      <3>3. QED BY <1>3, <2>1, <3>1, <3>2
    <2>3. QED BY <1>3, <2>2 DEF Rings
  <1>5. s.wpos = (IF q.wpos + 1 = C THEN 0 ELSE q.wpos + 1)
    BY <1>1, <1>2, <1>3, PositionsAre
  <1>6. Overruns(q, c) <=> s.wpos = q.rpos
    BY <1>3 DEF Overruns
  <1>7. CASE Overruns(q, c)
    <2>1. Filled(s) = 0
      BY <1>1, <1>3, <1>6, <1>7 DEF Filled
    <2>2. Waiting(s) = <<>>
      BY <1>4, <2>1, WaitingIs, EmptySeq
    <2>3. Filled(q) = C - 1
      BY <1>1, <1>2, <1>3, <1>5, <1>6, <1>7 DEF Filled
    <2>4. QED BY <1>4, <1>7, <2>2, <2>3, WaitingIs DEF s
  <1>8. CASE ~Overruns(q, c)
    <2> DEFINE n == Filled(q)
    <2>1. n \in 0 .. C - 1 /\ Filled(s) = n + 1
      <3>1. n \in 0 .. C - 1
        BY <1>1, <1>2 DEF Filled
      <3>2. Filled(s) = n + 1
        <4>1. CASE q.wpos + 1 = C
          BY <1>1, <1>2, <1>3, <1>5, <1>6, <1>8, <4>1 DEF Filled
        <4>2. CASE q.wpos + 1 # C
          <5>1. s.rpos = q.rpos /\ s.wpos = q.wpos + 1 /\ q.wpos + 1 # q.rpos
            BY <1>3, <1>5, <1>6, <1>8, <4>2
          <5>2. CASE q.wpos >= q.rpos
            BY <1>1, <1>2, <5>1, <5>2 DEF Filled
          <5>3. CASE q.wpos < q.rpos
            <6>1. ~(s.wpos >= s.rpos) /\ ~(q.wpos >= q.rpos)
              BY <1>1, <5>1, <5>3
            <6>2. Filled(s) = s.wpos - s.rpos + C /\ Filled(q) = q.wpos - q.rpos + C
              BY <6>1 DEF Filled
            <6>3. s.wpos - s.rpos + C = (q.wpos - q.rpos + C) + 1
              <7>1. q.wpos \in Int /\ q.rpos \in Int /\ C \in Int
                BY <1>1, <1>2
              <7>2. QED BY <5>1, <7>1
            <6>4. QED BY <6>2, <6>3
          <5>4. QED BY <1>1, <5>2, <5>3
        <4>3. QED BY <4>1, <4>2
      <3>3. QED BY <3>1, <3>2
    <2>2. Cell(q, n) = q.wpos /\ \A i \in 0 .. n : Cell(s, i) = Cell(q, i)
      BY <1>1, <1>2, <1>3 DEF Filled, Cell
    <2>3. ASSUME NEW i \in 0 .. n - 1 PROVE Cell(q, i) # q.wpos /\ Cell(q, i) \in Positions
      <3>1. PICK u, v : u = q.rpos /\ v = q.wpos
        OBVIOUS
      <3>2. u \in Nat /\ v \in Nat /\ u < C /\ v < C /\ C \in Nat /\ i \in Nat
        BY <1>1, <1>2, <2>1, <3>1
      <3>3. i < (IF v >= u THEN v - u ELSE v - u + C)
        BY <2>1, <3>1 DEF Filled
      <3>4. /\ (IF u + i < C THEN u + i ELSE u + i - C) # v
            /\ (IF u + i < C THEN u + i ELSE u + i - C) \in 0 .. C - 1
        BY <3>2, <3>3
      <3>5. QED BY <1>2, <3>1, <3>4 DEF Cell
    <2> HIDE DEF n
    <2>4. Waiting(q) \in Seq(0 .. 255) /\ Len(Waiting(q)) = n
      BY WaitingIs DEF n
    <2>5. Waiting(s) \in Seq(0 .. 255) /\ Len(Waiting(s)) = n + 1
      BY <1>4, <2>1, WaitingIs
    <2>6. Append(Waiting(q), c) \in Seq(0 .. 255) /\ Len(Append(Waiting(q), c)) = n + 1
      BY <2>4
    <2>7. ASSUME NEW i \in 1 .. n + 1 PROVE Waiting(s)[i] = Append(Waiting(q), c)[i]
      <3>1. Waiting(s)[i] = s.buf[Cell(s, i - 1)] /\ Cell(s, i - 1) = Cell(q, i - 1)
        BY <1>4, <2>1, <2>2, WaitingIs
      <3>2. CASE i = n + 1
        BY <1>1, <1>2, <1>3, <2>1, <2>2, <2>4, <3>1, <3>2
      <3>3. CASE i \in 1 .. n
        <4>1. Waiting(s)[i] = q.buf[Cell(q, i - 1)]
          BY <1>1, <1>3, <2>1, <2>3, <3>1, <3>3
        <4>2. Waiting(q)[i] = q.buf[Cell(q, i - 1)]
          BY <3>3, WaitingIs DEF n
        <4>3. QED BY <2>4, <3>3, <4>1, <4>2
      <3>4. i \in 1 .. n \/ i = n + 1
        BY <1>2, <2>1
      <3>5. QED BY <3>2, <3>3, <3>4
    <2>8. Waiting(s) = Append(Waiting(q), c)
      BY <2>5, <2>6, <2>7, SeqEqual
    <2>9. QED BY <1>4, <1>8, <2>8 DEF s
  <1>9. QED BY <1>7, <1>8

\* cons_getc takes the first character that waits.
LEMMA GetcIs ==
  ASSUME NEW in \in InputType
  PROVE  LET g == cons_getc(in)
         IN  /\ g.in \in InputType /\ g.in.shift = in.shift /\ g.in.overrun = in.overrun
             /\ g.c \in 0 .. 255
             /\ \/ g.in = in /\ g.c = 0
                \/ Waiting(in.cons) = <<g.c>> \o Waiting(g.in.cons)
  <1> DEFINE q == in.cons
             g == cons_getc(in)
  <1>1. q \in Rings /\ in = [shift |-> in.shift, overrun |-> in.overrun, cons |-> q]
    BY DEF InputType, Rings
  <1>2. q.rpos \in 0 .. C - 1 /\ q.wpos \in 0 .. C - 1 /\ q.buf \in [Positions -> 0 .. 255]
    BY <1>1, PositionsAre DEF Rings
  <1>3. C \in Nat /\ C > 1 /\ Positions = 0 .. C - 1
    BY PositionsAre
  <1>4. CASE q.rpos = q.wpos
    <2>1. g.in = in /\ g.c = 0
      BY <1>4 DEF cons_getc
    <2>2. QED BY <2>1
  <1>5. CASE q.rpos # q.wpos
    <2> DEFINE s == g.in.cons
               c == g.c
    <2>1. /\ g.c = q.buf[q.rpos] /\ g.in.shift = in.shift /\ g.in.overrun = in.overrun
          /\ s = [q EXCEPT !.rpos = NextPos(q.rpos)]
          /\ g.in = [shift |-> in.shift, overrun |-> in.overrun, cons |-> s]
      BY <1>1, <1>5 DEF cons_getc
    <2>2. s.rpos = (IF q.rpos + 1 = C THEN 0 ELSE q.rpos + 1) /\ s.wpos = q.wpos /\ s.buf = q.buf /\ s \in Rings
      <3>1. q.rpos \in Positions
        BY <1>2, <1>3
      <3>2. NextPos(q.rpos) = (IF q.rpos + 1 = C THEN 0 ELSE q.rpos + 1) /\ NextPos(q.rpos) \in Positions
        BY <3>1, PositionsAre
      <3>3. s.rpos = NextPos(q.rpos) /\ s.wpos = q.wpos /\ s.buf = q.buf /\ s \in Rings
        BY <1>1, <2>1, <3>2 DEF Rings
      <3>4. QED BY <3>2, <3>3
    <2>3. g.in \in InputType
      BY <2>1, <2>2 DEF InputType, Rings
    <2>4. c \in 0 .. 255
      <3>1. q.rpos \in Positions
        BY <1>2, <1>3
      <3>2. q.buf[q.rpos] \in 0 .. 255
        BY <1>2, <3>1
      <3>3. QED BY <2>1, <3>2
    <2> HIDE DEF s, c, q, g
    <2> DEFINE n == Filled(s)
    <2>5. n \in Nat /\ Filled(q) = n + 1
      BY <1>2, <1>3, <1>5, <2>2 DEF Filled
    <2>6. Cell(q, 0) = q.rpos /\ \A i \in 0 .. n - 1 : Cell(s, i) = Cell(q, i + 1)
      <3>1. Cell(q, 0) = q.rpos
        BY <1>2, <1>3 DEF Cell
      <3>2. ASSUME NEW i \in 0 .. n - 1 PROVE Cell(s, i) = Cell(q, i + 1)
        <4>1. n <= C /\ i \in Nat /\ i < C
          BY <1>2, <1>3, <2>2 DEF Filled
        <4>2. PICK u, v : u = q.rpos /\ v = s.rpos
          OBVIOUS
        <4>3. u \in Nat /\ u < C /\ C \in Nat
          BY <1>2, <1>3, <4>2
        <4>4. v = (IF u + 1 = C THEN 0 ELSE u + 1)
          BY <2>2, <4>2
        <4>5. (IF v + i < C THEN v + i ELSE v + i - C) = (IF u + (i + 1) < C THEN u + (i + 1) ELSE u + (i + 1) - C)
          BY <4>1, <4>3, <4>4
        <4>6. QED BY <4>2, <4>5 DEF Cell
      <3>3. QED BY <3>1, <3>2
    <2> HIDE DEF n
    <2>7. Waiting(q) \in Seq(0 .. 255) /\ Len(Waiting(q)) = n + 1
      BY <1>1, <2>5, WaitingIs
    <2>8. Waiting(s) \in Seq(0 .. 255) /\ Len(Waiting(s)) = n
      BY <2>2, WaitingIs DEF n
    <2>9. <<c>> \o Waiting(s) \in Seq(0 .. 255) /\ Len(<<c>> \o Waiting(s)) = n + 1
      BY <2>4, <2>5, <2>8
    <2>10. ASSUME NEW i \in 1 .. n + 1 PROVE Waiting(q)[i] = (<<c>> \o Waiting(s))[i]
      <3>1. Waiting(q)[i] = q.buf[Cell(q, i - 1)]
        BY <1>1, <2>5, WaitingIs
      <3>2. CASE i = 1
        BY <2>1, <2>4, <2>6, <2>8, <3>1, <3>2 DEF c
      <3>3. CASE i # 1
        <4>1. i - 1 \in 1 .. n
          BY <2>5, <3>3
        <4>2. Waiting(s)[i - 1] = s.buf[Cell(s, i - 1 - 1)]
          BY <2>2, <4>1, WaitingIs DEF n
        <4>3. Cell(s, i - 1 - 1) = Cell(q, i - 1)
          <5>1. i - 1 - 1 \in 0 .. n - 1 /\ i - 1 - 1 + 1 = i - 1
            BY <2>5, <4>1
          <5>2. QED BY <2>6, <5>1
        <4>4. (<<c>> \o Waiting(s))[i] = Waiting(s)[i - 1]
          BY <2>4, <2>5, <2>8, <4>1
        <4>5. QED BY <2>2, <3>1, <4>2, <4>3, <4>4
      <3>4. QED BY <3>2, <3>3
    <2>11. Waiting(q) = <<c>> \o Waiting(s)
      BY <2>7, <2>9, <2>10, SeqEqual
    <2>12. QED BY <2>1, <2>3, <2>4, <2>11 DEF c, s, q, g
  <1>6. QED BY <1>4, <1>5

-----------------------------------------------------------------------------
(* The bytes that have not been processed. *)

\* The bytes q take the driver from modifier state sh and p characters of ty to
\* sh2 and p2: h and g are what it goes through.
Trace(h, g, sh, q, p, ty) ==
  /\ h \in [0 .. Len(q) -> SUBSET Modifiers] /\ g \in [0 .. Len(q) -> Nat]
  /\ h[0] = sh /\ g[0] = p
  /\ \A i \in 1 .. Len(q) : Step(h[i - 1], q[i], g[i - 1], h[i], g[i], ty)

Reads(sh, q, p, sh2, p2, ty) == \E h, g : Trace(h, g, sh, q, p, ty) /\ h[Len(q)] = sh2 /\ g[Len(q)] = p2

LEMMA ReadsNone ==
  ASSUME NEW sh \in SUBSET Modifiers, NEW p \in Nat, NEW ty
  PROVE  Reads(sh, <<>>, p, sh, p, ty)
  <1> DEFINE h == [i \in 0 .. 0 |-> sh]
             g == [i \in 0 .. 0 |-> p]
  <1>1. Trace(h, g, sh, <<>>, p, ty) /\ h[0] = sh /\ g[0] = p
    BY DEF Trace
  <1>2. QED BY <1>1 DEF Reads

LEMMA ReadsNothing ==
  ASSUME NEW sh, NEW p, NEW sh2, NEW p2, NEW ty, Reads(sh, <<>>, p, sh2, p2, ty)
  PROVE  sh2 = sh /\ p2 = p
  BY DEF Reads, Trace

\* One byte more.
LEMMA ReadsMore ==
  ASSUME NEW q \in Seq(0 .. 255), NEW d \in 0 .. 255, NEW sh, NEW p, NEW sh2, NEW p2, NEW ty,
         NEW sh3 \in SUBSET Modifiers, NEW p3 \in Nat,
         Reads(sh, q, p, sh2, p2, ty), Step(sh2, d, p2, sh3, p3, ty)
  PROVE  Reads(sh, Append(q, d), p, sh3, p3, ty)
  <1> DEFINE n == Len(q)
             q2 == Append(q, d)
  <1>1. PICK h, g : Trace(h, g, sh, q, p, ty) /\ h[n] = sh2 /\ g[n] = p2
    BY DEF Reads
  <1>2. n \in Nat /\ Len(q2) = n + 1 /\ q2[n + 1] = d /\ \A i \in 1 .. n : q2[i] = q[i]
    OBVIOUS
  <1> DEFINE h2 == [i \in 0 .. n + 1 |-> IF i = n + 1 THEN sh3 ELSE h[i]]
             g2 == [i \in 0 .. n + 1 |-> IF i = n + 1 THEN p3 ELSE g[i]]
  <1>3. h2 \in [0 .. n + 1 -> SUBSET Modifiers] /\ g2 \in [0 .. n + 1 -> Nat]
    BY <1>1, <1>2 DEF Trace
  <1>4. /\ h2[n + 1] = sh3 /\ g2[n + 1] = p3
        /\ \A i \in 0 .. n : h2[i] = h[i] /\ g2[i] = g[i]
    BY <1>2
  <1> HIDE DEF h2, g2, n, q2
  <1>5. h2[0] = sh /\ g2[0] = p
    BY <1>1, <1>2, <1>4 DEF Trace
  <1>6. ASSUME NEW i \in 1 .. n + 1 PROVE Step(h2[i - 1], q2[i], g2[i - 1], h2[i], g2[i], ty)
    <2>1. CASE i = n + 1
      <3>1. i - 1 = n /\ n \in 0 .. n
        BY <1>2, <2>1
      <3>2. h2[i - 1] = sh2 /\ g2[i - 1] = p2 /\ h2[i] = sh3 /\ g2[i] = p3 /\ q2[i] = d
        BY <1>1, <1>2, <1>4, <2>1, <3>1
      <3>3. QED BY <3>2
    <2>2. CASE i # n + 1
      <3>1. i \in 1 .. n /\ i - 1 \in 0 .. n /\ i \in 0 .. n
        BY <1>2, <2>2
      <3>2. Step(h[i - 1], q[i], g[i - 1], h[i], g[i], ty)
        BY <1>1, <3>1 DEF Trace, n
      <3>3. h2[i - 1] = h[i - 1] /\ g2[i - 1] = g[i - 1] /\ h2[i] = h[i] /\ g2[i] = g[i] /\ q2[i] = q[i]
        BY <1>2, <1>4, <3>1
      <3>4. QED BY <3>2, <3>3
    <2>3. QED BY <2>1, <2>2
  <1>7. Trace(h2, g2, sh, q2, p, ty)
    BY <1>2, <1>3, <1>5, <1>6 DEF Trace
  <1>8. Reads(sh, q2, p, sh3, p3, ty)
    BY <1>2, <1>4, <1>7 DEF Reads
  <1>9. QED BY <1>8 DEF q2

\* More characters typed.
LEMMA ReadsLonger ==
  ASSUME NEW q \in Seq(0 .. 255), NEW sh, NEW p, NEW sh2, NEW p2,
         NEW ty \in Seq(1 .. 126), NEW m \in Seq(1 .. 126), Reads(sh, q, p, sh2, p2, ty)
  PROVE  Reads(sh, q, p, sh2, p2, ty \o m)
  <1>1. PICK h, g : Trace(h, g, sh, q, p, ty) /\ h[Len(q)] = sh2 /\ g[Len(q)] = p2
    BY DEF Reads
  <1>2. Len(ty) \in Nat /\ Len(ty) <= Len(ty \o m) /\ Len(ty \o m) \in Nat /\ \A i \in 1 .. Len(ty) : (ty \o m)[i] = ty[i]
    OBVIOUS
  <1>3. ASSUME NEW i \in 1 .. Len(q) PROVE Step(h[i - 1], q[i], g[i - 1], h[i], g[i], ty \o m)
    <2>1. Step(h[i - 1], q[i], g[i - 1], h[i], g[i], ty)
      BY <1>1 DEF Trace
    <2>2. g[i] \in Nat /\ g[i - 1] \in Nat
      <3>1. i \in 0 .. Len(q) /\ i - 1 \in 0 .. Len(q)
        OBVIOUS
      <3>2. QED BY <1>1, <3>1 DEF Trace
    <2> DEFINE r == kbd_proc_data(h[i - 1], q[i])
    <2>3. /\ r.shift = h[i]
          /\ \/ r.c = 0 /\ g[i] = g[i - 1]
             \/ r.c # 0 /\ g[i] = g[i - 1] + 1 /\ g[i] <= Len(ty) /\ r.c = ty[g[i]]
      BY <2>1 DEF Step
    <2> HIDE DEF r
    <2>4. g[i] = g[i - 1] + 1 /\ g[i] <= Len(ty) => g[i] \in 1 .. Len(ty) /\ g[i] <= Len(ty \o m)
      BY <1>2, <2>2
    <2>5. /\ r.shift = h[i]
          /\ \/ r.c = 0 /\ g[i] = g[i - 1]
             \/ r.c # 0 /\ g[i] = g[i - 1] + 1 /\ g[i] <= Len(ty \o m) /\ r.c = (ty \o m)[g[i]]
      BY <1>2, <2>3, <2>4
    <2>6. QED BY <2>5 DEF Step, r
  <1>4. QED BY <1>1, <1>3 DEF Reads, Trace

\* The first bytes, then the others.
LEMMA ReadsSplit ==
  ASSUME NEW q1 \in Seq(0 .. 255), NEW q2 \in Seq(0 .. 255), NEW sh, NEW p, NEW sh2, NEW p2, NEW ty,
         Reads(sh, q1 \o q2, p, sh2, p2, ty)
  PROVE  \E shm \in SUBSET Modifiers, pm \in Nat :
            Reads(sh, q1, p, shm, pm, ty) /\ Reads(shm, q2, pm, sh2, p2, ty)
  <1> DEFINE n == Len(q1)
             m == Len(q2)
             q == q1 \o q2
  <1>1. PICK h, g : Trace(h, g, sh, q, p, ty) /\ h[Len(q)] = sh2 /\ g[Len(q)] = p2
    BY DEF Reads
  <1>2. /\ n \in Nat /\ m \in Nat /\ Len(q) = n + m
        /\ \A i \in 1 .. n : q[i] = q1[i]
        /\ \A i \in 1 .. m : q[n + i] = q2[i]
    OBVIOUS
  <1> DEFINE h1 == [i \in 0 .. n |-> h[i]]
             g1 == [i \in 0 .. n |-> g[i]]
             h2 == [i \in 0 .. m |-> h[n + i]]
             g2 == [i \in 0 .. m |-> g[n + i]]
  <1> HIDE DEF q
  <1>3. h \in [0 .. n + m -> SUBSET Modifiers] /\ g \in [0 .. n + m -> Nat] /\ h[0] = sh /\ g[0] = p
    BY <1>1, <1>2 DEF Trace
  <1>4. \A i \in 1 .. n + m : Step(h[i - 1], q[i], g[i - 1], h[i], g[i], ty)
    BY <1>1, <1>2 DEF Trace
  <1> HIDE DEF n, m
  <1>5. /\ h1 \in [0 .. n -> SUBSET Modifiers] /\ g1 \in [0 .. n -> Nat]
        /\ h2 \in [0 .. m -> SUBSET Modifiers] /\ g2 \in [0 .. m -> Nat]
    BY <1>2, <1>3
  <1>6. /\ \A i \in 0 .. n : h1[i] = h[i] /\ g1[i] = g[i]
        /\ \A i \in 0 .. m : h2[i] = h[n + i] /\ g2[i] = g[n + i]
    OBVIOUS
  <1> HIDE DEF h1, g1, h2, g2
  <1>7. ASSUME NEW i \in 1 .. n PROVE Step(h1[i - 1], q1[i], g1[i - 1], h1[i], g1[i], ty)
    <2>1. i \in 1 .. n + m /\ i - 1 \in 0 .. n /\ i \in 0 .. n
      BY <1>2
    <2>2. Step(h[i - 1], q[i], g[i - 1], h[i], g[i], ty)
      BY <1>4, <2>1
    <2>3. QED BY <1>2, <1>6, <2>1, <2>2
  <1>8. ASSUME NEW i \in 1 .. m PROVE Step(h2[i - 1], q2[i], g2[i - 1], h2[i], g2[i], ty)
    <2>1. n + i \in 1 .. n + m /\ i - 1 \in 0 .. m /\ i \in 0 .. m /\ n + i - 1 = n + (i - 1)
      BY <1>2
    <2>2. PICK j \in 1 .. n + m : j = n + i
      BY <2>1
    <2>3. Step(h[j - 1], q[j], g[j - 1], h[j], g[j], ty)
      BY <1>4
    <2>4. j - 1 = n + (i - 1)
      BY <1>2, <2>1, <2>2
    <2>5. h2[i - 1] = h[j - 1] /\ g2[i - 1] = g[j - 1] /\ h2[i] = h[j] /\ g2[i] = g[j] /\ q[j] = q2[i]
      BY <1>2, <1>6, <2>1, <2>2, <2>4
    <2>6. QED BY <2>3, <2>5
  <1>9. n \in 0 .. n /\ 0 \in 0 .. n /\ 0 \in 0 .. m /\ m \in 0 .. m /\ n + 0 = n
    BY <1>2
  <1>10. Trace(h1, g1, sh, q1, p, ty)
    BY <1>3, <1>5, <1>6, <1>7, <1>9 DEF Trace, n
  <1>11. Trace(h2, g2, h1[n], q2, g1[n], ty)
    <2>1. h2[0] = h1[n] /\ g2[0] = g1[n]
      BY <1>6, <1>9
    <2>2. QED BY <1>5, <1>8, <2>1 DEF Trace, m
  <1>12. h2[m] = sh2 /\ g2[m] = p2
    BY <1>1, <1>2, <1>6, <1>9
  <1>13. h1[n] \in SUBSET Modifiers /\ g1[n] \in Nat
    BY <1>5, <1>9
  <1>14. Reads(sh, q1, p, h1[n], g1[n], ty)
    BY <1>10 DEF Reads, n
  <1>15. Reads(h1[n], q2, g1[n], sh2, p2, ty)
    BY <1>11, <1>12 DEF Reads, m
  <1>16. QED BY <1>13, <1>14, <1>15

-----------------------------------------------------------------------------
(* What has been stored. *)

\* out is what the kernel kept of p characters of ty and n bytes of the serial
\* line: u names the character of ty each one is, or 0 for a byte of the serial
\* line, and laps counts the times the buffer ran over.
Kept(laps, u, out, over, p, n, ty) ==
  /\ Len(out) + C * laps = p + n
  /\ ~over => laps = 0 /\ \A t \in 1 .. p : \E i \in 1 .. Len(out) : u[i] = t
  /\ \A i \in 1 .. Len(out) : out[i] = IF u[i] = 0 THEN 127 ELSE ty[u[i]]
  /\ \A i, j \in 1 .. Len(out) : i < j /\ u[i] # 0 /\ u[j] # 0 => u[i] < u[j]

Stored(out, over, p, n, ty) ==
  /\ out \in Seq(1 .. 127) /\ p \in 0 .. Len(ty) /\ n \in Nat
  /\ \E laps \in Nat : \E u \in [1 .. Len(out) -> 0 .. p] : Kept(laps, u, out, over, p, n, ty)

\* A character more, of the keyboard (t = p + 1 and p2 = p + 1) or of the serial line (t = 0).
\* One character more: the next one of ty (t is its place), or a DEL of the line.
Counted(p, n, p2, n2, t, ty) ==
  /\ p2 \in Nat /\ n2 \in Nat /\ t \in Nat
  /\ \/ t = p + 1 /\ p2 = p + 1 /\ n2 = n /\ t <= Len(ty)
     \/ t = 0 /\ p2 = p /\ n2 = n + 1

LEMMA StoredMore ==
  ASSUME NEW out, NEW over, over \in BOOLEAN, NEW p, NEW n, NEW ty \in Seq(1 .. 126), Stored(out, over, p, n, ty),
         NEW p2, NEW n2, NEW t, Counted(p, n, p2, n2, t, ty)
  PROVE  Stored(Append(out, IF t = 0 THEN 127 ELSE ty[t]), over, p2, n2, ty)
  <1> /\ p2 \in Nat /\ n2 \in Nat /\ t \in Nat
      /\ \/ t = p + 1 /\ p2 = p + 1 /\ n2 = n /\ t <= Len(ty)
         \/ t = 0 /\ p2 = p /\ n2 = n + 1
    BY DEF Counted
  <1> DEFINE c == IF t = 0 THEN 127 ELSE ty[t]
             z == Len(out)
             out2 == Append(out, c)
  <1>1. out \in Seq(1 .. 127) /\ p \in 0 .. Len(ty) /\ n \in Nat /\ Len(ty) \in Nat
    BY DEF Stored
  <1>2. PICK laps \in Nat, u \in [1 .. z -> 0 .. p] : Kept(laps, u, out, over, p, n, ty)
    BY DEF Stored
  <1>3. c \in 1 .. 127 /\ p2 \in 0 .. Len(ty)
    <2>1. CASE t = 0
      BY <1>1, <2>1
    <2>2. CASE t # 0
      <3>1. t \in 1 .. Len(ty) /\ p2 = t
        BY <1>1, <2>2
      <3>2. ty[t] \in 1 .. 126
        BY <3>1, ElementOfSeq
      <3>3. QED BY <1>1, <2>2, <3>1, <3>2
    <2>3. QED BY <2>1, <2>2
  <1>4. z \in Nat
    BY <1>1
  <1> HIDE DEF c
  <1>5. /\ out2 \in Seq(1 .. 127) /\ Len(out2) = z + 1 /\ out2[z + 1] = c
        /\ \A i \in 1 .. z : out2[i] = out[i]
    BY <1>1, <1>3
  <1> HIDE DEF out2
  <1> DEFINE u2 == [i \in 1 .. z + 1 |-> IF i = z + 1 THEN t ELSE u[i]]
  <1>6. u2 \in [1 .. z + 1 -> 0 .. p2]
    <2>1. \A i \in 1 .. z : u[i] \in 0 .. p2
      BY <1>1, <1>2
    <2>2. t \in 0 .. p2
      BY <1>1
    <2>3. QED BY <1>4, <2>1, <2>2
  <1>7. u2[z + 1] = t /\ \A i \in 1 .. z : u2[i] = u[i]
    BY <1>4
  <1> HIDE DEF u2, z
  <1>8. z + C * laps = p + n
    BY <1>2 DEF Kept, z
  <1>9. Len(out2) + C * laps = p2 + n2
    <2>1. C * laps \in Int
      BY PositionsAre
    <2>2. p2 + n2 = p + n + 1
      BY <1>1
    <2> DEFINE x == C * laps
    <2> HIDE DEF x
    <2>3. x \in Int /\ z + x = p + n
      BY <1>8, <2>1 DEF x
    <2>4. Len(out2) + x = p2 + n2
      BY <1>1, <1>4, <1>5, <2>2, <2>3
    <2>5. QED BY <2>4 DEF x
  <1>10. ~over => laps = 0 /\ \A x \in 1 .. p2 : \E i \in 1 .. z + 1 : u2[i] = x
    <2>1. SUFFICES ASSUME ~over PROVE laps = 0 /\ \A x \in 1 .. p2 : \E i \in 1 .. z + 1 : u2[i] = x
      OBVIOUS
    <2>2. laps = 0 /\ \A x \in 1 .. p : \E i \in 1 .. z : u[i] = x
      BY <1>2, <2>1 DEF Kept, z
    <2>3. ASSUME NEW x \in 1 .. p2 PROVE \E i \in 1 .. z + 1 : u2[i] = x
      <3>1. CASE x \in 1 .. p
        <4>1. PICK i \in 1 .. z : u[i] = x
          BY <2>2, <3>1
        <4>2. i \in 1 .. z + 1 /\ u2[i] = x
          BY <1>4, <1>7, <4>1
        <4>3. QED BY <4>2
      <3>2. CASE x \notin 1 .. p
        <4>1. x = t
          BY <1>1, <3>2
        <4>2. z + 1 \in 1 .. z + 1
          BY <1>4
        <4>3. QED BY <1>7, <4>1, <4>2
      <3>3. QED BY <3>1, <3>2
    <2>4. QED BY <2>2, <2>3
  <1>11. ASSUME NEW i \in 1 .. z + 1 PROVE out2[i] = IF u2[i] = 0 THEN 127 ELSE ty[u2[i]]
    <2>1. CASE i = z + 1
      BY <1>5, <1>7, <2>1 DEF c
    <2>2. CASE i # z + 1
      <3>1. i \in 1 .. z
        BY <1>4, <2>2
      <3>2. out[i] = IF u[i] = 0 THEN 127 ELSE ty[u[i]]
        BY <1>2, <3>1 DEF Kept, z
      <3>3. QED BY <1>5, <1>7, <3>1, <3>2
    <2>3. QED BY <2>1, <2>2
  <1>12. ASSUME NEW i \in 1 .. z + 1, NEW j \in 1 .. z + 1, i < j, u2[i] # 0, u2[j] # 0
         PROVE  u2[i] < u2[j]
    <2>1. i \in 1 .. z /\ u2[i] = u[i]
      BY <1>4, <1>7, <1>12
    <2>2. CASE j = z + 1
      <3>1. u[i] \in 0 .. p /\ u2[j] = t
        BY <1>2, <1>7, <2>1, <2>2
      <3>2. QED BY <1>1, <1>12, <2>1, <3>1
    <2>3. CASE j # z + 1
      <3>1. j \in 1 .. z /\ u2[j] = u[j]
        BY <1>4, <1>7, <2>3
      <3>2. u[i] # 0 /\ u[j] # 0 => u[i] < u[j]
        BY <1>2, <1>12, <2>1, <3>1 DEF Kept, z
      <3>3. QED BY <1>12, <2>1, <3>1, <3>2
    <2>4. QED BY <2>2, <2>3
  <1>13. Kept(laps, u2, out2, over, p2, n2, ty)
    BY <1>5, <1>9, <1>10, <1>11, <1>12 DEF Kept
  <1>14. Stored(out2, over, p2, n2, ty)
    BY <1>2, <1>3, <1>5, <1>6, <1>13 DEF Stored
  <1>15. QED BY <1>14 DEF out2, c

\* The buffer runs over: the C characters w are lost.
LEMMA StoredCut ==
  ASSUME NEW out \in Seq(0 .. 255), NEW w \in Seq(0 .. 255), Len(w) = C, NEW over, NEW p, NEW n, NEW ty \in Seq(1 .. 126),
         Stored(out \o w, over, p, n, ty)
  PROVE  Stored(out, TRUE, p, n, ty)
  <1> DEFINE z == Len(out)
             all == out \o w
  <1>1. all \in Seq(1 .. 127) /\ p \in 0 .. Len(ty) /\ n \in Nat /\ Len(ty) \in Nat
    BY DEF Stored
  <1>2. PICK laps \in Nat, u \in [1 .. Len(all) -> 0 .. p] : Kept(laps, u, all, over, p, n, ty)
    BY DEF Stored
  <1>3. z \in Nat /\ C \in Nat /\ Len(all) = z + C /\ \A i \in 1 .. z : all[i] = out[i]
    <2>1. C \in Nat
      BY PositionsAre
    <2>2. z \in Nat /\ Len(all) = z + Len(w) /\ \A i \in 1 .. z : all[i] = out[i]
      OBVIOUS
    <2>3. QED BY <2>1, <2>2
  <1> HIDE DEF all
  <1>4. \A i \in 1 .. z : i \in 1 .. z + C
    BY <1>3
  <1>5. out \in Seq(1 .. 127)
    <2>1. \A i \in 1 .. z : out[i] \in 1 .. 127
      BY <1>1, <1>3, <1>4, ElementOfSeq
    <2>2. out = [i \in 1 .. z |-> out[i]]
      OBVIOUS
    <2>3. out \in [1 .. z -> 1 .. 127]
      BY <2>1, <2>2
    <2> HIDE DEF z
    <2>4. QED BY <1>3, <2>3, FunIsSeq
  <1> DEFINE u2 == [i \in 1 .. z |-> u[i]]
  <1>6. u2 \in [1 .. z -> 0 .. p] /\ \A i \in 1 .. z : u2[i] = u[i]
    BY <1>2, <1>3, <1>4
  <1> HIDE DEF u2, z
  <1>7. z + C * (laps + 1) = p + n
    <2>1. C * (laps + 1) = C * laps + C /\ C * laps \in Int
      BY <1>2, <1>3
    <2>2. Len(all) + C * laps = p + n
      BY <1>2 DEF Kept
    <2>3. QED BY <1>1, <1>3, <2>1, <2>2
  <1>8. /\ \A i \in 1 .. z : out[i] = IF u2[i] = 0 THEN 127 ELSE ty[u2[i]]
        /\ \A i, j \in 1 .. z : i < j /\ u2[i] # 0 /\ u2[j] # 0 => u2[i] < u2[j]
    <2>1. ASSUME NEW i \in 1 .. z PROVE out[i] = IF u2[i] = 0 THEN 127 ELSE ty[u2[i]]
      <3>1. all[i] = IF u[i] = 0 THEN 127 ELSE ty[u[i]]
        BY <1>2, <1>3, <1>4 DEF Kept
      <3>2. QED BY <1>3, <1>6, <3>1
    <2>2. ASSUME NEW i \in 1 .. z, NEW j \in 1 .. z, i < j, u2[i] # 0, u2[j] # 0 PROVE u2[i] < u2[j]
      <3>1. u[i] # 0 /\ u[j] # 0 => u[i] < u[j]
        BY <1>2, <1>3, <1>4, <2>2 DEF Kept
      <3>2. QED BY <1>6, <2>2, <3>1
    <2>3. QED BY <2>1, <2>2
  <1>9. laps + 1 \in Nat /\ Kept(laps + 1, u2, out, TRUE, p, n, ty)
    BY <1>2, <1>7, <1>8 DEF Kept, z
  <1>10. QED BY <1>1, <1>5, <1>6, <1>9 DEF Stored, z

\* More characters typed.
LEMMA StoredLonger ==
  ASSUME NEW out, NEW over, NEW p, NEW n, NEW ty \in Seq(1 .. 126), NEW m \in Seq(1 .. 126),
         Stored(out, over, p, n, ty)
  PROVE  Stored(out, over, p, n, ty \o m)
  <1> DEFINE z == Len(out)
             ty2 == ty \o m
  <1>1. out \in Seq(1 .. 127) /\ p \in 0 .. Len(ty) /\ n \in Nat /\ Len(ty) \in Nat
    BY DEF Stored
  <1>2. PICK laps \in Nat, u \in [1 .. z -> 0 .. p] : Kept(laps, u, out, over, p, n, ty)
    BY DEF Stored
  <1>3. Len(ty2) \in Nat /\ Len(ty) <= Len(ty2) /\ \A i \in 1 .. Len(ty) : ty2[i] = ty[i]
    BY <1>1
  <1> HIDE DEF ty2, z
  <1>4. ASSUME NEW i \in 1 .. z PROVE out[i] = IF u[i] = 0 THEN 127 ELSE ty2[u[i]]
    <2>1. out[i] = IF u[i] = 0 THEN 127 ELSE ty[u[i]]
      BY <1>2 DEF Kept, z
    <2>2. u[i] \in 0 .. p
      BY <1>2
    <2>3. u[i] # 0 => u[i] \in 1 .. Len(ty)
      BY <1>1, <2>2
    <2>4. QED BY <1>3, <2>1, <2>3
  <1>5. Kept(laps, u, out, over, p, n, ty2)
    BY <1>2, <1>4 DEF Kept, z
  <1>6. p \in 0 .. Len(ty2)
    BY <1>1, <1>3
  <1>7. Stored(out, over, p, n, ty2)
    BY <1>1, <1>2, <1>5, <1>6 DEF Stored, z
  <1>8. QED BY <1>7 DEF ty2

-----------------------------------------------------------------------------
(* What an interrupt stores. *)

Shape(s) == s = [shift |-> s.shift, overrun |-> s.overrun, cons |-> s.cons]

LEMMA InputTypes ==
  /\ \A s \in InputType :
        s.shift \in SUBSET Modifiers /\ s.overrun \in BOOLEAN /\ s.cons \in Rings /\ Shape(s)
  /\ \A sh \in SUBSET Modifiers, over \in BOOLEAN, q \in Rings :
        [shift |-> sh, overrun |-> over, cons |-> q] \in InputType
  BY DEF InputType, Rings, Shape

\* The state of the driver s has given the modifier state sh and stored p
\* characters of ty and n bytes of the serial line, after the reader got gt.
Has(s, sh, gt, p, n, ty) ==
  s \in InputType /\ s.shift = sh /\ Stored(gt \o Waiting(s.cons), s.overrun, p, n, ty)

\* Sequences of bytes: a byte at the end, two, a longer front, the first byte.
Octet == 0 .. 255

LEMMA OneByte == \A u \in Seq(Octet) : \A x \in Octet : Append(u, x) = u \o <<x>> /\ Append(u, x) \in Seq(Octet)
  OBVIOUS

LEMMA TwoBytes == \A u \in Seq(Octet) : \A x, y \in Octet : Append(Append(u, x), y) = u \o <<x, y>>
  OBVIOUS

LEMMA AfterFront == \A u, v \in Seq(Octet) : \A x \in Octet : Append(u \o v, x) = u \o Append(v, x)
  OBVIOUS

LEMMA FirstMoves == \A u, v \in Seq(Octet) : \A x \in Octet : Append(u, x) \o v = u \o (<<x>> \o v)
  OBVIOUS

LEMMA HeadTailIs ==
  ASSUME NEW S, NEW q \in Seq(S), q # <<>>
  PROVE  Head(q) \in S /\ Tail(q) \in Seq(S) /\ q = <<Head(q)>> \o Tail(q)
  OBVIOUS

LEMMA FirstByte ==
  \A v \in Seq(Octet) : v # <<>> => Head(v) \in Octet /\ Tail(v) \in Seq(Octet) /\ v = <<Head(v)>> \o Tail(v)
  BY HeadTailIs

\* All that was handed out or waits; one character after it.
All(gt, q) == gt \o Waiting(q)
With(out, c) == Append(out, c)

\* The ghost flag after cons_intr has stored c: set if that made rpos = wpos.
Marked(q, c, over, over2) == (Overruns(q, c) => over2 = TRUE) /\ (~Overruns(q, c) => over2 = over)

LEMMA CharStored ==
  ASSUME NEW q \in Rings, NEW c \in 1 .. 255, NEW over, NEW gt \in Seq(0 .. 255),
         NEW p, NEW n, NEW ty \in Seq(1 .. 126), Stored(With(All(gt, q), c), over, p, n, ty),
         NEW over2, Marked(q, c, over, over2)
  PROVE  Stored(All(gt, Store(q, c)), over2, p, n, ty)
  <1> DEFINE w == Waiting(q)
  <1>1. w \in Seq(0 .. 255) /\ Stored(Append(gt \o w, c), over, p, n, ty)
    BY WaitingIs DEF All, With
  <1> HIDE DEF w
  <1>2. Append(gt \o w, c) = gt \o Append(w, c)
    <2>1. c \in Octet /\ gt \in Seq(Octet) /\ w \in Seq(Octet)
      BY <1>1 DEF Octet
    <2>2. QED BY <2>1, AfterFront, Zenon
  <1>3. Store(q, c) \in Rings
    BY StoreIs
  <1>4. CASE Overruns(q, c)
    <2>1. Waiting(Store(q, c)) = <<>> /\ Len(w) = C - 1
      BY <1>4, StoreIs DEF w
    <2> DEFINE v == Append(w, c)
    <2>2. v \in Seq(0 .. 255) /\ Len(v) = C /\ Stored(gt \o v, over, p, n, ty)
      <3>1. C \in Nat
        BY PositionsAre
      <3>2. Append(w, c) \in Seq(0 .. 255) /\ Len(Append(w, c)) = Len(w) + 1
        BY <1>1
      <3>3. QED BY <1>1, <1>2, <2>1, <3>1, <3>2
    <2> HIDE DEF v
    <2>3. Stored(gt, TRUE, p, n, ty)
      BY <2>2, StoredCut
    <2>4. gt \o <<>> = gt
      OBVIOUS
    <2>5. over2 = TRUE
      BY <1>4 DEF Marked
    <2>6. QED BY <1>3, <2>1, <2>3, <2>4, <2>5 DEF All
  <1>5. CASE ~Overruns(q, c)
    <2>1. Waiting(Store(q, c)) = Append(w, c)
      BY <1>5, StoreIs DEF w
    <2>2. over2 = over
      BY <1>5 DEF Marked
    <2>3. QED BY <1>1, <1>2, <1>3, <2>1, <2>2 DEF All
  <1>6. QED BY <1>4, <1>5

\* One byte of the keyboard.
LEMMA ByteStored ==
  ASSUME NEW s, NEW sh, NEW gt \in Seq(0 .. 255), NEW p, NEW n, NEW ty \in Seq(1 .. 126), Has(s, sh, gt, p, n, ty),
         NEW d, d \in 0 .. 255, NEW sh2, NEW p2, p2 \in Nat, Step(sh, d, p, sh2, p2, ty)
  PROVE  Has(KbdByte(s, d), sh2, gt, p2, n, ty)
  <1> DEFINE r == kbd_proc_data(sh, d)
             q == s.cons
             over == s.overrun
  <1>1. s \in InputType /\ s.shift = sh /\ Stored(gt \o Waiting(q), over, p, n, ty)
    BY DEF Has
  <1>2. sh \in SUBSET Modifiers /\ over \in BOOLEAN /\ q \in Rings
    BY <1>1, InputTypes
  <1>3. r.shift \in SUBSET Modifiers /\ r.c \in 0 .. 255
    BY <1>2, ProcTyped
  <1>4. KbdByte(s, d) = [shift |-> r.shift, cons |-> Store(q, r.c), overrun |-> over \/ Overruns(q, r.c)]
    BY <1>1 DEF KbdByte
  <1>5. r.shift = sh2 /\ (\/ r.c = 0 /\ p2 = p
                          \/ r.c # 0 /\ p2 = p + 1 /\ p2 <= Len(ty) /\ r.c = ty[p2])
    BY DEF Step
  <1> HIDE DEF r, q, over
  <1>6. CASE r.c = 0
    <2>1. Store(q, r.c) = q /\ (over \/ Overruns(q, r.c)) = over /\ p2 = p
      BY <1>2, <1>5, <1>6 DEF Store, Overruns
    <2>2. KbdByte(s, d) = [shift |-> sh2, cons |-> q, overrun |-> over]
      BY <1>4, <1>5, <2>1
    <2>3. [shift |-> sh2, overrun |-> over, cons |-> q] \in InputType
      BY <1>2, <1>3, <1>5, InputTypes
    <2>4. KbdByte(s, d).cons = q /\ KbdByte(s, d).overrun = over /\ KbdByte(s, d).shift = sh2
          /\ KbdByte(s, d) \in InputType
      BY <2>2, <2>3
    <2>5. QED BY <1>1, <2>1, <2>4 DEF Has
  <1>7. CASE r.c # 0
    <2>1. r.c \in 1 .. 255 /\ p2 = p + 1 /\ p2 <= Len(ty) /\ r.c = ty[p2]
      BY <1>3, <1>5, <1>7
    <2>2. p \in Nat /\ n \in Nat
      BY <1>1 DEF Stored
    <2>3. Stored(Append(gt \o Waiting(q), IF p2 = 0 THEN 127 ELSE ty[p2]), over, p2, n, ty)
      <3>1. Counted(p, n, p2, n, p2, ty)
        BY <2>1, <2>2 DEF Counted
      <3>2. QED BY <1>1, <1>2, <3>1, StoredMore
    <2>4. p2 # 0
      BY <2>1, <2>2
    <2>5. Stored(Append(gt \o Waiting(q), r.c), over, p2, n, ty)
      BY <2>1, <2>3, <2>4
    <2> DEFINE q2 == Store(q, r.c)
               over2 == over \/ Overruns(q, r.c)
    <2>6. /\ over2 \in BOOLEAN
          /\ (Overruns(q, r.c) => over2 = TRUE) /\ (~Overruns(q, r.c) => over2 = over)
      BY <1>2 DEF Overruns
    <2> HIDE DEF over2
    <2>7. q2 \in Rings /\ Stored(gt \o Waiting(q2), over2, p2, n, ty)
      <3>1. PICK c \in 1 .. 255 : c = r.c
        BY <2>1
      <3>2. PICK k : k = p2
        OBVIOUS
      <3>3. Stored(With(All(gt, q), c), over, k, n, ty)
        BY <2>5, <3>1, <3>2 DEF With, All
      <3>4. Marked(q, c, over, over2)
        BY <2>6, <3>1 DEF Marked
      <3>5. c \in 1 .. 255
        OBVIOUS
      <3>6. Stored(All(gt, Store(q, c)), over2, k, n, ty)
        BY <1>2, <3>3, <3>4, <3>5, CharStored
      <3>7. Store(q, c) \in Rings
        BY <1>2, <3>5, StoreIs
      <3>8. QED BY <3>1, <3>2, <3>6, <3>7 DEF All
    <2>8. KbdByte(s, d) = [shift |-> sh2, cons |-> q2, overrun |-> over2]
      BY <1>4, <1>5 DEF over2
    <2> HIDE DEF q2
    <2>9. KbdByte(s, d) \in InputType
      BY <1>3, <1>5, <2>6, <2>7, <2>8, InputTypes
    <2>10. QED BY <2>7, <2>8, <2>9 DEF Has
  <1>8. QED BY <1>6, <1>7

\* All the bytes of the keyboard controller.
LEMMA KbdStored ==
  ASSUME NEW s, NEW sh, NEW gt \in Seq(0 .. 255), NEW p, NEW n, NEW ty \in Seq(1 .. 126), Has(s, sh, gt, p, n, ty),
         NEW q \in Seq(0 .. 255), NEW sh2, NEW p2, Reads(sh, q, p, sh2, p2, ty)
  PROVE  Has(kbd_intr(s, q), sh2, gt, p2, n, ty)
  <1>1. PICK h, g : Trace(h, g, sh, q, p, ty) /\ h[Len(q)] = sh2 /\ g[Len(q)] = p2
    BY DEF Reads
  <1> DEFINE W == [i \in 0 .. Len(q) |-> {x \in InputType : Has(x, h[i], gt, g[i], n, ty)}]
  <1>2. Len(q) \in Nat /\ 0 \in 0 .. Len(q) /\ Len(q) \in 0 .. Len(q)
    OBVIOUS
  <1>3. \A i \in 0 .. Len(q) : W[i] = {x \in InputType : Has(x, h[i], gt, g[i], n, ty)}
    OBVIOUS
  <1> HIDE DEF W
  <1>4. s \in W[0]
    <2>1. h[0] = sh /\ g[0] = p /\ s \in InputType
      BY <1>1 DEF Trace, Has
    <2>2. QED BY <1>2, <1>3, <2>1
  <1>5. \A i \in 0 .. Len(q) : W[i] \subseteq InputType
    BY <1>3
  <1>6. ASSUME NEW i \in 1 .. Len(q), NEW x \in W[i - 1] PROVE KbdByte(x, q[i]) \in W[i]
    <2>1. i \in 0 .. Len(q) /\ i - 1 \in 0 .. Len(q)
      OBVIOUS
    <2>2. Has(x, h[i - 1], gt, g[i - 1], n, ty)
      BY <1>3, <1>6, <2>1
    <2>3. q[i] \in 0 .. 255
      BY ElementOfSeq
    <2>4. Step(h[i - 1], q[i], g[i - 1], h[i], g[i], ty) /\ g[i] \in Nat
      BY <1>1, <2>1 DEF Trace
    <2>5. Has(KbdByte(x, q[i]), h[i], gt, g[i], n, ty)
      <3>1. PICK sa, pa, c, sb, pb : sa = h[i - 1] /\ pa = g[i - 1] /\ c = q[i] /\ sb = h[i] /\ pb = g[i]
        OBVIOUS
      <3>2. Has(x, sa, gt, pa, n, ty) /\ c \in 0 .. 255 /\ Step(sa, c, pa, sb, pb, ty) /\ pb \in Nat
        BY <2>2, <2>3, <2>4, <3>1
      <3>3. Has(KbdByte(x, c), sb, gt, pb, n, ty)
        BY <3>2, ByteStored
      <3>4. QED BY <3>1, <3>3
    <2>6. KbdByte(x, q[i]) \in InputType
      BY <2>5 DEF Has
    <2>7. QED BY <1>3, <2>1, <2>5, <2>6
  <1>7. kbd_intr(s, q) \in W[Len(q)]
    BY <1>4, <1>5, <1>6, KbdKeeps
  <1>8. QED BY <1>1, <1>2, <1>3, <1>7

\* The receive register of the serial port.
Register(reg) == reg = <<>> \/ reg = <<127>>

LEMMA SerialStored ==
  ASSUME NEW s, NEW sh, NEW gt \in Seq(0 .. 255), NEW p, NEW n, NEW ty \in Seq(1 .. 126), Has(s, sh, gt, p, n, ty),
         NEW reg, Register(reg)
  PROVE  Has(serial_intr(s, reg), sh, gt, p, n + Len(reg), ty)
  <1> DEFINE q == s.cons
             over == s.overrun
  <1>1. s \in InputType /\ s.shift = sh /\ Stored(gt \o Waiting(q), over, p, n, ty)
    BY DEF Has
  <1>2. sh \in SUBSET Modifiers /\ over \in BOOLEAN /\ q \in Rings /\ Shape(s)
    BY <1>1, InputTypes
  <1>3. p \in Nat /\ n \in Nat
    BY <1>1 DEF Stored
  <1> HIDE DEF q, over
  <1>4. CASE reg = <<>>
    <2>1. serial_intr(s, reg) = s /\ n + Len(reg) = n
      BY <1>3, <1>4 DEF serial_intr
    <2>2. QED BY <2>1
  <1>5. CASE reg = <<127>>
    <2>1. reg # <<>> /\ reg[1] = 127 /\ Len(reg) = 1
      BY <1>5
    <2> DEFINE q2 == Store(q, 127)
               over2 == over \/ Overruns(q, 127)
    <2>2. serial_intr(s, reg) = [shift |-> sh, overrun |-> over2, cons |-> q2]
      BY <1>1, <1>2, <2>1 DEF serial_intr, Shape, q, over
    <2>3. Stored(Append(gt \o Waiting(q), 127), over, p, n + 1, ty)
      <3>1. PICK t, m : t = 0 /\ m = n + 1
        OBVIOUS
      <3>2. Counted(p, n, p, m, t, ty)
        BY <1>3, <3>1 DEF Counted
      <3>3. Stored(Append(gt \o Waiting(q), IF t = 0 THEN 127 ELSE ty[t]), over, p, m, ty)
        BY <1>1, <1>2, <3>2, StoredMore
      <3>4. QED BY <3>1, <3>3
    <2>4. /\ over2 \in BOOLEAN
          /\ (Overruns(q, 127) => over2 = TRUE) /\ (~Overruns(q, 127) => over2 = over)
      BY <1>2 DEF Overruns
    <2> HIDE DEF over2
    <2>7. q2 \in Rings /\ Stored(gt \o Waiting(q2), over2, p, n + 1, ty)
      <3>1. 127 \in 1 .. 255 /\ Stored(With(All(gt, q), 127), over, p, n + 1, ty)
        BY <2>3 DEF With, All
      <3>2. PICK c \in 1 .. 255 : c = 127
        OBVIOUS
      <3>3. PICK m : m = n + 1
        OBVIOUS
      <3>4. Marked(q, c, over, over2)
        BY <2>4, <3>2 DEF Marked
      <3>5. Stored(With(All(gt, q), c), over, p, m, ty)
        BY <3>1, <3>2, <3>3
      <3>6. Stored(All(gt, Store(q, c)), over2, p, m, ty)
        BY <1>2, <3>4, <3>5, CharStored
      <3>7. Store(q, c) \in Rings
        BY <1>2, StoreIs
      <3>8. QED BY <3>2, <3>3, <3>6, <3>7 DEF All
    <2> HIDE DEF q2
    <2>5. serial_intr(s, reg) \in InputType
      BY <1>2, <2>2, <2>4, <2>7, InputTypes
    <2>6. QED BY <2>1, <2>2, <2>5, <2>7 DEF Has
  <1>6. QED BY <1>4, <1>5 DEF Register

-----------------------------------------------------------------------------
(* The inductive invariant of the keyboard, the serial line and the buffer. *)

Devices ==
  /\ held \subseteq Keys /\ OneEach(held) /\ caps \in BOOLEAN
  /\ kbd \in Seq(0 .. 255) /\ wire \in Seq(0 .. 255) /\ Register(uart)
  /\ typed \in Seq(1 .. 126) /\ got \in Seq(0 .. 255) /\ heard \in Nat /\ heard >= Len(uart)

\* The bytes still to be processed lead from the driver's modifier state to
\* that of the keyboard, and complete the characters not yet stored.
Pending(p) ==
  /\ Has(Input, shift, got, p, heard - Len(uart), typed)
  /\ Reads(shift, kbd \o wire, p, Mods(held, caps), Len(typed), typed)

KeysInv == Devices /\ \E p : Pending(p)

LEMMA HasLonger ==
  ASSUME NEW s, NEW sh, NEW gt, NEW p, NEW n, NEW ty \in Seq(1 .. 126), NEW m \in Seq(1 .. 126),
         Has(s, sh, gt, p, n, ty)
  PROVE  Has(s, sh, gt, p, n, ty \o m)
  BY StoredLonger DEF Has

LEMMA KeyIs ==
  ASSUME NEW k \in Keys
  PROVE  k \in 0 .. 255 /\ E0 \in 0 .. 255 /\ (k >= 128 => k - 128 \in 0 .. 255) /\ (k < 128 => k + 128 \in 0 .. 255)
  BY KeysAssumption DEF E0, CAPSKEY, CTLKEYS, SHIFTKEYS

LEMMA ModsTyped ==
  ASSUME NEW down, NEW upper
  PROVE  Mods(down, upper) \in SUBSET Modifiers /\ Mods(down, upper) \cup {"E0ESC"} \in SUBSET Modifiers
  BY ModsIs DEF Modifiers

LEMMA ShortSeqs ==
  ASSUME NEW S
  PROVE  /\ <<>> \in Seq(S)
         /\ \A x \in S : <<x>> \in Seq(S)
         /\ \A x, y \in S : <<x, y>> \in Seq(S)
  OBVIOUS

\* Nothing has been pressed.
LEMMA InitKeys == Init => KeysInv
  <1> SUFFICES ASSUME Init PROVE KeysInv
    OBVIOUS
  <1>1. Devices
    <2>1. /\ held = {} /\ caps = FALSE /\ kbd = <<>> /\ wire = <<>> /\ uart = <<>> /\ typed = <<>>
          /\ got = <<>> /\ heard = 0
      BY DEF Init
    <2>2. OneEach({})
      BY DEF OneEach
    <2>3. <<>> \in Seq(0 .. 255) /\ <<>> \in Seq(1 .. 126)
      BY ShortSeqs
    <2>4. heard >= Len(uart)
      BY <2>1
    <2>5. QED BY <2>1, <2>2, <2>3, <2>4 DEF Devices, Register
  <1>2. Mods({}, FALSE) = {} /\ {} \in SUBSET Modifiers
    BY DEF Mods
  <1>3. cons \in Rings /\ Input = [shift |-> {}, cons |-> cons, overrun |-> FALSE]
    <2>1. cons = [buf |-> [x \in Positions |-> 0], rpos |-> 0, wpos |-> 0] /\ shift = {} /\ overrun = FALSE
      BY DEF Init
    <2>2. 0 \in Positions /\ [x \in Positions |-> 0] \in [Positions -> 0 .. 255]
      BY PositionsAre
    <2>3. QED BY <2>1, <2>2 DEF Rings, Input
  <1>4. Waiting(cons) = <<>>
    <2>1. Filled(cons) = 0
      BY DEF Init, Filled
    <2>2. Waiting(cons) \in Seq(0 .. 255) /\ Len(Waiting(cons)) = 0
      BY <1>3, <2>1, WaitingIs
    <2>3. QED BY <2>2, EmptySeq
  <1>5. Stored(<<>>, FALSE, 0, 0, <<>>)
    <2> DEFINE u == [i \in 1 .. 0 |-> 0]
    <2>1. Kept(0, u, <<>>, FALSE, 0, 0, <<>>)
      BY PositionsAre DEF Kept
    <2>2. u \in [1 .. 0 -> 0 .. 0]
      OBVIOUS
    <2> HIDE DEF u
    <2>3. /\ <<>> \in Seq(1 .. 127) /\ 0 \in 0 .. Len(<<>>) /\ 0 \in Nat
          /\ u \in [1 .. Len(<<>>) -> 0 .. 0]
      BY <2>2
    <2>4. QED BY <2>1, <2>3 DEF Stored
  <1>6. Has(Input, {}, <<>>, 0, 0, <<>>)
    <2>1. Input \in InputType
      BY <1>2, <1>3, InputTypes
    <2>2. <<>> \o Waiting(Input.cons) = <<>> /\ Input.overrun = FALSE /\ Input.shift = {}
      BY <1>3, <1>4
    <2>3. QED BY <1>5, <2>1, <2>2 DEF Has
  <1>7. Reads({}, <<>>, 0, {}, 0, <<>>)
    BY <1>2, ReadsNone
  <1>8. Pending(0)
    <2>1. /\ shift = {} /\ got = <<>> /\ typed = <<>> /\ heard - Len(uart) = 0 /\ kbd \o wire = <<>>
          /\ held = {} /\ caps = FALSE /\ Len(typed) = 0
      <3>1. /\ shift = {} /\ got = <<>> /\ typed = <<>> /\ heard = 0 /\ uart = <<>> /\ kbd = <<>> /\ wire = <<>>
            /\ held = {} /\ caps = FALSE
        BY DEF Init
      <3>2. Len(uart) = 0 /\ Len(typed) = 0
        BY <3>1
      <3>3. kbd \o wire = <<>>
        BY <3>1
      <3>4. heard - Len(uart) = 0
        <4>1. heard = 0
          BY <3>1
        <4>2. QED BY <3>2, <4>1
      <3>5. QED BY <3>1, <3>2, <3>3, <3>4
    <2>2. QED BY <1>2, <1>6, <1>7, <2>1 DEF Pending
  <1>9. QED BY <1>1, <1>8 DEF KeysInv

\* Nothing the invariant speaks of changes.
LEMMA KeysSame ==
  ASSUME KeysInv, UNCHANGED <<held, caps, wire, kbd, uart, typed, heard, shift, cons, got, overrun>>
  PROVE  KeysInv'
  BY DEF KeysInv, Devices, Register, Pending, Input

\* A key goes down.
LEMMA PressKeys ==
  ASSUME KeysInv, NEW k \in Keys, Press(k)
  PROVE  KeysInv'
  <1>1. /\ wire = <<>> /\ held' = held \cup {k} /\ caps' = (caps # (k = CAPSKEY))
        /\ wire' = IF k >= 128 THEN <<E0, k - 128>> ELSE <<k>>
        /\ typed' = typed \o Meaning(k, held', caps')
        /\ shiftcode(k) # {} => \A j \in held \ {k} : shiftcode(j) # shiftcode(k)
        /\ UNCHANGED <<kbd, uart, heard, shift, cons, overrun, got>>
    BY DEF Press, kernel
  <1>2. Devices
    BY DEF KeysInv
  <1>3. k \in 0 .. 255 /\ E0 \in 0 .. 255 /\ (k >= 128 => k - 128 \in 0 .. 255)
    BY KeyIs
  <1>4. caps' \in BOOLEAN /\ (caps' <=> ~(caps <=> k = CAPSKEY))
    BY <1>1, <1>2 DEF Devices, Register
  <1> DEFINE m == Meaning(k, held', caps')
  <1>5. m \in Seq(1 .. 126)
    <2>1. m = <<>> \/ \E c \in 1 .. 126 : m = <<c>>
      <3>1. PICK x : x = KeyChar(Mods(held', caps'), k)
        OBVIOUS
      <3>2. Says(m, x)
        BY <1>4, <3>1, MeaningIs
      <3>3. QED BY <3>2 DEF Says
    <2> HIDE DEF m
    <2>2. QED BY <2>1, ShortSeqs
  <1> HIDE DEF m
  <1>6. typed \in Seq(1 .. 126) /\ typed' = typed \o m /\ typed' \in Seq(1 .. 126)
    <2>1. typed \in Seq(1 .. 126) /\ typed' = typed \o m
      BY <1>1, <1>2 DEF Devices, Register, m
    <2>2. QED BY <1>5, <2>1, ConcatProperties
  <1>7. OneEach(held')
    <2>1. SUFFICES ASSUME NEW i \in held', NEW j \in held', shiftcode(i) = shiftcode(j), shiftcode(j) # {}
                   PROVE  i = j
      BY DEF OneEach
    <2>2. CASE i = k \/ j = k
      BY <1>1, <2>1, <2>2
    <2>3. CASE i # k /\ j # k
      BY <1>1, <1>2, <2>1, <2>3 DEF Devices, Register, OneEach
    <2>4. QED BY <2>2, <2>3
  <1>8. wire' \in Seq(0 .. 255)
    <2>1. CASE k >= 128
      <3>1. k - 128 \in 0 .. 255 /\ E0 \in 0 .. 255
        BY <1>3, <2>1
      <3>2. <<E0, k - 128>> \in Seq(0 .. 255)
        BY <3>1
      <3>3. QED BY <1>1, <2>1, <3>2
    <2>2. CASE ~(k >= 128)
      <3>1. <<k>> \in Seq(0 .. 255)
        BY <1>3
      <3>2. QED BY <1>1, <2>2, <3>1
    <2>3. QED BY <2>1, <2>2
  <1>9. Devices'
    BY <1>1, <1>2, <1>4, <1>6, <1>7, <1>8 DEF Devices, Register
  <1>10. PICK p : Pending(p)
    BY DEF KeysInv
  <1>11. Has(Input', shift', got', p, (heard - Len(uart))', typed')
    <2>1. Has(Input, shift, got, p, heard - Len(uart), typed \o m)
      BY <1>5, <1>6, <1>10, HasLonger DEF Pending
    <2>2. Input' = Input
      BY <1>1 DEF Input
    <2>3. QED BY <1>1, <1>6, <2>1, <2>2
  <1> DEFINE a == Mods(held, caps)
             b == Mods(held', caps')
             x == Len(typed)
             y == Len(typed')
  <1>12. /\ a \in SUBSET Modifiers /\ b \in SUBSET Modifiers /\ a \cup {"E0ESC"} \in SUBSET Modifiers
         /\ x \in Nat /\ y \in Nat
    BY <1>6, ModsTyped
  <1>13. kbd \in Seq(0 .. 255) /\ Reads(shift, kbd, p, a, x, typed')
    <2>1. kbd \in Seq(0 .. 255) /\ kbd \o wire = kbd
      BY <1>1, <1>2 DEF Devices, Register
    <2>2. Reads(shift, kbd, p, a, x, typed)
      BY <1>10, <2>1 DEF Pending
    <2>3. QED BY <1>5, <1>6, <2>1, <2>2, ReadsLonger
  <1>14. /\ k >= 128 => Step(a, E0, x, a \cup {"E0ESC"}, x, typed') /\ Step(a \cup {"E0ESC"}, k - 128, x, b, y, typed')
         /\ k < 128 => Step(a, k, x, b, y, typed')
    <2>1. Toggled(k, caps, caps')
      BY <1>4 DEF Toggled
    <2> HIDE DEF a, b, x, y
    <2>2. held' = held \cup {k} /\ typed' = typed \o Meaning(k, held', caps')
      BY <1>1
    <2>3. KeyPath(k, k - 128, k, Mods(held, caps), Len(typed), Mods(held', caps'), Len(typed'), typed')
      <3>1. PICK h, u, t : h = held' /\ u = caps' /\ t = typed'
        OBVIOUS
      <3>2. Toggled(k, caps, u) /\ h = held \cup {k} /\ t = typed \o Meaning(k, h, u) /\ typed \in Seq(1 .. 126)
        BY <1>6, <2>1, <2>2, <3>1
      <3>3. PressPaths(k, held, caps, h, u, typed, t)
        BY <1>3, <3>2, PressSteps
      <3>4. QED BY <3>1, <3>3 DEF PressPaths
    <2>4. QED BY <2>3 DEF KeyPath, a, b, x, y
  <1> HIDE DEF a, b, x, y
  <1>15. Reads(shift, kbd \o wire', p, b, y, typed')
    <2>1. CASE k >= 128
      <3>1. Reads(shift, Append(kbd, E0), p, a \cup {"E0ESC"}, x, typed')
        BY <1>3, <1>12, <1>13, <1>14, <2>1, ReadsMore
      <3>2. Append(kbd, E0) \in Seq(0 .. 255) /\ k - 128 \in 0 .. 255
        BY <1>3, <1>13, <2>1
      <3>3. Reads(shift, Append(Append(kbd, E0), k - 128), p, b, y, typed')
        BY <1>12, <1>14, <2>1, <3>1, <3>2, ReadsMore
      <3>4. Append(Append(kbd, E0), k - 128) = kbd \o <<E0, k - 128>>
        <4>1. PICK j : j = k - 128
          OBVIOUS
        <4>2. E0 \in Octet /\ j \in Octet /\ kbd \in Seq(Octet)
          BY <1>3, <1>13, <3>2, <4>1 DEF Octet
        <4>3. Append(Append(kbd, E0), j) = kbd \o <<E0, j>>
          BY <4>2, TwoBytes, Zenon
        <4>4. QED BY <4>1, <4>3
      <3>5. QED BY <1>1, <2>1, <3>3, <3>4
    <2>2. CASE k < 128
      <3>1. Reads(shift, Append(kbd, k), p, b, y, typed')
        BY <1>3, <1>12, <1>13, <1>14, <2>2, ReadsMore
      <3>2. Append(kbd, k) = kbd \o <<k>>
        <4>1. k \in Octet /\ kbd \in Seq(Octet)
          BY <1>3, <1>13 DEF Octet
        <4>2. QED BY <4>1, OneByte, Zenon
      <3>3. ~(k >= 128)
        BY <1>3, <2>2
      <3>4. QED BY <1>1, <3>1, <3>2, <3>3
    <2>3. QED BY <1>3, <2>1, <2>2
  <1>16. Pending(p)'
    BY <1>1, <1>11, <1>15 DEF Pending, b, y
  <1>17. QED BY <1>9, <1>16 DEF KeysInv

\* A key goes up.
LEMMA ReleaseKeys ==
  ASSUME KeysInv, NEW k \in Keys, Release(k)
  PROVE  KeysInv'
  <1>1. /\ wire = <<>> /\ k \in held /\ held' = held \ {k}
        /\ wire' = IF k >= 128 THEN <<E0, k>> ELSE <<k + 128>>
        /\ UNCHANGED <<caps, kbd, uart, typed, heard, shift, cons, overrun, got>>
    BY DEF Release, kernel
  <1>2. Devices
    BY DEF KeysInv
  <1>3. k \in 0 .. 255 /\ E0 \in 0 .. 255 /\ (k < 128 => k + 128 \in 0 .. 255)
    BY KeyIs
  <1>4. OneEach(held) /\ held \subseteq Keys /\ typed \in Seq(1 .. 126) /\ Len(typed) \in Nat
    BY <1>2 DEF Devices, Register
  <1>5. OneEach(held') /\ held' \subseteq Keys
    BY <1>1, <1>4 DEF OneEach
  <1>6. wire' \in Seq(0 .. 255)
    <2>1. CASE k >= 128
      BY <1>1, <1>3, <2>1, ShortSeqs
    <2>2. CASE ~(k >= 128)
      <3>1. k + 128 \in 0 .. 255
        BY <1>3, <2>2
      <3>2. QED BY <1>1, <2>2, <3>1, ShortSeqs
    <2>3. QED BY <2>1, <2>2
  <1>7. Devices'
    BY <1>1, <1>2, <1>5, <1>6 DEF Devices, Register
  <1>8. PICK p : Pending(p)
    BY DEF KeysInv
  <1>9. Has(Input', shift', got', p, (heard - Len(uart))', typed')
    BY <1>1, <1>8 DEF Pending, Input
  <1> DEFINE a == Mods(held, caps)
             b == Mods(held', caps)
             x == Len(typed)
  <1>10. /\ a \in SUBSET Modifiers /\ b \in SUBSET Modifiers /\ a \cup {"E0ESC"} \in SUBSET Modifiers
         /\ x \in Nat
    BY <1>4, ModsTyped
  <1>11. kbd \in Seq(0 .. 255) /\ Reads(shift, kbd, p, a, x, typed)
    <2>1. kbd \in Seq(0 .. 255) /\ kbd \o wire = kbd
      BY <1>1, <1>2 DEF Devices, Register
    <2>2. QED BY <1>8, <2>1 DEF Pending
  <1>12. /\ k >= 128 => Step(a, E0, x, a \cup {"E0ESC"}, x, typed) /\ Step(a \cup {"E0ESC"}, k, x, b, x, typed)
         /\ k < 128 => Step(a, k + 128, x, b, x, typed)
    <2> HIDE DEF a, b, x
    <2>1. KeyPath(k, k, k + 128, Mods(held, caps), Len(typed), Mods(held \ {k}, caps), Len(typed), typed)
      BY <1>1, <1>3, <1>4, ReleaseSteps
    <2>2. b = Mods(held \ {k}, caps)
      BY <1>1 DEF b
    <2>3. QED BY <2>1, <2>2 DEF KeyPath, a, x
  <1> HIDE DEF a, b, x
  <1>13. Reads(shift, kbd \o wire', p, b, x, typed)
    <2>1. CASE k >= 128
      <3>1. Reads(shift, Append(kbd, E0), p, a \cup {"E0ESC"}, x, typed)
        BY <1>3, <1>10, <1>11, <1>12, <2>1, ReadsMore
      <3>2. Append(kbd, E0) \in Seq(0 .. 255)
        BY <1>3, <1>11
      <3>3. Reads(shift, Append(Append(kbd, E0), k), p, b, x, typed)
        BY <1>3, <1>10, <1>12, <2>1, <3>1, <3>2, ReadsMore
      <3>4. Append(Append(kbd, E0), k) = kbd \o <<E0, k>>
        BY <1>3, <1>11
      <3>5. QED BY <1>1, <2>1, <3>3, <3>4
    <2>2. CASE k < 128
      <3>1. Reads(shift, Append(kbd, k + 128), p, b, x, typed)
        BY <1>3, <1>10, <1>11, <1>12, <2>2, ReadsMore
      <3>2. Append(kbd, k + 128) = kbd \o <<k + 128>>
        <4>1. PICK j : j = k + 128
          OBVIOUS
        <4>2. j \in Octet /\ kbd \in Seq(Octet)
          BY <1>3, <1>11, <2>2, <4>1 DEF Octet
        <4>3. Append(kbd, j) = kbd \o <<j>>
          BY <4>2, OneByte, Zenon
        <4>4. QED BY <4>1, <4>3
      <3>3. ~(k >= 128)
        BY <1>3, <2>2
      <3>4. QED BY <1>1, <3>1, <3>2, <3>3
    <2>3. QED BY <1>3, <2>1, <2>2
  <1>14. Pending(p)'
    BY <1>1, <1>9, <1>13 DEF Pending, b, x
  <1>15. QED BY <1>7, <1>14 DEF KeysInv

\* A byte of the keyboard reaches its controller.
LEMMA ArriveKeys ==
  ASSUME KeysInv, Arrive
  PROVE  KeysInv'
  <1>1. /\ wire # <<>> /\ kbd' = Append(kbd, Head(wire)) /\ wire' = Tail(wire)
        /\ UNCHANGED <<held, caps, uart, typed, heard, shift, cons, overrun, got>>
    BY DEF Arrive, kernel
  <1>2. kbd \in Seq(0 .. 255) /\ wire \in Seq(0 .. 255)
    BY DEF KeysInv, Devices, Register
  <1>3. Head(wire) \in 0 .. 255 /\ kbd' \in Seq(0 .. 255) /\ wire' \in Seq(0 .. 255)
    <2>1. kbd \in Seq(Octet) /\ wire \in Seq(Octet)
      BY <1>2 DEF Octet
    <2>2. Head(wire) \in Octet /\ Tail(wire) \in Seq(Octet)
      BY <1>1, <2>1, FirstByte, Zenon
    <2>3. Append(kbd, Head(wire)) \in Seq(Octet)
      BY <2>1, <2>2, OneByte, Zenon
    <2>4. QED BY <1>1, <2>2, <2>3 DEF Octet
  <1>4. kbd' \o wire' = kbd \o wire
    <2>1. kbd \in Seq(Octet) /\ wire \in Seq(Octet)
      BY <1>2 DEF Octet
    <2>2. wire = <<Head(wire)>> \o Tail(wire) /\ Head(wire) \in Octet /\ Tail(wire) \in Seq(Octet)
      BY <1>1, <2>1, FirstByte, Zenon
    <2>3. PICK x, v : x = Head(wire) /\ v = Tail(wire)
      OBVIOUS
    <2>4. Append(kbd, x) \o v = kbd \o (<<x>> \o v)
      BY <2>1, <2>2, <2>3, FirstMoves, Zenon
    <2>5. QED BY <1>1, <2>2, <2>3, <2>4, Zenon
  <1>5. Devices'
    BY <1>1, <1>3 DEF KeysInv, Devices, Register
  <1>6. PICK p : Pending(p)
    BY DEF KeysInv
  <1>7. Pending(p)'
    BY <1>1, <1>4, <1>6 DEF Pending, Input
  <1>8. QED BY <1>5, <1>7 DEF KeysInv

\* A byte of the serial line replaces one that was not read.
LEMMA ReceiveKeys ==
  ASSUME KeysInv, NEW c \in SerialBytes, Receive(c)
  PROVE  KeysInv'
  <1>1. /\ uart' = <<c>> /\ heard' = (IF uart = <<>> THEN heard + 1 ELSE heard)
        /\ UNCHANGED <<held, caps, wire, kbd, typed, shift, cons, overrun, got>>
    BY DEF Receive, kernel
  <1>2. c = 127
    BY SerialAssumption
  <1>3. Devices
    BY DEF KeysInv
  <1>4. heard' \in Nat /\ heard' >= Len(uart') /\ heard' - Len(uart') = heard - Len(uart)
    <2>1. heard \in Nat /\ heard >= Len(uart) /\ (uart = <<>> \/ uart = <<127>>) /\ Len(uart') = 1
      BY <1>1, <1>3 DEF Devices, Register
    <2>2. CASE uart = <<>>
      BY <1>1, <2>1, <2>2
    <2>3. CASE uart = <<127>>
      <3>1. Len(uart) = 1 /\ uart # <<>>
        BY <2>3
      <3>2. QED BY <1>1, <2>1, <3>1
    <2>4. QED BY <2>1, <2>2, <2>3
  <1>5. Devices'
    BY <1>1, <1>2, <1>3, <1>4 DEF Devices, Register
  <1>6. PICK p : Pending(p)
    BY DEF KeysInv
  <1>7. Pending(p)'
    BY <1>1, <1>4, <1>6 DEF Pending, Input
  <1>8. QED BY <1>5, <1>7 DEF KeysInv

\* The state an interrupt or a poll leaves.
LEMMA ResultIs ==
  ASSUME NEW in \in InputType, Result(in)
  PROVE  Input' = in
  <1>1. Shape(in)
    BY InputTypes
  <1>2. shift' = in.shift /\ cons' = in.cons /\ overrun' = in.overrun
    BY DEF Result
  <1>3. Input' = [shift |-> shift', cons |-> cons', overrun |-> overrun']
    BY DEF Input
  <1>4. QED BY <1>1, <1>2, <1>3 DEF Shape

LEMMA InputIs ==
  Input.shift = shift /\ Input.cons = cons /\ Input.overrun = overrun
  BY DEF Input

\* The bytes of the controller are all processed.
LEMMA KbdDrains ==
  ASSUME KeysInv, NEW s, NEW p, NEW n, Has(s, shift, got, p, n, typed),
         Reads(shift, kbd \o wire, p, Mods(held, caps), Len(typed), typed)
  PROVE  \E p2 : /\ Has(kbd_intr(s, kbd), kbd_intr(s, kbd).shift, got, p2, n, typed)
                 /\ Reads(kbd_intr(s, kbd).shift, wire, p2, Mods(held, caps), Len(typed), typed)
  <1>1. kbd \in Seq(0 .. 255) /\ wire \in Seq(0 .. 255) /\ typed \in Seq(1 .. 126) /\ got \in Seq(0 .. 255)
    BY DEF KeysInv, Devices, Register
  <1>2. PICK sh2 \in SUBSET Modifiers, p2 \in Nat :
             /\ Reads(shift, kbd, p, sh2, p2, typed)
             /\ Reads(sh2, wire, p2, Mods(held, caps), Len(typed), typed)
    BY <1>1, ReadsSplit
  <1>3. PICK p3 : p3 = p2
    OBVIOUS
  <1>4. Has(kbd_intr(s, kbd), sh2, got, p3, n, typed)
    BY <1>1, <1>2, <1>3, KbdStored
  <1>5. kbd_intr(s, kbd).shift = sh2
    BY <1>4 DEF Has
  <1>6. QED BY <1>2, <1>3, <1>4, <1>5

LEMMA KbdIntrKeys ==
  ASSUME KeysInv, KbdIntr
  PROVE  KeysInv'
  <1>1. /\ Result(kbd_intr(Input, kbd)) /\ kbd' = <<>>
        /\ UNCHANGED <<held, caps, wire, uart, typed, heard, got>>
    BY DEF KbdIntr
  <1>2. Devices /\ wire \in Seq(0 .. 255)
    BY DEF KeysInv, Devices, Register
  <1>3. PICK p : Pending(p)
    BY DEF KeysInv
  <1> DEFINE s == kbd_intr(Input, kbd)
  <1>4. PICK p2 : /\ Has(s, s.shift, got, p2, heard - Len(uart), typed)
                  /\ Reads(s.shift, wire, p2, Mods(held, caps), Len(typed), typed)
    BY <1>3, KbdDrains DEF Pending
  <1> HIDE DEF s
  <1>5. Input' = s /\ shift' = s.shift
    BY <1>1, <1>4, ResultIs DEF Has, Result, s
  <1>6. kbd' \o wire' = wire /\ kbd' \in Seq(0 .. 255)
    BY <1>1, <1>2, ShortSeqs
  <1>7. Devices'
    BY <1>1, <1>2, <1>6 DEF Devices, Register
  <1>8. Pending(p2)'
    BY <1>1, <1>4, <1>5, <1>6 DEF Pending
  <1>9. QED BY <1>7, <1>8 DEF KeysInv

LEMMA SerialDrains ==
  ASSUME KeysInv, NEW p, Pending(p)
  PROVE  Has(serial_intr(Input, uart), shift, got, p, heard, typed)
  <1>1. /\ typed \in Seq(1 .. 126) /\ got \in Seq(0 .. 255) /\ heard \in Nat
        /\ (uart = <<>> \/ uart = <<127>>)
    BY DEF KeysInv, Devices, Register
  <1>2. Has(serial_intr(Input, uart), shift, got, p, (heard - Len(uart)) + Len(uart), typed)
    BY <1>1, SerialStored DEF Pending, Register
  <1>3. (heard - Len(uart)) + Len(uart) = heard
    <2>1. Len(uart) \in Nat
      BY <1>1
    <2>2. QED BY <1>1, <2>1
  <1>4. QED BY <1>2, <1>3

LEMMA SerialIntrKeys ==
  ASSUME KeysInv, SerialIntr
  PROVE  KeysInv'
  <1>1. /\ Result(serial_intr(Input, uart)) /\ uart' = <<>>
        /\ UNCHANGED <<held, caps, wire, kbd, typed, heard, got>>
    BY DEF SerialIntr
  <1>2. PICK p : Pending(p)
    BY DEF KeysInv
  <1> DEFINE s == serial_intr(Input, uart)
  <1>3. Has(s, shift, got, p, heard, typed)
    BY <1>2, SerialDrains
  <1> HIDE DEF s
  <1>4. Input' = s /\ shift' = shift
    BY <1>1, <1>3, ResultIs DEF Has, Result, s
  <1>5. heard \in Nat /\ Len(uart') = 0
    BY <1>1 DEF KeysInv, Devices, Register
  <1>6. heard' - Len(uart') = heard /\ heard' >= Len(uart')
    BY <1>1, <1>5
  <1>7. Devices'
    BY <1>1, <1>6 DEF KeysInv, Devices, Register
  <1>8. Pending(p)'
    BY <1>1, <1>2, <1>3, <1>4, <1>6 DEF Pending
  <1>9. QED BY <1>7, <1>8 DEF KeysInv

\* What cons_getc takes is what waits first.
LEMMA GetcHas ==
  ASSUME NEW s, NEW sh, NEW gt \in Seq(0 .. 255), NEW p, NEW n, NEW ty, Has(s, sh, gt, p, n, ty)
  PROVE  /\ cons_getc(s).c \in 0 .. 255 /\ cons_getc(s).in \in InputType /\ cons_getc(s).in.shift = sh
         /\ cons_getc(s).c = 0 => Has(cons_getc(s).in, sh, gt, p, n, ty)
         /\ cons_getc(s).c # 0 => Has(cons_getc(s).in, sh, Append(gt, cons_getc(s).c), p, n, ty)
  <1> DEFINE g == cons_getc(s)
             v == Waiting(g.in.cons)
             c == g.c
  <1>1. s \in InputType /\ s.shift = sh /\ Stored(gt \o Waiting(s.cons), s.overrun, p, n, ty)
    BY DEF Has
  <1>2. /\ g.in \in InputType /\ g.in.shift = s.shift /\ g.in.overrun = s.overrun /\ c \in 0 .. 255
        /\ (g.in = s /\ c = 0) \/ Waiting(s.cons) = <<c>> \o v
    BY <1>1, GetcIs
  <1>3. v \in Seq(0 .. 255)
    BY <1>2, InputTypes, WaitingIs
  <1> HIDE DEF g, v, c
  <1>4. CASE g.in = s /\ c = 0
    BY <1>1, <1>2, <1>4 DEF g, c, Has
  <1>5. CASE Waiting(s.cons) = <<c>> \o v
    <2>1. gt \o (<<c>> \o v) = Append(gt, c) \o v
      <3>1. gt \in Seq(Octet) /\ v \in Seq(Octet) /\ c \in Octet
        BY <1>2, <1>3 DEF Octet
      <3>2. QED BY <3>1, FirstMoves, Zenon
    <2>2. Stored(Append(gt, c) \o v, s.overrun, p, n, ty)
      BY <1>1, <1>5, <2>1
    <2>3. c # 0
      <3>1. Append(gt, c) \o v \in Seq(1 .. 127)
        BY <2>2 DEF Stored
      <3>2. Append(gt, c) \in Seq(0 .. 255) /\ Len(Append(gt, c)) = Len(gt) + 1 /\ Append(gt, c)[Len(gt) + 1] = c
        BY <1>2, AppendProperties
      <3> DEFINE a == Append(gt, c)
      <3>3. (a \o v)[Len(gt) + 1] = c /\ Len(gt) + 1 \in 1 .. Len(a \o v)
        <4> HIDE DEF a
        <4>1. Len(gt) \in Nat /\ Len(v) \in Nat
          BY <1>3
        <4>2. Len(a \o v) = Len(a) + Len(v)
          BY <1>3, <3>2, ConcatProperties DEF a
        <4>3. Len(gt) + 1 \in 1 .. Len(a) + Len(v) /\ Len(gt) + 1 <= Len(a)
          BY <3>2, <4>1 DEF a
        <4>4. (a \o v)[Len(gt) + 1] = a[Len(gt) + 1]
          BY <1>3, <3>2, <4>3, ConcatProperties DEF a
        <4>5. QED BY <3>2, <4>2, <4>3, <4>4 DEF a
      <3> HIDE DEF a
      <3>4. c \in 1 .. 127
        BY <3>1, <3>3, ElementOfSeq DEF a
      <3>5. QED BY <3>4
    <2>4. Has(g.in, sh, Append(gt, c), p, n, ty)
      BY <1>1, <1>2, <2>2 DEF Has, v
    <2>5. QED BY <1>1, <1>2, <2>3, <2>4 DEF g, c
  <1>6. QED BY <1>2, <1>4, <1>5

LEMMA GetcharKeys ==
  ASSUME KeysInv, NEW r \in Readers, Getchar(r)
  PROVE  KeysInv'
  <1> DEFINE s == kbd_intr(serial_intr(Input, uart), kbd)
             g == cons_getc(s)
  <1>1. /\ kbd' = <<>> /\ uart' = <<>> /\ Result(g.in)
        /\ got' = IF g.c = 0 THEN got ELSE Append(got, g.c)
        /\ UNCHANGED <<held, caps, wire, typed, heard>>
    BY DEF Getchar, Poll, ReadlineGot
  <1>2. Devices /\ wire \in Seq(0 .. 255) /\ got \in Seq(0 .. 255) /\ heard \in Nat
    BY DEF KeysInv, Devices, Register
  <1>3. PICK p : Pending(p)
    BY DEF KeysInv
  <1>4. Has(serial_intr(Input, uart), shift, got, p, heard, typed)
    BY <1>3, SerialDrains
  <1>5. PICK p2 : /\ Has(s, s.shift, got, p2, heard, typed)
                  /\ Reads(s.shift, wire, p2, Mods(held, caps), Len(typed), typed)
    BY <1>3, <1>4, KbdDrains DEF Pending
  <1> HIDE DEF s
  <1>6. /\ g.c \in 0 .. 255 /\ g.in \in InputType /\ g.in.shift = s.shift
        /\ g.c = 0 => Has(g.in, s.shift, got, p2, heard, typed)
        /\ g.c # 0 => Has(g.in, s.shift, Append(got, g.c), p2, heard, typed)
    BY <1>2, <1>5, GetcHas
  <1> HIDE DEF g
  <1>7. Has(g.in, s.shift, got', p2, heard, typed) /\ got' \in Seq(0 .. 255)
    BY <1>1, <1>2, <1>6, AppendProperties
  <1>8. Input' = g.in /\ shift' = s.shift
    BY <1>1, <1>6, ResultIs DEF Result
  <1>9. kbd' \o wire' = wire /\ kbd' \in Seq(0 .. 255)
    BY <1>1, <1>2, ShortSeqs
  <1>10. heard' - Len(uart') = heard /\ heard' >= Len(uart')
    <2>1. Len(uart') = 0 /\ heard' = heard
      BY <1>1
    <2>2. QED BY <1>2, <2>1
  <1>11. Devices'
    BY <1>1, <1>2, <1>7, <1>9, <1>10 DEF Devices, Register
  <1>12. Pending(p2)'
    BY <1>1, <1>5, <1>7, <1>8, <1>9, <1>10 DEF Pending
  <1>13. QED BY <1>11, <1>12 DEF KeysInv

\* Every step of the keyboard, the serial line, the kernel and the readers.
LEMMA NextKeys == KeysInv /\ [Next]_vars => KeysInv'
  <1> SUFFICES ASSUME KeysInv, [Next]_vars PROVE KeysInv'
    OBVIOUS
  <1>1. ASSUME NEW k \in Keys, Press(k) PROVE KeysInv'
    BY <1>1, PressKeys
  <1>2. ASSUME NEW k \in Keys, Release(k) PROVE KeysInv'
    BY <1>2, ReleaseKeys
  <1>3. CASE Arrive
    BY <1>3, ArriveKeys
  <1>4. ASSUME NEW c \in SerialBytes, Receive(c) PROVE KeysInv'
    BY <1>4, ReceiveKeys
  <1>5. CASE KbdIntr
    BY <1>5, KbdIntrKeys
  <1>6. CASE SerialIntr
    BY <1>6, SerialIntrKeys
  <1>7. ASSUME NEW r \in Readers, Readline(r) PROVE KeysInv'
    BY <1>7, KeysSame DEF Readline, devices
  <1>8. ASSUME NEW r \in Readers, Getchar(r) PROVE KeysInv'
    BY <1>8, GetcharKeys
  <1>9. CASE UNCHANGED vars
    BY <1>9, KeysSame DEF vars, devices
  <1>10. QED BY <1>1, <1>2, <1>3, <1>4, <1>5, <1>6, <1>7, <1>8, <1>9 DEF Next

-----------------------------------------------------------------------------
(* The properties of the keyboard and the buffer. *)

LEMMA WholeLaps ==
  ASSUME NEW laps \in Nat
  PROVE  (C * laps) % C = 0 /\ C * laps >= 0
  <1>1. C \in Nat /\ C > 1
    BY PositionsAre
  <1> DEFINE a == C * laps
             d == a \div C
             m == a % C
  <1>2. a \in Nat
    BY <1>1
  <1>3. d \in Int /\ m \in 0 .. C - 1 /\ a = C * d + m
    BY <1>1, <1>2
  <1> HIDE DEF d, m
  <1>4. C * (laps - d) = m
    BY <1>1, <1>3
  <1>5. laps - d <= 0
    <2>1. SUFFICES ASSUME laps - d >= 1 PROVE FALSE
      BY <1>3
    <2>2. C * (laps - d) >= C * 1
      BY <1>1, <1>3, <2>1
    <2>3. QED BY <1>1, <1>3, <1>4, <2>2
  <1>6. laps - d >= 0
    <2>1. SUFFICES ASSUME laps - d <= -1 PROVE FALSE
      BY <1>3
    <2>2. C * (laps - d) <= C * (-1)
      BY <1>1, <1>3, <2>1
    <2>3. QED BY <1>1, <1>3, <1>4, <2>2
  <1>7. laps - d = 0
    BY <1>3, <1>5, <1>6
  <1>8. m = 0
    BY <1>1, <1>4, <1>7
  <1>9. QED BY <1>2, <1>8 DEF m

\* With every byte processed, the driver and the keyboard agree.
LEMMA KeysAgree ==
  ASSUME KeysInv, Drained
  PROVE  /\ shift = Mods(held, caps)
         /\ Stored(got \o Waiting(cons), overrun, Len(typed), heard, typed)
  <1>1. PICK p : Pending(p)
    BY DEF KeysInv
  <1>2. kbd \o wire = <<>> /\ heard - Len(uart) = heard
    <2>1. kbd = <<>> /\ wire = <<>> /\ uart = <<>> /\ heard \in Nat
      BY DEF KeysInv, Devices, Register, Drained
    <2>2. Len(uart) = 0
      BY <2>1
    <2>3. kbd \o wire = <<>>
      BY <2>1
    <2>4. QED BY <2>1, <2>2, <2>3
  <1>3. Reads(shift, <<>>, p, Mods(held, caps), Len(typed), typed)
    BY <1>1, <1>2 DEF Pending
  <1>4. Mods(held, caps) = shift /\ Len(typed) = p
    BY <1>3, ReadsNothing
  <1>5. QED BY <1>1, <1>2, <1>4, InputIs DEF Pending, Has

LEMMA KeysModifiers == KeysInv => ModifiersFollowKeys
  BY KeysAgree DEF ModifiersFollowKeys, Mods

LEMMA KeysArrive == KeysInv => TypedArrives
  <1> SUFFICES ASSUME KeysInv, Drained PROVE TypedArrives
    BY DEF TypedArrives
  <1> DEFINE out == got \o Waiting(cons)
             lost == Len(typed) + heard - Len(out)
             keys == {i \in DOMAIN out : out[i] # 127}
             p == Len(typed)
  <1>1. Stored(out, overrun, p, heard, typed) /\ typed \in Seq(1 .. 126) /\ heard \in Nat
    BY KeysAgree DEF KeysInv, Devices, Register
  <1> HIDE DEF out
  <1>2. PICK laps \in Nat, u \in [1 .. Len(out) -> 0 .. p] : Kept(laps, u, out, overrun, p, heard, typed)
    BY <1>1 DEF Stored
  <1>3. out \in Seq(1 .. 127) /\ DOMAIN out = 1 .. Len(out) /\ DOMAIN typed = 1 .. p /\ p \in Nat /\ Len(out) \in Nat
    BY <1>1 DEF Stored
  <1>4. lost = C * laps
    <2>1. Len(out) + C * laps = p + heard
      BY <1>2 DEF Kept
    <2>2. C * laps \in Int
      BY PositionsAre
    <2> DEFINE x == C * laps
    <2> HIDE DEF x, p
    <2>3. Len(out) + x = p + heard /\ x \in Int
      BY <2>1, <2>2 DEF x
    <2>4. p + heard - Len(out) = x
      BY <1>1, <1>3, <2>3
    <2>5. QED BY <2>4 DEF x, p
  <1>5. lost % CONSBUFSIZE = 0 /\ lost >= 0
    BY <1>4, WholeLaps, PositionsAre
  <1>6. \A i \in 1 .. Len(out) : out[i] = IF u[i] = 0 THEN 127 ELSE typed[u[i]]
    BY <1>2 DEF Kept
  <1> DEFINE at == [i \in keys |-> u[i]]
  <1>7. ASSUME NEW i \in keys PROVE i \in 1 .. Len(out) /\ u[i] \in 1 .. p /\ out[i] = typed[u[i]] /\ at[i] = u[i]
    <2>1. i \in 1 .. Len(out) /\ out[i] # 127
      BY <1>3
    <2>2. u[i] # 0
      BY <1>6, <2>1
    <2>3. u[i] \in 0 .. p
      BY <1>2, <2>1
    <2>4. u[i] \in 1 .. p
      BY <1>3, <2>2, <2>3
    <2>5. out[i] = typed[u[i]]
      BY <1>6, <2>1, <2>2
    <2>6. QED BY <2>1, <2>4, <2>5
  <1>8. at \in [keys -> DOMAIN typed]
    BY <1>3, <1>7
  <1>9. ASSUME NEW i \in keys, NEW j \in keys, i < j PROVE at[i] < at[j]
    <2>1. /\ i \in 1 .. Len(out) /\ j \in 1 .. Len(out)
          /\ u[i] \in 1 .. p /\ u[j] \in 1 .. p /\ at[i] = u[i] /\ at[j] = u[j]
      BY <1>7
    <2>2. u[i] # 0 /\ u[j] # 0
      BY <2>1
    <2>3. u[i] < u[j]
      BY <1>2, <1>9, <2>1, <2>2 DEF Kept
    <2>4. QED BY <2>1, <2>3
  <1>10. ASSUME ~overrun PROVE lost = 0 /\ \A t \in DOMAIN typed : \E i \in keys : at[i] = t
    <2>1. laps = 0 /\ \A t \in 1 .. p : \E i \in 1 .. Len(out) : u[i] = t
      BY <1>2, <1>10 DEF Kept
    <2>2. lost = 0
      BY <1>4, <2>1, PositionsAre
    <2>3. ASSUME NEW t \in DOMAIN typed PROVE \E i \in keys : at[i] = t
      <3>1. t \in 1 .. p
        BY <1>3
      <3>2. PICK i \in 1 .. Len(out) : u[i] = t
        BY <2>1, <3>1
      <3>3. out[i] = typed[t]
        <4>1. t # 0
          BY <3>1
        <4>2. QED BY <1>6, <3>2, <4>1
      <3>4. typed[t] \in 1 .. 126
        BY <1>1, <3>1, ElementOfSeq
      <3>5. i \in keys
        <4>1. out[i] # 127
          <5>1. PICK v \in 1 .. 126 : v = typed[t]
            BY <3>4
          <5>2. out[i] = v
            BY <3>3, <5>1
          <5>3. QED BY <5>2
        <4>2. QED BY <1>3, <4>1
      <3>6. QED BY <1>7, <3>2, <3>5
    <2>4. QED BY <2>2, <2>3
  <1> HIDE DEF at, keys, lost
  <1>11. \E f \in [keys -> DOMAIN typed] :
            /\ \A i \in keys : out[i] = typed[f[i]]
            /\ \A i, j \in keys : i < j => f[i] < f[j]
            /\ ~overrun => lost = 0 /\ \A t \in DOMAIN typed : \E i \in keys : f[i] = t
    <2>1. \A i \in keys : out[i] = typed[at[i]]
      BY <1>7
    <2>2. QED BY <1>8, <1>9, <1>10, <2>1
  <1>12. QED BY <1>5, <1>11 DEF TypedArrives, out, keys, lost

-----------------------------------------------------------------------------
(* The types. *)

\* The characters on the display.
Bytes(d) == \A i \in Cells : d.buf[i] \in 0 .. 255

\* The readers that are in readline.
Reading == {r \in Readers : line[r] # Idle}

CountInv ==
  /\ Bytes(crt)
  /\ \A r \in Readers : line[r] # Idle => line[r] \in Seq(0 .. 255)
  /\ asked \in Int /\ returns \in Int /\ asked - returns = Cardinality(Reading)

LEMMA PutcBytes ==
  ASSUME NEW d, Screen(d), Bytes(d), NEW c \in 0 .. 255
  PROVE  Bytes(cga_putc(d, c))
  <1>1. d.pos \in Cells /\ d.buf = [i \in Cells |-> d.buf[i]] /\ \A i \in Cells : d.buf[i] \in 0 .. 255
    BY DEF Screen, Bytes
  <1>2. ASSUME NEW x, Bytes(x) PROVE Bytes(Scroll(x))
    <2>1. CASE x.pos < CRT_SIZE
      BY <1>2, <2>1 DEF Scroll
    <2>2. CASE ~(x.pos < CRT_SIZE)
      <3>1. Scroll(x).buf = [i \in Cells |-> IF i < CRT_SIZE - CRT_COLS THEN x.buf[i + CRT_COLS] ELSE 32]
        BY <2>2 DEF Scroll
      <3>2. ASSUME NEW i \in Cells, i < CRT_SIZE - CRT_COLS PROVE i + CRT_COLS \in Cells
        BY <3>2, SizeIs DEF Cells
      <3>3. QED BY <1>2, <3>1, <3>2 DEF Bytes
    <2>3. QED BY <2>1, <2>2
  <1> DEFINE back == [pos |-> d.pos - 1, buf |-> [d.buf EXCEPT ![d.pos - 1] = 32]]
             next == [d EXCEPT !.pos = d.pos + CRT_COLS - (d.pos % CRT_COLS)]
             put == [pos |-> d.pos + 1, buf |-> [d.buf EXCEPT ![d.pos] = c]]
  <1>3. Bytes(d) /\ Bytes(back) /\ Bytes(next) /\ Bytes(put)
    <2>1. back.buf = [d.buf EXCEPT ![d.pos - 1] = 32] /\ put.buf = [d.buf EXCEPT ![d.pos] = c]
      OBVIOUS
    <2>2. next.buf = d.buf
      BY DEF Screen
    <2>3. ASSUME NEW j, NEW v \in 0 .. 255, NEW i \in Cells PROVE [d.buf EXCEPT ![j] = v][i] \in 0 .. 255
      <3>1. [d.buf EXCEPT ![j] = v][i] = IF i = j THEN v ELSE d.buf[i]
        BY <1>1
      <3>2. QED BY <1>1, <3>1
    <2> HIDE DEF back, next, put
    <2>4. Bytes(back)
      <3>1. PICK j : j = d.pos - 1
        OBVIOUS
      <3>2. back.buf = [d.buf EXCEPT ![j] = 32]
        BY <2>1, <3>1
      <3>3. ASSUME NEW i \in Cells PROVE [d.buf EXCEPT ![j] = 32][i] \in 0 .. 255
        <4>1. [d.buf EXCEPT ![j] = 32][i] = IF i = j THEN 32 ELSE d.buf[i]
          BY <1>1
        <4>2. QED BY <1>1, <4>1
      <3>4. QED BY <3>2, <3>3 DEF Bytes
    <2>5. Bytes(put)
      BY <2>1, <2>3 DEF Bytes
    <2>6. QED BY <2>2, <2>4, <2>5 DEF Bytes
  <1>4. cga_putc(d, c) \in {Scroll(d), Scroll(back), Scroll(next), Scroll(put)}
    BY DEF cga_putc
  <1> HIDE DEF back, next, put
  <1>5. QED BY <1>2, <1>3, <1>4

LEMMA EchoBytes ==
  ASSUME NEW d, Screen(d), Bytes(d), NEW l, NEW c \in 0 .. 255
  PROVE  Bytes(Echo(d, l, c))
  <1>1. Echo(d, l, c) \in {d, cga_putc(d, 8), cga_putc(d, c), cga_putc(d, 10)}
    BY DEF Echo
  <1>2. Bytes(cga_putc(d, 8)) /\ Bytes(cga_putc(d, c)) /\ Bytes(cga_putc(d, 10))
    BY PutcBytes
  <1>3. QED BY <1>1, <1>2

\* The line after a character is a line.
LEMMA EditBytes ==
  ASSUME NEW l \in Seq(0 .. 255), NEW c \in 0 .. 255
  PROVE  Edit(l, c) \in Seq(0 .. 255) /\ Edit(l, c) # Idle
  <1>1. Edit(l, c) \in Seq(0 .. 255)
    <2>1. CASE c \in {8, 127} /\ Len(l) > 0
      <3>1. Edit(l, c) = SubSeq(l, 1, Len(l) - 1) /\ Len(l) \in Nat
        BY <2>1 DEF Edit, Front
      <3>2. \A i \in 1 .. Len(l) - 1 : l[i] \in 0 .. 255
        <4>1. \A i \in 1 .. Len(l) - 1 : i \in 1 .. Len(l)
          BY <3>1
        <4>2. QED BY <4>1, ElementOfSeq
      <3>3. QED BY <3>1, <3>2, SubSeqProperties
    <2>2. CASE ~(c \in {8, 127} /\ Len(l) > 0)
      BY <2>2, AppendProperties DEF Edit
    <2>3. QED BY <2>1, <2>2
  <1>2. Idle \notin Seq(0 .. 255)
    <2>1. SUFFICES ASSUME Idle \in Seq(0 .. 255) PROVE FALSE
      OBVIOUS
    <2>2. Idle[1] = -1 /\ Len(Idle) = 1
      BY DEF Idle
    <2>3. \A i \in 1 .. Len(Idle) : Idle[i] \in 0 .. 255
      BY <2>1, ElementOfSeq
    <2>4. -1 \in 0 .. 255
      <3>1. 1 \in 1 .. Len(Idle)
        BY <2>2
      <3>2. Idle[1] \in 0 .. 255
        BY <2>3, <3>1
      <3>3. QED BY <2>2, <3>2
    <2>5. QED BY <2>4
  <1>3. QED BY <1>1, <1>2

LEMMA InitCount == Init => CountInv
  <1> SUFFICES ASSUME Init PROVE CountInv
    OBVIOUS
  <1>1. Reading = {} /\ asked = 0 /\ returns = 0
    BY DEF Init, Reading
  <1>2. Bytes(crt)
    BY DEF Init, Bytes
  <1>3. \A r \in Readers : line[r] = Idle
    BY DEF Init
  <1>4. QED BY <1>1, <1>2, <1>3, FS_EmptySet DEF CountInv

\* A reader calls readline or leaves it.
LEMMA NextCount == KeysInv /\ EchoInv /\ CountInv /\ [Next]_vars => CountInv'
  <1> SUFFICES ASSUME KeysInv, EchoInv, CountInv, [Next]_vars PROVE CountInv'
    OBVIOUS
  <1>1. ASSUME UNCHANGED <<line, crt, asked, returns>> PROVE CountInv'
    BY <1>1 DEF CountInv, Reading
  <1>2. IsFiniteSet(Reading)
    BY ReadersAssumption, FS_Subset DEF Reading
  <1>3. line = [r \in Readers |-> line[r]]
    BY DEF EchoInv
  <1>4. ASSUME NEW r \in Readers, Readline(r) PROVE CountInv'
    <2>1. /\ line[r] = Idle /\ line' = [line EXCEPT ![r] = <<>>] /\ asked' = asked + 1
          /\ crt' = crt /\ returns' = returns
      BY <1>4 DEF Readline
    <2>2. <<>> # Idle
      BY DEF Idle
    <2>3. Reading' = Reading \cup {r} /\ r \notin Reading
      BY <1>3, <2>1, <2>2 DEF Reading
    <2>4. Cardinality(Reading') = Cardinality(Reading) + 1
      BY <1>2, <2>3, FS_AddElement
    <2>5. \A s \in Readers : line'[s] # Idle => line'[s] \in Seq(0 .. 255)
      BY <1>3, <2>1, ShortSeqs DEF CountInv
    <2>6. asked' - returns' = Cardinality(Reading')
      BY <2>1, <2>4 DEF CountInv
    <2>7. QED BY <2>1, <2>5, <2>6 DEF CountInv
  <1>5. ASSUME NEW r \in Readers, Getchar(r) PROVE CountInv'
    <2>1. line[r] # Idle /\ asked' = asked
      BY <1>5 DEF Getchar
    <2>2. \/ UNCHANGED <<line, crt, returns>>
          \/ \E c \in 0 .. 255 : ReadlineGot(r, c)
      <3> DEFINE s == kbd_intr(serial_intr(Input, uart), kbd)
                 g == cons_getc(s)
      <3>1. UNCHANGED <<line, crt, returns>> \/ ReadlineGot(r, g.c)
        BY <1>5 DEF Getchar, Poll
      <3>2. PICK p : Pending(p)
        BY DEF KeysInv
      <3>3. Has(serial_intr(Input, uart), shift, got, p, heard, typed)
        BY <3>2, SerialDrains
      <3>4. PICK p2 : Has(s, s.shift, got, p2, heard, typed)
        BY <3>2, <3>3, KbdDrains DEF Pending
      <3>5. got \in Seq(0 .. 255)
        BY DEF KeysInv, Devices, Register
      <3> HIDE DEF s
      <3>6. g.c \in 0 .. 255
        BY <3>4, <3>5, GetcHas
      <3> HIDE DEF g
      <3>7. QED BY <3>1, <3>6
    <2>3. CASE UNCHANGED <<line, crt, returns>>
      BY <1>1, <2>1, <2>3
    <2>4. CASE \E c \in 0 .. 255 : ReadlineGot(r, c)
      <3>1. PICK c \in 0 .. 255 : ReadlineGot(r, c)
        BY <2>4
      <3>2. Bytes(crt')
        BY <3>1, EchoBytes DEF ReadlineGot, EchoInv, CountInv
      <3>3. CASE c \in EndsLine
        <4>1. line' = [line EXCEPT ![r] = Idle] /\ returns' = returns + 1
          BY <3>1, <3>3 DEF ReadlineGot
        <4>2. Reading' = Reading \ {r} /\ r \in Reading
          BY <1>3, <2>1, <4>1 DEF Reading
        <4>3. Cardinality(Reading') = Cardinality(Reading) - 1
          BY <1>2, <4>2, FS_RemoveElement
        <4>4. Cardinality(Reading) \in Nat
          BY <1>2, FS_CardinalityType
        <4>5. \A s \in Readers : line'[s] # Idle => line'[s] \in Seq(0 .. 255)
          BY <1>3, <4>1 DEF CountInv
        <4>6. asked' - returns' = Cardinality(Reading')
          BY <2>1, <4>1, <4>3, <4>4 DEF CountInv
        <4>7. QED BY <2>1, <3>2, <4>1, <4>5, <4>6 DEF CountInv
      <3>4. CASE c \notin EndsLine
        <4>1. line' = [line EXCEPT ![r] = Edit(line[r], c)] /\ returns' = returns
          BY <3>1, <3>4 DEF ReadlineGot
        <4>2. Edit(line[r], c) # Idle /\ Edit(line[r], c) \in Seq(0 .. 255)
          BY <2>1, EditBytes DEF CountInv
        <4>3. Reading' = Reading
          BY <1>3, <2>1, <4>1, <4>2 DEF Reading
        <4>4. \A s \in Readers : line'[s] # Idle => line'[s] \in Seq(0 .. 255)
          BY <1>3, <4>1, <4>2 DEF CountInv
        <4>5. QED BY <2>1, <3>2, <4>1, <4>3, <4>4 DEF CountInv
      <3>5. QED BY <3>3, <3>4
    <2>5. QED BY <2>2, <2>3, <2>4
  <1>6. CASE UNCHANGED vars
    BY <1>1, <1>6 DEF vars
  <1>7. ASSUME NEW k \in Keys, Press(k) \/ Release(k) PROVE CountInv'
    BY <1>1, <1>7 DEF Press, Release, kernel
  <1>8. CASE Arrive
    BY <1>1, <1>8 DEF Arrive, kernel
  <1>9. ASSUME NEW c \in SerialBytes, Receive(c) PROVE CountInv'
    BY <1>1, <1>9 DEF Receive, kernel
  <1>10. CASE KbdIntr \/ SerialIntr
    BY <1>1, <1>10 DEF KbdIntr, SerialIntr
  <1>11. QED BY <1>4, <1>5, <1>6, <1>7, <1>8, <1>9, <1>10 DEF Next

LEMMA InvTypes == KeysInv /\ EchoInv /\ CountInv => TypeOK
  <1> SUFFICES ASSUME KeysInv, EchoInv, CountInv PROVE TypeOK
    OBVIOUS
  <1>1. held \subseteq Keys /\ caps \in BOOLEAN /\ Input \in InputType
    BY DEF KeysInv, Devices, Register, Pending, Has
  <1>2. crt \in [pos : Cells, buf : [Cells -> 0 .. 255]]
    BY DEF EchoInv, Screen, CountInv, Bytes
  <1>3. \A r \in Readers : line[r] = Idle \/ Len(line[r]) < BUFLEN
    BY DEF EchoInv, Held
  <1>4. QED BY <1>1, <1>2, <1>3 DEF TypeOK, CountInv, Reading

(* The types, in every reachable state, for buffers and a display of any   *)
(* size: the circular buffer's positions stay in it, a line leaves room    *)
(* for its zero, and readline's calls that have not returned are the       *)
(* readers that are in one.                                                *)
THEOREM TypesHold == Spec => []TypeOK
  <1>1. Init => KeysInv /\ EchoInv /\ CountInv
    BY InitKeys, InitEcho, InitCount
  <1>2. (KeysInv /\ EchoInv /\ CountInv) /\ [Next]_vars => (KeysInv /\ EchoInv /\ CountInv)'
    BY NextKeys, NextEcho, NextCount
  <1>3. KeysInv /\ EchoInv /\ CountInv => TypeOK
    BY InvTypes
  <1>4. QED BY <1>1, <1>2, <1>3, PTL DEF Spec

(* Once every byte has been processed kbd_proc_data's modifier state is    *)
(* the keyboard's, however interrupts and polls shared the bytes.          *)
THEOREM ModifiersFollowKeysHolds == Spec => []ModifiersFollowKeys
  <1>1. QED BY InitKeys, NextKeys, KeysModifiers, PTL DEF Spec

(* What is typed is handed out or waits, once and in order; a buffer that  *)
(* runs over loses whole turns of it, of any length.                       *)
THEOREM TypedArrivesHolds == Spec => []TypedArrives
  <1>1. QED BY InitKeys, NextKeys, KeysArrive, PTL DEF Spec

=============================================================================

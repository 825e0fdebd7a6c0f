------------------------------ MODULE Console ------------------------------
(***************************************************************************)
(* The console: the keyboard decoder, the ring of characters and the       *)
(* screen of kern/console.c, and the readline() of lib/readline.c on top,  *)
(* which either the kernel monitor calls with interrupts off or a program  *)
(* through the console device of lib/console.c and two system calls.       *)
(*                                                                         *)
(* Characters, scan codes and keys are the numbers of the code; of the     *)
(* tables of keys there are the entries of the keys in Key.                *)
(***************************************************************************)
EXTENDS Naturals, Sequences, SequencesExt

CONSTANTS
  Key,         \* the keys, names of KeyCode
  SerialByte,  \* what may come over the serial line
  CONSBUFSIZE, \* the size of the ring
  BUFLEN,      \* the size of the buffer of readline()
  CRT_COLS, CRT_ROWS,
  Printed,     \* what a program may print between lines
  MaxInput,    \* bounds on the keys pressed and bytes sent,
  MaxWaiting,  \* on the codes that wait in the keyboard,
  MaxPrints    \* and on the characters printed

CRT_SIZE == CRT_ROWS * CRT_COLS

VARIABLES
  down,   \* the keys that are held down
  kbd,    \* the codes in the keyboard controller
  com,    \* the byte that has come over the serial line, if any: no FIFO
  shift,  \* static shift of kbd_proc_data()
  cons,   \* the ring: buf, rpos, wpos
  owed,   \* (history) the characters put in the ring and not yet read
  screen, \* crt_buf, crt_pos, and (history) the start of the line read
  reader, \* who calls readline(), and whether it is reading
  line,   \* buf of readline()
  inputs, prints \* bounded counts
vars == <<down, kbd, com, shift, cons, owed, screen, reader, line, inputs, prints>>

BS == 8
TAB == 9
NL == 10
CR == 13
EOT == 4
SPACE == 32
DEL == 127
PROMPT == 62

------------------------------------------------------------------------------
(* The keyboard *)

E0 == 224
KEY_DEL == 233
NO == 0

\* What a key sends when it is pressed: the escape, if it has one, and a code;
\* with 0x80 set in the code when it is released.
KeyCode == [a |-> <<30>>, d |-> <<32>>, backspace |-> <<14>>, enter |-> <<28>>,
            shift |-> <<42>>, ctl |-> <<29>>, rightctl |-> <<E0, 29>>, alt |-> <<56>>,
            caps |-> <<58>>, delete |-> <<E0, 83>>]
Released(codes) == [codes EXCEPT ![Len(codes)] = @ + 128]

\* The prompt and a line fit on the screen, as with 80 x 25 and 1024; a UART sends bytes.
ConsoleAssumption ==
  /\ {CONSBUFSIZE, BUFLEN, CRT_COLS, CRT_ROWS, MaxInput, MaxWaiting, MaxPrints} \subseteq Nat
  /\ Key \subseteq DOMAIN KeyCode /\ SerialByte \subseteq 0..255 /\ Printed \subseteq 0..255
  /\ CONSBUFSIZE > 1 /\ BUFLEN > 0 /\ CRT_COLS > 0 /\ CRT_ROWS > 0
  /\ 1 + BUFLEN <= CRT_SIZE - CRT_COLS

shiftcode(code) == CASE code \in {29, 157} -> {"CTL"}
                     [] code \in {42, 54}  -> {"SHIFT"}
                     [] code \in {56, 184} -> {"ALT"}
                     [] OTHER              -> {}
togglecode(code) == CASE code = 58 -> {"CAPSLOCK"}
                      [] code = 69 -> {"NUMLOCK"}
                      [] code = 70 -> {"SCROLLLOCK"}
                      [] OTHER     -> {}
normalmap(code) == CASE code = 30  -> 97
                     [] code = 32  -> 100
                     [] code = 14  -> BS
                     [] code = 28  -> NL
                     [] code = 211 -> KEY_DEL
                     [] OTHER      -> NO
shiftmap(code) == CASE code = 30 -> 65
                    [] code = 32 -> 68
                    [] OTHER     -> normalmap(code)
ctlmap(code) == CASE code = 30  -> 1
                  [] code = 32  -> EOT
                  [] code = 28  -> CR
                  [] code = 211 -> KEY_DEL
                  [] OTHER      -> NO
charcode(mods, code) == CASE "CTL" \in mods   -> ctlmap(code)
                          [] "SHIFT" \in mods -> shiftmap(code)
                          [] OTHER            -> normalmap(code)

SwapCase(c) == CASE c \in 97..122 -> c - 32
                 [] c \in 65..90  -> c + 32
                 [] OTHER         -> c

Toggled(s, t) == (s \ t) \cup (t \ s)

\* What kbd_proc_data() makes of a code: the new shift, the character or NO,
\* and whether the machine is rebooted.
Pressed(mods, code) ==
  LET c == charcode(mods, code)
  IN  [shift |-> mods,
       char |-> IF "CAPSLOCK" \in mods THEN SwapCase(c) ELSE c,
       reboot |-> {"CTL", "ALT"} \subseteq mods /\ c = KEY_DEL]
Silent(mods) == [shift |-> mods, char |-> NO, reboot |-> FALSE]
\* Mutated kbd_proc_data: the escape stays when a key is pressed.
kbd_proc_data_KeepsEscape(s, data) ==
  LET escaped == "E0ESC" \in s
      code == IF escaped /\ data < 128 THEN data + 128 ELSE data
      released == IF escaped THEN data ELSE data % 128
  IN  CASE data = E0    -> Silent(s \cup {"E0ESC"})
        [] data # E0 /\ data >= 128 -> Silent(s \ (shiftcode(released) \cup {"E0ESC"}))
        [] OTHER -> Pressed(Toggled(s \cup shiftcode(code), togglecode(code)), code)
kbd_proc_data(s, data) ==
  LET escaped == "E0ESC" \in s
      code == IF escaped /\ data < 128 THEN data + 128 ELSE data
      released == IF escaped THEN data ELSE data % 128
  IN  CASE data = E0    -> Silent(s \cup {"E0ESC"})
        [] data # E0 /\ data >= 128 -> Silent(s \ (shiftcode(released) \cup {"E0ESC"}))
        [] OTHER -> Pressed(Toggled((s \ {"E0ESC"}) \cup shiftcode(code), togglecode(code)), code)

------------------------------------------------------------------------------
(* The ring *)

Advance(pos) == (pos + 1) % CONSBUFSIZE
Buffered(r) == [i \in 1..((r.wpos + CONSBUFSIZE - r.rpos) % CONSBUFSIZE) |->
                  r.buf[(r.rpos + i - 1) % CONSBUFSIZE]]

\* Nothing keeps wpos from passing rpos: with CONSBUFSIZE characters in it the
\* ring is empty again.
Stash(r, c) == [r EXCEPT !.buf[r.wpos] = c, !.wpos = Advance(@)]
Owe(q, c) == IF Len(q) = CONSBUFSIZE - 1 THEN <<>> ELSE Append(q, c)

\* Mutated Put: a code that is no character is one.
Put_Silent(in, c) == [in EXCEPT !.cons = Stash(@, c), !.owed = IF c = 0 THEN @ ELSE Owe(@, c)]
\* One character of the loop of cons_intr().
Put(in, c) == IF c = 0 THEN in ELSE [in EXCEPT !.cons = Stash(@, c), !.owed = Owe(@, c)]
Decode(in, code) ==
  LET r == kbd_proc_data(in.shift, code)
  IN  Put([in EXCEPT !.shift = r.shift, !.reboot = @ \/ r.reboot], r.char)

\* serial_intr() and kbd_intr(): all there is from either device.
Input == [shift |-> shift, cons |-> cons, owed |-> owed, reboot |-> FALSE]
DecodeAll(in, codes) ==
  LET after[n \in 0..Len(codes)] == IF n = 0 THEN in ELSE Decode(after[n-1], codes[n])
  IN  after[Len(codes)]
Polled == DecodeAll(IF com = <<>> THEN Input ELSE Put(Input, com[1]), kbd)

\* cons_getc() after its two polls.
Empty(r) == r.rpos = r.wpos
FirstChar(r) == IF Empty(r) THEN 0 ELSE r.buf[r.rpos]
Taken(r) == IF Empty(r) THEN r ELSE [r EXCEPT !.rpos = Advance(@)]

\* The devices and the ring after a cons_getc(); "read" tells whether the
\* character goes to a reader.
Getc(read) ==
  /\ kbd' = <<>> /\ com' = <<>>
  /\ shift' = Polled.shift
  /\ cons' = Taken(Polled.cons)
  /\ owed' = IF read /\ Polled.owed # <<>> THEN Tail(Polled.owed) ELSE Polled.owed

------------------------------------------------------------------------------
(* The screen *)

Cell == 0..(CRT_SIZE - 1)

\* Mutated Scroll: a character late.
Scroll_Late(s) ==
  IF s.pos <= CRT_SIZE THEN s
  ELSE [buf |-> [i \in Cell |-> IF i + CRT_COLS \in Cell THEN s.buf[i + CRT_COLS] ELSE SPACE],
        pos |-> s.pos - CRT_COLS,
        start |-> IF s.start >= CRT_COLS THEN s.start - CRT_COLS ELSE 0]
\* Off the bottom the screen moves up a row.
Scroll(s) ==
  IF s.pos < CRT_SIZE THEN s
  ELSE [buf |-> [i \in Cell |-> IF i + CRT_COLS \in Cell THEN s.buf[i + CRT_COLS] ELSE SPACE],
        pos |-> s.pos - CRT_COLS,
        start |-> IF s.start >= CRT_COLS THEN s.start - CRT_COLS ELSE 0]

Show(s, c) == Scroll([s EXCEPT !.buf[s.pos] = c, !.pos = @ + 1])
\* Mutated Erase: not over the end of a row.
Erase_InRow(s) ==
  IF s.pos % CRT_COLS = 0 THEN s ELSE [s EXCEPT !.buf[s.pos - 1] = SPACE, !.pos = @ - 1]
Erase(s) == IF s.pos = 0 THEN s ELSE [s EXCEPT !.buf[s.pos - 1] = SPACE, !.pos = @ - 1]
LineStart(pos) == pos - (pos % CRT_COLS)
cga_putc(s, c) ==
  CASE c = BS  -> Erase(s)
    [] c = NL  -> Scroll([s EXCEPT !.pos = LineStart(@ + CRT_COLS)])
    [] c = CR  -> [s EXCEPT !.pos = LineStart(@)]
    [] c = TAB -> Show(Show(Show(Show(Show(s, SPACE), SPACE), SPACE), SPACE), SPACE)
    [] OTHER   -> Show(s, c)

Mode == reader[1]
Reading == reader[2] = "reading"
AtPrompt == reader[2] = "prompt"

\* Printing, after which the reader is at "next".  The system call of a program
\* for it goes on, without a break, to the one that reads a character: nobody
\* gets it.
Goes(reboots, next) == reader' = <<Mode, IF reboots THEN "reset" ELSE next, 0>>
PrintThen(shown, next) ==
  /\ screen' = shown
  /\ \/ /\ Mode = "monitor"
        /\ Goes(FALSE, next) /\ UNCHANGED <<kbd, com, shift, cons, owed>>
     \/ /\ Mode = "program"
        /\ Goes(Polled.reboot, next) /\ Getc(FALSE)

------------------------------------------------------------------------------
(* readline(), and what the program prints between two lines *)

Output(c) ==
  /\ AtPrompt /\ prints < MaxPrints
  /\ PrintThen(cga_putc(screen, c), "prompt")
  /\ prints' = prints + 1
  /\ UNCHANGED <<down, line, inputs>>

Prompt ==
  /\ AtPrompt
  /\ LET s == cga_putc(screen, PROMPT) IN PrintThen([s EXCEPT !.start = s.pos], "reading")
  /\ line' = <<>>
  /\ UNCHANGED <<down, inputs, prints>>

\* getchar(): a poll that finds nothing is one of many.  The console device
\* takes control-D for the end of the file, and readline() gives up the line.
GetChar ==
  /\ Reading
  /\ Getc(TRUE)
  /\ LET c == FirstChar(Polled.cons)
     IN  reader' = CASE Polled.reboot                   -> <<Mode, "reset", 0>>
                     [] c = 0 /\ ~Polled.reboot         -> reader
                     [] c = EOT /\ Mode = "program" /\ ~Polled.reboot -> <<Mode, "eof", 0>>
                     [] OTHER                           -> <<Mode, "char", c>>
  /\ UNCHANGED <<down, screen, line, inputs, prints>>

HasChar == reader[2] = "char"
Char == reader[3]
Erases(c) == c \in {BS, DEL} /\ line # <<>>
Adds(c) == ~Erases(c) /\ c >= SPACE /\ Len(line) < BUFLEN - 1
Ends(c) == c \in {NL, CR}

EchoErase ==
  /\ HasChar /\ Erases(Char)
  /\ PrintThen(cga_putc(screen, BS), "reading")
  /\ line' = Front(line)
  /\ UNCHANGED <<down, inputs, prints>>
EchoAdd ==
  /\ HasChar /\ Adds(Char)
  /\ PrintThen(cga_putc(screen, Char), "reading")
  /\ line' = Append(line, Char)
  /\ UNCHANGED <<down, inputs, prints>>
\* The line is returned.
EchoEnd ==
  /\ HasChar /\ Ends(Char)
  /\ PrintThen([cga_putc(screen, NL) EXCEPT !.start = 0], "prompt")
  /\ line' = <<>>
  /\ UNCHANGED <<down, inputs, prints>>
Ignore ==
  /\ HasChar /\ ~Erases(Char) /\ ~Adds(Char) /\ ~Ends(Char)
  /\ reader' = <<Mode, "reading", 0>>
  /\ UNCHANGED <<down, kbd, com, shift, cons, owed, screen, line, inputs, prints>>

------------------------------------------------------------------------------
(* The devices *)

\* Keys and bytes matter as long as somebody may read them.
Attended == inputs < MaxInput /\ reader[2] \notin {"destroyed", "eof", "reset"}

Type(codes) ==
  /\ Attended /\ Len(kbd \o codes) <= MaxWaiting
  /\ kbd' = kbd \o codes /\ inputs' = inputs + 1
Press(k) ==
  /\ k \notin down /\ down' = down \cup {k}
  /\ Type(KeyCode[k])
  /\ UNCHANGED <<com, shift, cons, owed, screen, reader, line, prints>>
Release(k) ==
  /\ k \in down /\ down' = down \ {k}
  /\ Type(Released(KeyCode[k]))
  /\ UNCHANGED <<com, shift, cons, owed, screen, reader, line, prints>>
Receive(b) ==
  /\ com = <<>> /\ com' = <<b>>
  /\ Attended /\ inputs' = inputs + 1
  /\ UNCHANGED <<down, kbd, shift, cons, owed, screen, reader, line, prints>>

\* There is no gate for the interrupts of the two devices, and no case: one that
\* comes in user mode destroys the environment.
Interrupt ==
  /\ Mode = "program" /\ kbd \o com # <<>>
  /\ AtPrompt \/ Reading \/ HasChar
  /\ reader' = <<Mode, "destroyed", 0>>
  /\ UNCHANGED <<down, kbd, com, shift, cons, owed, screen, line, inputs, prints>>

\* cons_init(), with the cursor where the boot loader left it.
Init ==
  /\ down = {} /\ kbd = <<>> /\ com = <<>> /\ shift = {}
  /\ cons = [buf |-> [i \in 0..(CONSBUFSIZE - 1) |-> 0], rpos |-> 0, wpos |-> 0]
  /\ owed = <<>>
  /\ screen = [buf |-> [i \in Cell |-> SPACE], pos |-> 0, start |-> 0]
  /\ reader \in {<<mode, "prompt", 0>> : mode \in {"monitor", "program"}}
  /\ line = <<>> /\ inputs = 0 /\ prints = 0

Next ==
  \/ \E c \in Printed : Output(c)
  \/ Prompt \/ GetChar \/ EchoErase \/ EchoAdd \/ EchoEnd \/ Ignore
  \/ \E k \in Key : Press(k) \/ Release(k)
  \/ \E b \in SerialByte : Receive(b)
  \/ Interrupt

Spec == Init /\ [][Next]_vars

------------------------------------------------------------------------------

\* The cursor is on the screen, the positions in the ring, and a character that
\* readline() looks at is one.
TypeOK ==
  /\ screen.pos \in Cell /\ DOMAIN screen.buf = Cell
  /\ cons.rpos \in 0..(CONSBUFSIZE - 1) /\ cons.wpos \in 0..(CONSBUFSIZE - 1)
  /\ HasChar => Char \in 1..255
  /\ Len(line) < BUFLEN

Mods == {"CTL", "SHIFT", "ALT"}
ModOf(k) == CASE k \in {"ctl", "rightctl"} -> "CTL"
              [] k = "shift"               -> "SHIFT"
              [] k = "alt"                 -> "ALT"
              [] OTHER                     -> "none"

\* No modifier stays in effect once its keys are up, whatever was pressed and
\* released meanwhile and however late the codes were read, and no escape is
\* left for the next key (console.c:336-352).
NoStuckModifier ==
  kbd = <<>> => shift \cap (Mods \cup {"E0ESC"}) \subseteq {ModOf(k) : k \in down}

\* The monitor reads the characters that came, in order and each once, unless
\* the ring ran full (console.c:403-437).
MonitorReadsAll == Mode = "monitor" => Buffered(cons) = owed

\* While a line is read, what is on the screen after the prompt is the line,
\* over the ends of rows, after the screen has moved up and whatever was erased
\* (readline.c:20-42, console.c:167-214).
EchoIsLine ==
  Reading =>
    /\ screen.pos = screen.start + Len(line)
    /\ \A i \in DOMAIN line : screen.buf[screen.start + i - 1] = line[i]

\* What a run checks: its parts are explained above.
ConsoleIsSound == TypeOK /\ NoStuckModifier /\ MonitorReadsAll /\ EchoIsLine

\* A program reads what was typed too (syscall.c:15: sys_cputs prints).
TypedIsRead == Buffered(cons) = owed
=============================================================================

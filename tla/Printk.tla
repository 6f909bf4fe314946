------------------------------- MODULE Printk -------------------------------
(***************************************************************************)
(* lib/printk.c and its consoles: the serial port (kernel/uart8250.c), the *)
(* text screen (kernel/vgacon.c) and the debug port (kernel/porte9.c).     *)
(* There is one CPU; a trap may interrupt vprintk, and its handler prints. *)
(* A message is a sequence of characters, formatted already.               *)
(***************************************************************************)
EXTENDS Integers, Sequences, SequencesExt

CONSTANTS
  Messages,       \* bound: what printk is asked to print
  Prefix,         \* what pr_prefix writes
  LOG_LINE_MAX,   \* bound: size of the line buffer
  Columns,        \* bound: columns of the screen
  Lines,          \* bound: lines of it that are used; it has one more
  CrtRadix,       \* bound: values of a CRT register
  MaxMessages     \* bound: calls of printk

ASSUME PrintkConstants ==
  /\ {LOG_LINE_MAX, Columns, Lines, CrtRadix, MaxMessages} \subseteq Nat \ {0}
  /\ Columns * (Lines + 1) < CrtRadix * CrtRadix
  /\ Len(Prefix) < LOG_LINE_MAX
  /\ \A text \in Messages \cup {Prefix} : text \in Seq(STRING) /\ \A k \in DOMAIN text : text[k] # ""

VARIABLES
  starting,         \* console drivers main() still has to start
  console_drivers,  \* registered consoles, in the order of the list
  console_lock,
  printing,         \* calls of vprintk, the innermost last: message, place in it
  buf,              \* the static line buffer
  uart,             \* the port: its registers and transmitter
  vga,              \* cursor registers, video memory
  sent,             \* console -> characters it has put out
  log,              \* every line vprintk has formatted, with the consoles then registered
  calls,            \* calls made so far
  dead              \* die() was called

printkVars == <<starting, console_drivers, console_lock, printing, buf, uart, vga, sent, log,
                calls, dead>>

LOGLEVEL_EMERG == 0
LOGLEVEL_ERR == 3
LOGLEVEL_INFO == 6
LOGLEVEL_DEBUG == 7
LOGLEVEL_CONT == -1
\* Neither is ever assigned.
loglevel == LOGLEVEL_INFO
curlevel == LOGLEVEL_INFO

Newline == "\n"
Blank == ""
ScreenSize == Columns * (Lines + 1)
EndColor == "END_COLOR"
StartColor == "color"

PrintkInit ==
  /\ starting \in {<<"porte9", "vga">>, <<"uart", "vga">>}
  /\ console_drivers = <<>> /\ console_lock = FALSE /\ printing = <<>> /\ buf = <<>>
  \* The port as it was left: its divisor latch may be open, its interrupts on.
  /\ \E there \in BOOLEAN, left \in {{}, {"DLAB"}} :
       /\ Head(starting) = "porte9" => there /\ left = {}
       /\ uart = [there |-> there, lcr |-> left, ier |-> {"RDI", "UUE"}, fcr |-> 1, mcr |-> 0,
                  dll |-> 1, dlm |-> 1, thr |-> Blank, step |-> 0]
  /\ \E cursor \in {0, Columns * Lines - 1, ScreenSize - 1} :
       vga = [hi |-> cursor \div CrtRadix, lo |-> cursor % CrtRadix,
              ram |-> [k \in 0 .. (ScreenSize - 1) |-> Blank], from |-> cursor]
  /\ sent = [c \in {"uart", "vga", "porte9"} |-> <<>>]
  /\ log = <<>> /\ calls = 0 /\ dead = FALSE

\* One state, for a run that is not about printk.
PrintkIdle ==
  /\ starting = <<>> /\ console_drivers = <<>> /\ console_lock = FALSE
  /\ printing = <<>> /\ buf = <<>> /\ sent = [c \in {"uart", "vga", "porte9"} |-> <<>>]
  /\ uart = [there |-> FALSE] /\ vga = [hi |-> 0, lo |-> 0, from |-> ScreenSize]
  /\ log = <<>> /\ calls = 0 /\ dead = FALSE

-----------------------------------------------------------------------------
(***************************************************************************)
(* The drivers start.                                                      *)
(***************************************************************************)
register_console(con) ==
  /\ console_drivers' = Append(console_drivers, con)
  /\ starting' = Tail(starting)

Starting(con) == starting # <<>> /\ Head(starting) = con /\ printing = <<>>
KeepLine == UNCHANGED <<console_lock, printing, buf, sent, log, calls, dead>>

vgacon_init == Starting("vga") /\ register_console("vga") /\ KeepLine /\ UNCHANGED <<uart, vga>>
porte9_init == Starting("porte9") /\ register_console("porte9") /\ KeepLine /\ UNCHANGED <<uart, vga>>

\* A write to offset 0 or 1 goes where the divisor latch access bit says.
uart8250_out(u, reg, value) ==
  IF ~u.there THEN u
  ELSE CASE reg = "LCR" -> [u EXCEPT !.lcr = value]
         [] reg = "FCR" -> [u EXCEPT !.fcr = value]
         [] reg = "MCR" -> [u EXCEPT !.mcr = value]
         [] reg = "IER" -> IF "DLAB" \in u.lcr THEN [u EXCEPT !.dlm = 0] ELSE [u EXCEPT !.ier = value]
         [] reg = "DLM" -> IF "DLAB" \in u.lcr THEN [u EXCEPT !.dlm = value] ELSE [u EXCEPT !.ier = {}]
         [] reg = "DLL" -> IF "DLAB" \in u.lcr THEN [u EXCEPT !.dll = value] ELSE [u EXCEPT !.thr = "?"]
         [] reg = "TX"  -> IF "DLAB" \in u.lcr THEN [u EXCEPT !.dll = 0] ELSE [u EXCEPT !.thr = value]

UART_CLK == 115200
UART_BAUD == 19200

\* init_port, one register after the other.
init_port(u) ==
  CASE u.step = 0 -> uart8250_out(u, "LCR", {"8n1"})
    [] u.step = 1 -> uart8250_out(u, "IER", u.ier \cap {"UUE"})
    [] u.step = 2 -> uart8250_out(u, "FCR", 0)
    [] u.step = 3 -> uart8250_out(u, "MCR", 3)
    [] u.step = 4 -> uart8250_out(u, "LCR", u.lcr \cup {"DLAB"})
    [] u.step = 5 -> uart8250_out(u, "DLL", (UART_CLK \div UART_BAUD) % 256)
    [] u.step = 6 -> uart8250_out(u, "DLM", (UART_CLK \div UART_BAUD) \div 256)
    [] u.step = 7 -> uart8250_out(u, "LCR", u.lcr \ {"DLAB"})

uart8250_init ==
  /\ Starting("uart")
  /\ \/ /\ uart.step < 8
        /\ uart' = [init_port(uart) EXCEPT !.step = @ + 1]
        /\ UNCHANGED <<starting, console_drivers>>
     \/ /\ uart.step = 8 /\ uart.there
        /\ register_console("uart")
        /\ UNCHANGED uart
     \/ /\ uart.step = 8 /\ ~uart.there     \* LSR reads 0xff: no serial port
        /\ starting' = Tail(starting)
        /\ UNCHANGED <<uart, console_drivers>>
  /\ KeepLine /\ UNCHANGED vga

-----------------------------------------------------------------------------
(***************************************************************************)
(* vprintk.  An activation is [level, text, rest, place, len, con, i, cur];*)
(* rest holds the lines its caller prints next, "die" at the end of them   *)
(* if the caller dies then.                                                *)
(***************************************************************************)
Activation(level, text, rest) ==
  [level |-> level, text |-> text, rest |-> rest, place |-> "spin_lock", len |-> 0, con |-> 1,
   i |-> 0, cur |-> 0]

Top == Last(printing)
In(place) == printing # <<>> /\ Top.place = place /\ ~dead
Goto(a) == printing' = Append(Front(printing), a)
KeepDevices == UNCHANGED <<uart, vga, sent>>
KeepSetup == UNCHANGED <<starting, console_drivers, calls>>

\* Code that is not in vprintk calls it: pr_info, pr_debug, pr_cont.
printk(level, text) ==
  /\ starting = <<>> /\ printing = <<>> /\ ~dead /\ calls < MaxMessages
  /\ printing' = <<Activation(level, text, <<>>)>>
  /\ calls' = calls + 1
  /\ UNCHANGED <<starting, console_drivers, console_lock, buf, log, dead>> /\ KeepDevices

Trace == <<"t", Newline>>

\* panic: the message, the call trace of dump_stack, die.
panic(text) ==
  /\ starting = <<>> /\ printing = <<>> /\ ~dead /\ calls < MaxMessages
  /\ printing' = <<Activation(LOGLEVEL_EMERG, text, <<Trace, <<"die">>>>)>>
  /\ calls' = calls + 1
  /\ UNCHANGED <<starting, console_drivers, console_lock, buf, log, dead>> /\ KeepDevices

\* A trap interrupts vprintk; do_trap prints, shows the registers and dies.
do_trap(text) ==
  /\ Len(printing) = 1 /\ ~dead /\ Top.rest = <<>>
  /\ printing' = Append(printing, Activation(LOGLEVEL_ERR, text, <<Trace, <<"die">>>>))
  /\ UNCHANGED <<starting, console_drivers, console_lock, buf, log, calls, dead>> /\ KeepDevices

\* A call that cannot have the lock tries again.
spin_lock ==
  /\ In("spin_lock") /\ ~console_lock
  /\ console_lock' = TRUE
  /\ Goto([Top EXCEPT !.place = "level"])
  /\ UNCHANGED <<buf, log, dead>> /\ KeepSetup /\ KeepDevices

CheckLevel ==
  /\ In("level")
  /\ LET thislevel == IF Top.level = LOGLEVEL_CONT THEN curlevel ELSE Top.level
     IN  Goto([Top EXCEPT !.place = IF thislevel > loglevel THEN "done"
                                    ELSE IF Top.level = LOGLEVEL_CONT THEN "cont" ELSE "prefix"])
  /\ UNCHANGED <<console_lock, buf, log, dead>> /\ KeepSetup /\ KeepDevices

\* scnprintf and vscnprintf: at most size - 1 characters.
Scn(text, size) == SubSeq(text, 1, IF Len(text) < size THEN Len(text) ELSE size - 1)

pr_prefix ==
  /\ In("prefix")
  /\ buf' = Scn(Prefix, LOG_LINE_MAX)
  /\ Goto([Top EXCEPT !.place = "cont", !.len = Len(buf')])
  /\ UNCHANGED <<console_lock, log, dead>> /\ KeepSetup /\ KeepDevices

\* The line follows the prefix in the buffer.
FormatLine ==
  /\ In("cont")
  /\ buf' = SubSeq(buf, 1, Top.len) \o Scn(Top.text, LOG_LINE_MAX - Top.len)
  /\ Goto([Top EXCEPT !.place = "consoles", !.len = Len(buf')])
  /\ log' = Append(log, [line |-> Scn((IF Top.level = LOGLEVEL_CONT THEN <<>> ELSE Prefix) \o Top.text,
                                      LOG_LINE_MAX),
                         on |-> Range(console_drivers)])
  /\ UNCHANGED <<console_lock, dead>> /\ KeepSetup /\ KeepDevices

\* for_each_console: the write of the next one starts.
NextConsole ==
  /\ In("consoles")
  /\ Goto([Top EXCEPT !.place = IF Top.con > Len(console_drivers) THEN "done"
                                ELSE console_drivers[Top.con],
                      !.i = 1,
                      !.cur = vga.hi * CrtRadix + vga.lo])
  /\ UNCHANGED <<console_lock, buf, log, dead>> /\ KeepSetup /\ KeepDevices

WriteDone == Goto([Top EXCEPT !.place = "consoles", !.con = @ + 1])
KeepPrintk == UNCHANGED <<console_lock, buf, log, dead>> /\ KeepSetup
LineDone == Top.i > Top.len

porte9_write ==
  /\ In("porte9")
  /\ sent' = [sent EXCEPT !["porte9"] = @ \o <<StartColor>> \o SubSeq(buf, 1, Top.len) \o <<EndColor>>]
  /\ WriteDone /\ KeepPrintk /\ UNCHANGED <<uart, vga>>

\* Mutant of uart8250_putc: the status is not waited for.
uart8250_putc_NoWait ==
  /\ In("uart") /\ ~LineDone
  /\ uart' = uart8250_out(uart, "TX", buf[Top.i])
  /\ Goto([Top EXCEPT !.i = @ + 1])
  /\ KeepPrintk /\ UNCHANGED <<vga, sent>>

\* A character is written, then the transmitter is waited for.
uart8250_putc ==
  \/ /\ In("uart") /\ ~LineDone
     /\ uart' = uart8250_out(uart, "TX", buf[Top.i])
     /\ Goto([Top EXCEPT !.place = "lsr"])
     /\ KeepPrintk /\ UNCHANGED <<vga, sent>>
  \/ /\ In("lsr") /\ uart.thr = Blank
     /\ Goto([Top EXCEPT !.place = "uart", !.i = @ + 1])
     /\ KeepPrintk /\ KeepDevices

uart8250_write == In("uart") /\ LineDone /\ WriteDone /\ KeepPrintk /\ KeepDevices

\* The transmitter sends the character it holds.
Transmit ==
  /\ uart.thr # Blank
  /\ uart' = [uart EXCEPT !.thr = Blank]
  /\ sent' = [sent EXCEPT !["uart"] = Append(@, uart.thr)]
  /\ UNCHANGED <<printing, vga>> /\ KeepPrintk

\* The screen after c at cur, and the next cursor: one line is scrolled out at the end.
Scrolled(ram) ==
  [k \in DOMAIN ram |-> IF k < Columns * (Lines - 1) THEN ram[k + Columns]
                        ELSE IF k < Columns * Lines THEN Blank ELSE ram[k]]

\* Mutant of Moved: the cursor may stay behind the last line.
Moved_Late(ram, cur) ==
  IF cur > Columns * Lines THEN [ram |-> Scrolled(ram), cur |-> cur - Columns]
  ELSE [ram |-> ram, cur |-> cur]

Moved(ram, cur) ==
  IF cur >= Columns * Lines THEN [ram |-> Scrolled(ram), cur |-> cur - Columns]
  ELSE [ram |-> ram, cur |-> cur]

vgacon_putc(ram, cur, c) ==
  IF c = Newline THEN Moved(ram, cur + (Columns - (cur % Columns)))
  ELSE Moved([ram EXCEPT ![cur] = c], cur + 1)

vgacon_write ==
  \/ /\ In("vga") /\ ~LineDone
     /\ LET after == vgacon_putc(vga.ram, Top.cur, buf[Top.i])
        IN  /\ vga' = [vga EXCEPT !.ram = after.ram]
            /\ Goto([Top EXCEPT !.i = @ + 1, !.cur = after.cur])
     /\ sent' = [sent EXCEPT !["vga"] = Append(@, buf[Top.i])]
     /\ KeepPrintk /\ UNCHANGED uart
  \/ /\ In("vga") /\ LineDone
     /\ vga' = [vga EXCEPT !.hi = Top.cur \div CrtRadix, !.lo = Top.cur % CrtRadix]
     /\ WriteDone /\ KeepPrintk /\ UNCHANGED <<uart, sent>>

\* Mutant of spin_unlock: a line that is not printed keeps the lock.
spin_unlock_OnlyPrinted ==
  /\ In("done")
  /\ console_lock' = (Top.len = 0)
  /\ LET rest == Top.rest
     IN  /\ printing' = IF rest = <<>> \/ rest = <<<<"die">>>> THEN Front(printing)
                        ELSE Append(Front(printing), Activation(LOGLEVEL_INFO, Head(rest), Tail(rest)))
         /\ dead' = (rest = <<<<"die">>>>)
  /\ UNCHANGED <<buf, log>> /\ KeepSetup /\ KeepDevices

\* The caller prints its next line, dies, or goes on.
spin_unlock ==
  /\ In("done")
  /\ console_lock' = FALSE
  /\ LET rest == Top.rest
     IN  /\ printing' = IF rest = <<>> \/ rest = <<<<"die">>>> THEN Front(printing)
                        ELSE Append(Front(printing), Activation(LOGLEVEL_INFO, Head(rest), Tail(rest)))
         /\ dead' = (rest = <<<<"die">>>>)
  /\ UNCHANGED <<buf, log>> /\ KeepSetup /\ KeepDevices

-----------------------------------------------------------------------------
vprintk ==
  \/ spin_lock \/ CheckLevel \/ pr_prefix \/ FormatLine \/ NextConsole
  \/ porte9_write \/ uart8250_putc \/ uart8250_write \/ vgacon_write \/ spin_unlock

Callers ==
  \E text \in Messages :
    \/ \E level \in {LOGLEVEL_INFO, LOGLEVEL_DEBUG, LOGLEVEL_CONT} : printk(level, text)
    \/ panic(text)
    \/ do_trap(text)

Drivers == vgacon_init \/ porte9_init \/ uart8250_init

PrintkNext == Drivers \/ Callers \/ vprintk \/ Transmit

-----------------------------------------------------------------------------
(***************************************************************************)
(* Properties.                                                             *)
(***************************************************************************)
Put(con, entry) ==
  IF con \notin entry.on THEN <<>>
  ELSE IF con = "porte9" THEN <<StartColor>> \o entry.line \o <<EndColor>>
  ELSE entry.line

\* What the lines put on a console, one after the other.
Text(con, lines) ==
  LET upto[k \in 0 .. Len(lines)] == IF k = 0 THEN <<>> ELSE upto[k - 1] \o Put(con, lines[k])
  IN  upto[Len(lines)]

\* Every console has put out every line it was registered for, whole, in
\* order and with nothing between, whenever the console lock is free: no
\* character is lost in the serial port, and no trap printed in the middle of
\* a line (printk.c:33-61, uart8250.c:28-49).
LinesAreWhole ==
  ~console_lock => \A con \in DOMAIN sent : sent[con] = Text(con, log)

\* Where a text that starts at from is on an endless page after k of its characters.
Positions(from, text) ==
  LET at[k \in 0 .. Len(text)] ==
        IF k = 0 THEN from
        ELSE at[k - 1] + (IF text[k] = Newline THEN Columns - (at[k - 1] % Columns) ELSE 1)
  IN  at

\* The character of the text that is at k of the page.
Page(text, at, k) ==
  LET hits == {i \in DOMAIN text : at[i - 1] = k /\ text[i] # Newline}
  IN  IF hits = {} THEN Blank ELSE text[CHOOSE i \in hits : TRUE]

\* The screen is a window on the text that follows the cursor the screen was
\* taken over with: its lines are the last ones of that text, and the cursor
\* stands behind it (vgacon.c:29-50).
ScreenIsTail ==
  (~console_lock /\ vga.from < Columns * Lines) =>
    LET text == sent["vga"]
        at == Positions(vga.from, text)
        cursor == at[Len(text)]
        row == cursor \div Columns
        scroll == Columns * (IF row < Lines THEN 0 ELSE row - Lines + 1)
    IN  /\ vga.hi * CrtRadix + vga.lo = cursor - scroll
        /\ \A k \in 0 .. (Columns * Lines - 1) : vga.ram[k] = Page(text, at, k + scroll)

\* Whatever line the cursor was left on, no character is stored behind the
\* end of the screen (vgacon.c: the last line is not used, "to avoid the mess
\* in the last line", but the cursor may be on it).
CursorOnScreen ==
  /\ vga.hi * CrtRadix + vga.lo < ScreenSize
  /\ In("vga") => Top.cur < ScreenSize

\* The serial port a console is registered for sends 8 bits without parity at
\* 19200 baud, holds its data register open and raises no interrupt, in
\* whatever state it was left (uart8250.c:51-69).
UartIsReady ==
  \A k \in DOMAIN console_drivers : console_drivers[k] = "uart" =>
    /\ uart.lcr = {"8n1"} /\ uart.ier \subseteq {"UUE"}
    /\ uart.dll + 256 * uart.dlm = 6

\* The call that a trap interrupted has the lock its handler waits for: a deadlock.
HolderIsInterrupted == Len(printing) = 2 /\ printing[1].place # "spin_lock"

\* A call of vprintk returns, or ends in die, that of a trap's handler too,
\* unless the trap hit a call that held the lock: the handler prints and waits
\* for the lock of the code it interrupted (printk.c:40, idt.c:169), which is
\* the one way there is not to return while the transmitter sends.
CallsReturn == (printing # <<>>) ~> (printing = <<>> \/ dead \/ HolderIsInterrupted)

\* Lines come out whole on every console, of which the serial port was set
\* up as its driver assumes.
ConsolesAreWhole == LinesAreWhole /\ UartIsReady

\* The text screen shows the end of the text, and nothing is stored outside
\* it.
ScreenIsRight == ScreenIsTail /\ CursorOnScreen
=============================================================================

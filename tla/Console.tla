------------------------------ MODULE Console ------------------------------
(***************************************************************************)
(* The way from a typed character to the screen: the line editors of the   *)
(* shell, of the login prompt and of passwd (shell.c, session.c,           *)
(* cmd_passwd.c), printk and the text console (printk.c, fb_console.c),    *)
(* and the frame buffer, whose contents are drawn in a back buffer and     *)
(* reach the card's memory only when something presents them (fb.c).  A    *)
(* cell of the text console stands for its 8 by 16 pixels.  The login and  *)
(* desktop programs, which are external, draw through the same buffers     *)
(* while the console is off (loader.c).  Colours are left out.             *)
(***************************************************************************)
EXTENDS Integers, Sequences, SequencesExt

CONSTANTS Cols, Rows,  \* cells of the screen
          Pitch,       \* cells of a line of the card's memory: at least Cols
          Chars,       \* characters, of which "nl", "tab", "del" and "esc" are control characters
          Letters,     \* those that are typed and print as themselves
          Prompt,      \* of each mode, what is printed in front of the typed line
          Message,     \* a message of the kernel: some text and a line end
          Outputs,     \* what commands and programs may print
          LineMax,     \* characters of a command line: 127 in the code
          FieldMax,    \* characters of a name or password: 31 in the code
          MaxSteps     \* bound: drawing calls of the programs

Modes == {"name", "password", "shell", "old", "new"}
Text == Seq(Chars)
ASSUME ScreenAssumption == Cols \in Nat \ {0} /\ Rows \in Nat \ {0} /\ Pitch \in Nat /\ Pitch >= Cols
ASSUME TextsAssumption == Prompt \in [Modes -> Text] /\ Message \in Text /\ Outputs \subseteq Text

\* Characters that move the cursor otherwise than by one cell, or are not drawn as themselves.
Controls == {"nl", "tab", "del", "esc"}
Blank == "blank"
ASSUME CharsAssumption == Controls \cup {Blank, "?", "*", "#"} \subseteq Chars
ASSUME PlainAssumption == /\ Letters \subseteq Chars \ Controls
                          /\ \A m \in Modes : \A i \in DOMAIN Prompt[m] : Prompt[m][i] \notin Controls
                          /\ Message # <<>> /\ Last(Message) = "nl"

VARIABLES scr,    \* the back buffer, the card's memory, the cursor, and g_enabled
          ed,     \* which editor has the keys, its characters, and as a ghost the prompt in front
          dirty,  \* g_dirty
          phase,  \* what the kernel is doing
          progs,  \* the programs that run, each started by the one before
          steps   \* drawing calls made

consoleVars == <<scr, ed, dirty, phase, progs, steps>>

Cells == (0 .. Cols - 1) \X (0 .. Rows - 1)

-----------------------------------------------------------------------------
(* The frame buffer. *)

Cleared(t) == [t EXCEPT !.back = [c \in Cells |-> Blank]]

\* Lines of the card's memory may be longer than those of the back buffer.
Present(t) ==
  [t EXCEPT !.lfb = [i \in DOMAIN t.lfb |->
     IF i % Pitch < Cols THEN t.back[<<i % Pitch, i \div Pitch>>] ELSE t.lfb[i]]]

\* fb_present_rect cuts the rectangle to the screen.
PresentRect(t, x, y, w, h) ==
  LET x0 == IF x < 0 THEN 0 ELSE x
      y0 == IF y < 0 THEN 0 ELSE y
      x1 == IF x + w > Cols THEN Cols ELSE x + w
      y1 == IF y + h > Rows THEN Rows ELSE y + h
      inside == {<<a, b>> : a \in x0 .. x1 - 1, b \in y0 .. y1 - 1}
  IN  [t EXCEPT !.lfb = [i \in DOMAIN t.lfb |->
         IF <<i % Pitch, i \div Pitch>> \in inside THEN t.back[<<i % Pitch, i \div Pitch>>] ELSE t.lfb[i]]]

-----------------------------------------------------------------------------
(* The text console. *)

\* Below the last row the console does not scroll: it clears the screen.
Newline(t) ==
  IF t.y + 2 > Rows THEN [Cleared(t) EXCEPT !.x = 0, !.y = 0]
  ELSE [t EXCEPT !.x = 0, !.y = @ + 1]

Drawn(t, c) == IF <<t.x, t.y>> \in Cells THEN [t EXCEPT !.back[<<t.x, t.y>>] = c] ELSE t

\* The line is broken before the character that does not fit, not after the last that does.
PutGlyph(t, c) ==
  LET u == IF t.x + 1 > Cols THEN Newline(t) ELSE t
  IN  [Drawn(u, c) EXCEPT !.x = u.x + 1]

\* A backspace stays in the first column.
Erased(t) == LET u == [t EXCEPT !.x = IF @ >= 1 THEN @ - 1 ELSE 0] IN Drawn(u, Blank)

Putc(t, c) ==
  CASE c = "nl" -> Newline(t)
    [] c = "tab" -> PutGlyph(PutGlyph(PutGlyph(PutGlyph(t, Blank), Blank), Blank), Blank)
    [] c = "del" -> Erased(t)
    [] c = "esc" -> PutGlyph(t, "?")
    [] OTHER -> PutGlyph(t, c)

Flush(t) == IF t.on THEN Present(t) ELSE t

\* printk shows what it prints at every line end.
Outc(t, c) ==
  IF ~t.on THEN t
  ELSE IF c = "nl" THEN Flush(Putc(t, c)) ELSE Putc(t, c)

Printk(t, text) ==
  LET printed[n \in 0 .. Len(text)] == IF n = 0 THEN t ELSE Outc(printed[n - 1], text[n])
  IN  printed[Len(text)]

ClearConsole(t) ==
  LET home == [t EXCEPT !.x = 0, !.y = 0] IN IF t.on THEN Present(Cleared(home)) ELSE home

-----------------------------------------------------------------------------
(* The editors. *)

Editing(mode, prompt) == [mode |-> mode, typed |-> <<>>, prompt |-> prompt]
Typed(c) == [ed EXCEPT !.typed = Append(@, c)]
Shortened == [ed EXCEPT !.typed = Front(@)]
Erasure == <<"del", Blank, "del">>

Handling == phase = "handling" /\ UNCHANGED <<phase, progs, steps>>

\* shell_print_prompt leaves the flush to shell_tick.
AskShell(t) == scr' = Printk(t, Prompt["shell"]) /\ ed' = Editing("shell", Prompt["shell"]) /\ dirty' = TRUE
\* The other prompts are followed by a flush.
Ask(t, mode) == scr' = Flush(Printk(t, Prompt[mode])) /\ ed' = Editing(mode, Prompt[mode])

\* Mutant: the echo does not ask shell_tick for a flush.
EchoUnmarked(c) ==
  /\ Len(ed.typed) < LineMax
  /\ ed' = Typed(c) /\ scr' = Printk(scr, <<c>>) /\ UNCHANGED dirty

\* shell_handle_scancode echoes what it takes: printable characters, while there is room.
Echo(c) ==
  /\ Len(ed.typed) < LineMax
  /\ ed' = Typed(c) /\ scr' = Printk(scr, <<c>>) /\ dirty' = TRUE

ShellChar(c) == Handling /\ ed.mode = "shell" /\ c \in Letters /\ Echo(c)

\* Mutant: a backspace on an empty line erases on the screen all the same.
ShellEraseUnguarded ==
  /\ Handling /\ ed.mode = "shell"
  /\ ed' = IF ed.typed = <<>> THEN ed ELSE Shortened
  /\ scr' = Printk(scr, Erasure) /\ dirty' = TRUE

ShellErase ==
  /\ Handling /\ ed.mode = "shell" /\ ed.typed # <<>>
  /\ ed' = Shortened /\ scr' = Printk(scr, Erasure) /\ dirty' = TRUE

\* Enter: an empty line is answered with a prompt, any other line runs a command.
ShellEnter ==
  /\ Handling /\ ed.mode = "shell"
  /\ LET t == Printk(scr, <<"nl">>)
     IN  \/ ed.typed = <<>> /\ AskShell(t)
         \/ ed.typed # <<>> /\ \E out \in Outputs : AskShell(Printk(t, out))
         \/ ed.typed # <<>> /\ AskShell(ClearConsole(t))

\* passwd asks for passwords instead of the shell's prompt.
PasswdStarts ==
  /\ Handling /\ ed.mode = "shell" /\ ed.typed # <<>>
  /\ Ask(Printk(scr, <<"nl", "nl">>), "old") /\ dirty' = TRUE

Logout ==
  /\ Handling /\ ed.mode = "shell" /\ ed.typed # <<>>
  /\ Ask(Printk(ClearConsole(Printk(scr, <<"nl">> \o Message)), Message \o Message), "name")
  /\ dirty' = TRUE

\* passwd_handle_scancode shows a star for any character, the control characters among them.
PasswdChar(c) ==
  /\ Handling /\ ed.mode \in {"old", "new"} /\ Len(ed.typed) < FieldMax
  /\ ed' = Typed("*") /\ scr' = Flush(Printk(scr, <<"*">>)) /\ UNCHANGED dirty

PasswdErase ==
  /\ Handling /\ ed.mode \in {"old", "new"} /\ ed.typed # <<>>
  /\ ed' = Shortened /\ scr' = Flush(Printk(scr, Erasure)) /\ UNCHANGED dirty

\* The old password is wrong or the file cannot be read; or it is right; or the new one is
\* written, or not, the last without a word when memory runs out.  The shell's prompt is not
\* flushed on the ways that return early.
PasswdEnter ==
  /\ Handling /\ ed.mode \in {"old", "new"}
  /\ LET t == Printk(scr, <<"nl">>)
     IN  \/ AskShell(Printk(t, Message))
         \/ ed.mode = "old" /\ Ask(t, "new") /\ UNCHANGED dirty
         \/ ed.mode = "new" /\ AskShell(t)

\* shell_init clears the console, greets and prompts.
ShellStarts(t) ==
  /\ scr' = Flush(Printk(Printk(ClearConsole(t), Message \o Message), Prompt["shell"]))
  /\ ed' = Editing("shell", Prompt["shell"]) /\ dirty' = FALSE

\* session_handle_scancode, with no one logged in.  It echoes every character of a name, the
\* tab as four blanks and others as a question mark, and none of a password.
LoginChar(c) ==
  /\ Handling /\ ed.mode \in {"name", "password"} /\ Len(ed.typed) < FieldMax
  /\ ed' = Typed(c)
  /\ scr' = Flush(IF ed.mode = "name" THEN Printk(scr, <<c>>) ELSE scr)
  /\ UNCHANGED dirty

LoginErase ==
  /\ Handling /\ ed.mode \in {"name", "password"} /\ ed.typed # <<>>
  /\ ed' = Shortened
  /\ scr' = Flush(IF ed.mode = "name" THEN Printk(scr, Erasure) ELSE scr)
  /\ UNCHANGED dirty

\* The name is unknown, or a password is wanted or not; the password is right or wrong.
LoginEnter ==
  /\ Handling /\ ed.mode \in {"name", "password"}
  /\ LET t == Printk(scr, <<"nl">>)
     IN  \/ Ask(Printk(t, Message \o <<"nl">>), "name") /\ UNCHANGED dirty
         \/ ed.mode = "name" /\ Ask(t, "password") /\ UNCHANGED dirty
         \/ ShellStarts(Printk(t, <<"nl">> \o Message))

\* F1 logs in at any point of it.
LoginF1 ==
  /\ Handling /\ ed.mode \in {"name", "password"}
  /\ ShellStarts(Printk(scr, <<"nl">> \o Message))

-----------------------------------------------------------------------------
(* The main loop: all keys that wait are handled, then shell_tick flushes, then the  *)
(* processor halts until an interrupt.                                               *)

Tick ==
  /\ phase = "handling" /\ phase' = "halted"
  /\ scr' = IF dirty THEN Flush(scr) ELSE scr
  /\ dirty' = FALSE
  /\ UNCHANGED <<ed, progs, steps>>

Wake == phase = "halted" /\ phase' = "handling" /\ UNCHANGED <<scr, ed, dirty, progs, steps>>

-----------------------------------------------------------------------------
(* Start-up and the programs it may run (session_init, load_login_module and         *)
(* load_desktop_module).  While a program runs no key reaches an editor.             *)

BootToText ==
  /\ phase = "boot" /\ phase' = "handling"
  /\ Ask(Printk(ClearConsole(scr), Message \o <<"nl">> \o Message), "name")
  /\ UNCHANGED <<dirty, progs, steps>>

\* A program begins on an empty screen, with the console off; or it cannot be loaded.
Start(t, kind) ==
  \/ /\ scr' = Present(Cleared([t EXCEPT !.on = FALSE]))
     /\ progs' = Append(progs, kind) /\ phase' = "program"
  \/ /\ scr' = Printk(t, Message)
     /\ phase' = (IF progs = <<>> THEN "handling" ELSE "program") /\ UNCHANGED progs

BootToProgram ==
  /\ phase = "boot"
  /\ \E kind \in {"login", "desktop"} : Start(Printk(ClearConsole(scr), Message \o Message), kind)
  /\ UNCHANGED <<ed, dirty, steps>>

Running == phase = "program" /\ UNCHANGED <<ed, dirty>>
Stepping == Running /\ steps < MaxSteps /\ steps' = steps + 1 /\ UNCHANGED <<phase, progs>>

\* kernel_draw_rect, as a sample of the calls that draw.
ProgramDraws ==
  /\ Stepping
  /\ \E c \in Cells : scr' = [scr EXCEPT !.back = [d \in Cells |-> IF d[1] >= c[1] /\ d[2] >= c[2] THEN "#" ELSE @[d]]]

ProgramClears == Stepping /\ scr' = Cleared(scr)
ProgramPresents == Stepping /\ scr' = Present(scr)
ProgramPresentsRect ==
  Stepping /\ Last(progs) = "desktop" /\ \E x \in {-1, 1}, w \in {1, Cols} : scr' = PresentRect(scr, x, 0, w, Rows)
ProgramLogs == Stepping /\ \E out \in Outputs : scr' = Printk(scr, out)

LoginStartsDesktop ==
  /\ Running /\ Len(progs) = 1 /\ Last(progs) = "login" /\ steps < MaxSteps /\ steps' = steps + 1
  /\ Start(Printk(scr, Message \o Message), "desktop")

\* The command kls runs a program from the shell and leaves the console as it is.
Kls ==
  /\ phase = "handling" /\ ed.mode = "shell" /\ ed.typed # <<>>
  /\ scr' = Printk(scr, <<"nl">> \o Message) /\ dirty' = TRUE
  /\ progs' = <<"kls">> /\ phase' = "program"
  /\ UNCHANGED <<ed, steps>>

KlsReturns ==
  /\ phase = "program" /\ progs = <<"kls">>
  /\ AskShell(Printk(scr, Message))
  /\ progs' = <<>> /\ phase' = "handling" /\ UNCHANGED steps

\* The console is on again, for the program that started this one, too.
ProgramReturns ==
  /\ Running /\ Last(progs) # "kls"
  /\ progs' = Front(progs)
  /\ phase' = IF progs' = <<>> THEN "handling" ELSE "program"
  /\ scr' = Printk([scr EXCEPT !.on = TRUE], Message)
  /\ UNCHANGED steps

-----------------------------------------------------------------------------
ConsoleInit ==
  /\ scr = [back |-> [c \in Cells |-> Blank], lfb |-> [i \in 0 .. Pitch * Rows - 1 |-> Blank],
            x |-> 0, y |-> 0, on |-> TRUE]
  /\ ed = Editing("name", <<>>) /\ dirty = FALSE /\ phase = "boot" /\ progs = <<>> /\ steps = 0

ConsoleNext ==
  \/ \E c \in Letters : ShellChar(c)
  \/ ShellErase \/ ShellEnter \/ PasswdStarts \/ Logout
  \/ \E c \in Letters \cup {"tab", "esc"} : PasswdChar(c) \/ LoginChar(c)
  \/ PasswdErase \/ PasswdEnter \/ LoginErase \/ LoginEnter \/ LoginF1
  \/ Tick \/ Wake \/ BootToText \/ BootToProgram
  \/ ProgramDraws \/ ProgramClears \/ ProgramPresents \/ ProgramPresentsRect \/ ProgramLogs
  \/ LoginStartsDesktop \/ ProgramReturns \/ Kls \/ KlsReturns

ConsoleSpec == ConsoleInit /\ [][ConsoleNext]_consoleVars

-----------------------------------------------------------------------------
(* Properties. *)

\* Whenever the processor halts, the card shows what was drawn: every way through the
\* editors, the prompts, the early returns of passwd and the programs ends with a flush or
\* leaves g_dirty for shell_tick.
ScreenIsCurrent ==
  phase = "halted" => \A c \in Cells : scr.lfb[c[2] * Pitch + c[1]] = scr.back[c]

\* To the left of the cursor stands the end of the prompt and of the line as the editor has
\* it, whatever was typed and erased over line ends and the clearing at the bottom (the
\* echoes of shell.c and cmd_passwd.c against the cursor of fb_console.c).
LineShown ==
  ed.mode \in {"shell", "old", "new"} /\ phase # "program" =>
    LET shown == ed.prompt \o ed.typed
    IN  \A i \in 1 .. Len(shown) :
          i <= scr.x => scr.back[<<scr.x - i, scr.y>>] = shown[Len(shown) + 1 - i]
=============================================================================

-------------------------------- MODULE Shell --------------------------------
(***************************************************************************)
(* The line editor of the shell, src/userspace/app/app.c: what keys do to  *)
(* the line, the history and the screen.                                   *)
(*                                                                         *)
(* Keyboard delivers the events, in order; the interrupts that fill its    *)
(* buffer change nothing the shell uses, so that the handling of an event, *)
(* with the many calls it makes to write to the screen, is one action.     *)
(* What commands print is a few lines or nothing; all of them, and the     *)
(* exit of a program, end what they print with a new line.                 *)
(***************************************************************************)
EXTENDS Screen, FiniteSetsExt

CONSTANTS
    Letters,        \* characters that can be typed, beside the blank
    LINE_SIZE, HISTORY_SIZE,
    Outputs         \* what commands print

Prompt == <<"u", ">", " ">>

ASSUME ShellAssumption ==
    /\ LINE_SIZE \in Nat \ {0} /\ HISTORY_SIZE \in Nat \ {0}
    /\ Letters \cup Range(Prompt) \cup {"^"} \subseteq Printable
    /\ \A text \in Outputs : text = <<>> \/ Last(text) = "nl"

VARIABLES
    line,           \* line and line_len
    history,        \* history and history_count
    history_cursor,
    screen,
    running,        \* app_main has not returned
    last,           \* history variable: the command run last
    spilled         \* history variable: the line has filled its row since the prompt

vars == <<line, history, history_cursor, screen, running, last, spilled>>

-----------------------------------------------------------------------------
(* Lines.                                                                  *)

Rubout == <<"bs", " ", "bs">>

(* Mutant: the cursor is not put back.                                     *)
clear_line_partly(s, text) == FoldLeft(LAMBDA d, ch : PutAll(d, <<"bs", " ">>), s, text)

(* clear_line, on screen s with the line text.                             *)
clear_line(s, text) == FoldLeft(LAMBDA d, ch : PutAll(d, Rubout), s, text)

is_space(ch) == ch = " "

(* skip_spaces and trim_right.                                             *)
trimmed(text) ==
    LET inked == {i \in DOMAIN text : ~is_space(text[i])}
    IN  IF inked = {} THEN <<>> ELSE SubSeq(text, Min(inked), Max(inked))

(* Mutant: a command is not compared with the one before it.               *)
push_history_again(h, command) ==
    IF Len(h) < HISTORY_SIZE THEN Append(h, command) ELSE Append(Tail(h), command)

(* A command that repeats the newest one is not kept again; a full history *)
(* loses its oldest.                                                       *)
push_history(h, command) ==
    IF h # <<>> /\ Last(h) = command THEN h
    ELSE IF Len(h) < HISTORY_SIZE THEN Append(h, command) ELSE Append(Tail(h), command)

-----------------------------------------------------------------------------
(* Events.                                                                 *)

Spills(text) == Len(Prompt) + Len(text) >= Cols

(* The line becomes text, character by character on the screen.            *)
set_line(text) ==
    /\ line' = SubSeq(text, 1, Min({LINE_SIZE - 1, Len(text)}))
    /\ screen' = PutAll(clear_line(screen, line), line')
    /\ spilled' = (spilled \/ Spills(line'))

(* The line is empty after a prompt on screen s.                           *)
NewPrompt(s) == line' = <<>> /\ screen' = PutAll(s, Prompt) /\ spilled' = Spills(<<>>)

Backspace ==
    /\ line # <<>>
    /\ line' = Front(line)
    /\ screen' = PutAll(screen, Rubout)
    /\ UNCHANGED <<history, history_cursor, running, last, spilled>>

(* A character that does not fit is ignored, and so are the control        *)
(* characters, escape among them: its event has a character.               *)
Insert ==
    /\ \E ch \in Letters \cup {" "} :
          /\ Len(line) + 1 < LINE_SIZE
          /\ line' = Append(line, ch)
          /\ screen' = Put(screen, ch)
          /\ spilled' = (spilled \/ Spills(line'))
    /\ UNCHANGED <<history, history_cursor, running, last>>

Remember(command) ==
    /\ history' = push_history(history, command)
    /\ history_cursor' = Len(history')
    /\ last' = command

(* Enter.  A command may clear the screen, or set colours and print, and   *)
(* the shell goes on; exit ends it.                                        *)
EnterNothing ==
    /\ trimmed(line) = <<>>
    /\ NewPrompt(Put(screen, "nl"))
    /\ UNCHANGED <<history, history_cursor, running, last>>
EnterCommand ==
    /\ trimmed(line) # <<>>
    /\ Remember(trimmed(line))
    /\ \/ NewPrompt(Cleared(screen))
       \/ \E text \in Outputs : NewPrompt(PutAll(Put(screen, "nl"), text))
       \/ \E text \in Outputs, fg, bg \in Colours :
             NewPrompt(PutAll([Put(screen, "nl") EXCEPT !.fg = fg, !.bg = bg], text))
    /\ UNCHANGED running
EnterExit ==
    /\ trimmed(line) # <<>>
    /\ Remember(trimmed(line))
    /\ line' = <<>> /\ running' = FALSE
    /\ \E text \in Outputs : screen' = PutAll(Put(screen, "nl"), text)
    /\ UNCHANGED spilled

CtrlC ==
    /\ NewPrompt(PutAll(screen, <<"^", "C", "nl">>))
    /\ UNCHANGED <<history, history_cursor, running, last>>

CtrlL ==
    /\ screen' = PutAll(Cleared(screen), Prompt \o line)
    /\ spilled' = Spills(line)
    /\ UNCHANGED <<line, history, history_cursor, running, last>>

history_previous ==
    /\ history # <<>>
    /\ history_cursor' = Max({history_cursor - 1, 0})
    /\ set_line(history[history_cursor' + 1])
    /\ UNCHANGED <<history, running, last>>

history_next ==
    /\ history_cursor < Len(history)
    /\ history_cursor' = history_cursor + 1
    /\ set_line(IF history_cursor' = Len(history) THEN <<>> ELSE history[history_cursor' + 1])
    /\ UNCHANGED <<history, running, last>>

handle_event ==
    \/ Backspace \/ Insert \/ EnterNothing \/ EnterCommand \/ EnterExit
    \/ CtrlC \/ CtrlL \/ history_previous \/ history_next

(* app_main: a greeting and the first prompt.                              *)
Init ==
    /\ line = <<>> /\ history = <<>> /\ history_cursor = 0
    /\ screen = PutAll(NewScreen, <<"nl">> \o Prompt)
    /\ running = TRUE /\ last = <<>> /\ spilled = Spills(<<>>)

Next == running /\ handle_event

Spec == Init /\ [][Next]_vars

-----------------------------------------------------------------------------
(* Properties.                                                             *)

Shown(text) ==
    \A x \in 0 .. Cols - 1 :
        screen.grid[screen.row][x].ch = IF x < Len(text) THEN text[x + 1] ELSE " "

(* The user sees what will be run: the row of the cursor shows the prompt  *)
(* and the line and nothing else, and the cursor is behind them, whatever  *)
(* was typed, erased, recalled, cleared or printed before; unless the line *)
(* has filled the row, across which the screen cannot erase.               *)
LineShown ==
    (running /\ ~spilled) =>
        /\ Shown(Prompt \o line)
        /\ screen.col = Len(Prompt \o line)

(* The history holds the command run last as its newest, never twice in a  *)
(* row, each as it was run; and the cursor is in it or behind its end.     *)
HistoryKept ==
    /\ last # <<>> => history # <<>> /\ Last(history) = last
    /\ \A i \in 1 .. Len(history) - 1 : history[i] # history[i + 1]
    /\ \A i \in DOMAIN history : /\ trimmed(history[i]) = history[i]
                                 /\ Len(history[i]) \in 1 .. LINE_SIZE - 1
    /\ history_cursor \in 0 .. Len(history) /\ Len(history) <= HISTORY_SIZE

=============================================================================

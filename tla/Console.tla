------------------------------ MODULE Console -------------------------------
(***************************************************************************)
(* The line editor of the console: console_handle_char() of                *)
(* common/console.c, fed by a terminal that sends each key as one or more  *)
(* characters.  The module shows that it implements Editor.                *)
(*                                                                         *)
(* input_buf is a C array: what is behind its terminating NUL stays there. *)
(* Glyphs stand for the printing characters; nothing here depends on which *)
(* one it is, outside of an escape sequence.                               *)
(***************************************************************************)
EXTENDS Naturals, Sequences

CONSTANTS
    CONFIG_CONSOLE_INPUT_LINE_SIZE, CONFIG_CONSOLE_HISTORY,
    Glyphs

NUL == "NUL"
NoLine == <<NUL>>

NamedKeys == {"home", "left", "end", "right", "delete", "backspace", "kill",
              "enter", "up", "down", "other"}
Keys == NamedKeys \cup Glyphs

\* Characters with a meaning of their own, and what an escape sequence means.
Special ==
    {NUL, "none", "^A", "^B", "^E", "^F", "BS", "^K", "CR", "LF", "^P", "^N", "^L",
     "ESC", "[", "O", "~", "semicolon", "1", "3", "5", "A", "B", "C", "D", "F", "H", "P"}
    \cup {"UP_ARROW", "DOWN_ARROW", "RIGHT_ARROW", "LEFT_ARROW", "END", "HOME",
          "DEL", "eaten"}

ASSUME ConsoleAssumption ==
    /\ CONFIG_CONSOLE_INPUT_LINE_SIZE \in Nat \ {0, 1}
    /\ CONFIG_CONSOLE_HISTORY \in Nat \ {0, 1}
    /\ Glyphs \cap (Special \cup NamedKeys) = {}

VARIABLES
    input_buf, input_len, input_pos,
    history, history_next, history_pos,
    esc_state, last_rx_was_cr,
    key, incoming,      \* the key the terminal has sent, and what is left of it
    command             \* what handle_command() was called with just now

bufVars == <<input_buf, input_len, input_pos>>
historyVars == <<history, history_next, history_pos>>
vars == <<bufVars, historyVars, esc_state, last_rx_was_cr, key, incoming, command>>

Index == 0 .. CONFIG_CONSOLE_INPUT_LINE_SIZE - 1
Slot == 0 .. CONFIG_CONSOLE_HISTORY - 1

LineTypes ==
    /\ input_buf \in [Index -> Glyphs \cup {NUL}]
    /\ input_len \in Index /\ input_pos \in 0 .. input_len

HistoryTypes ==
    /\ DOMAIN history = Slot
    /\ \A i \in Slot : history[i] \in Seq(Glyphs) /\ Len(history[i]) \in Index
    /\ history_next \in Slot /\ history_pos \in Slot

TypeOK ==
    /\ LineTypes
    /\ HistoryTypes
    /\ esc_state \in {"OUTSIDE", "START", "BAD", "BRACKET", "BRACKET_1",
                      "BRACKET_3", "O"}
    /\ last_rx_was_cr \in BOOLEAN

\* Static memory, and console_init().
Init ==
    /\ input_buf = [i \in Index |-> NUL] /\ input_len = 0 /\ input_pos = 0
    /\ history = [i \in Slot |-> <<>>] /\ history_next = 0 /\ history_pos = 0
    /\ esc_state = "OUTSIDE" /\ last_rx_was_cr = FALSE
    /\ key = "none" /\ incoming = <<>>
    /\ command = NoLine

-----------------------------------------------------------------------------
(* The terminal (external) *)

\* What the keys send.  A terminal may send any of the sequences of a key.
Sent(k) ==
    CASE k = "home" -> {<<"^A">>, <<"ESC", "[", "1", "~">>}
      [] k = "left" -> {<<"^B">>, <<"ESC", "[", "D">>}
      [] k = "end" -> {<<"^E">>, <<"ESC", "O", "F">>}
      [] k = "right" -> {<<"^F">>, <<"ESC", "[", "C">>}
      [] k = "delete" -> {<<"ESC", "[", "3", "~">>}
      [] k = "backspace" -> {<<"BS">>}
      [] k = "kill" -> {<<"^K">>}
      [] k = "enter" -> {<<"CR">>, <<"LF">>, <<"CR", "LF">>}
      [] k = "up" -> {<<"^P">>, <<"ESC", "[", "A">>}
      [] k = "down" -> {<<"^N">>, <<"ESC", "[", "B">>}
      [] k = "other" -> {<<"^L">>, <<"ESC", "[", "5", "~">>, <<"ESC", "[", "H">>,
                         <<"ESC", "O", "P">>, <<"ESC", "[", "1", "semicolon", "C">>}
      [] OTHER -> {<<k>>}

\* A terminal that ends a line with CR does not end the next one with LF.
Press(k) ==
    /\ incoming = <<>>
    /\ \E s \in Sent(k) :
         /\ ~(last_rx_was_cr /\ s = <<"LF">>)
         /\ incoming' = s
    /\ key' = k
    /\ UNCHANGED <<bufVars, historyVars, esc_state, last_rx_was_cr, command>>

-----------------------------------------------------------------------------
(* C strings *)

strlen(buf) == CHOOSE n \in Index :
    /\ buf[n] = NUL \/ n = CONFIG_CONSOLE_INPUT_LINE_SIZE - 1
    /\ \A i \in 0 .. n - 1 : buf[i] # NUL

String(buf) == [i \in 1 .. strlen(buf) |-> buf[i - 1]]

\* strzcpy() leaves what is behind the terminating NUL.
strzcpy(buf, s) ==
    [i \in Index |-> IF i < Len(s) THEN s[i + 1]
                     ELSE IF i = Len(s) THEN NUL ELSE buf[i]]

\* Within a buffer, as if by way of a copy.
memmove(buf, to, from, n) ==
    [i \in Index |-> IF i \in to .. to + n - 1 THEN buf[from + i - to] ELSE buf[i]]

-----------------------------------------------------------------------------
(* console_handle_char(): what a character means *)

\* CR is LF; LF after CR is nothing.
IsSecondOfCrLf(c) == c = "LF" /\ last_rx_was_cr

Translated(c) == IF c = "CR" THEN "LF" ELSE c

InEscape(c) == esc_state # "OUTSIDE" /\ c # "ESC"

IsAlpha(c) == c \in Glyphs \cup {"A", "B", "C", "D", "F", "H", "O", "P"}

\* handle_esc(): the next state of a sequence that goes on.
EscNext(c) ==
    CASE esc_state = "START" /\ c = "[" -> "BRACKET"
      [] esc_state = "START" /\ c = "O" -> "O"
      [] esc_state = "BRACKET" /\ c = "1" -> "BRACKET_1"
      [] esc_state = "BRACKET" /\ c = "3" -> "BRACKET_3"
      [] (IsAlpha(c) \/ c = "~") /\ ~(esc_state = "START" /\ c = "O") -> "OUTSIDE"
      [] OTHER -> "BAD"

\* handle_esc(): the key that is complete with c, if any.
EscKey(c) ==
    CASE esc_state = "BRACKET" /\ c = "A" -> "UP_ARROW"
      [] esc_state = "BRACKET" /\ c = "B" -> "DOWN_ARROW"
      [] esc_state = "BRACKET" /\ c = "C" -> "RIGHT_ARROW"
      [] esc_state = "BRACKET" /\ c = "D" -> "LEFT_ARROW"
      [] esc_state = "O" /\ c = "F" -> "END"
      [] esc_state = "BRACKET_1" /\ c = "~" -> "HOME"
      [] esc_state = "BRACKET_3" /\ c = "~" -> "DEL"
      [] OTHER -> "eaten"

EscAfter(c) ==
    IF c = "ESC" THEN "START"
    ELSE IF ~InEscape(c) \/ EscKey(c) # "eaten" THEN "OUTSIDE" ELSE EscNext(c)

\* What the switch statement gets.
Code(c) == IF InEscape(c) THEN EscKey(c) ELSE c

Received ==
    /\ incoming' = Tail(incoming)
    /\ key' = IF Tail(incoming) = <<>> THEN "none" ELSE key

\* The character at hand has the code of one of cs.
Got(cs) ==
    /\ incoming # <<>>
    /\ LET c == Translated(Head(incoming)) IN
       /\ ~IsSecondOfCrLf(Head(incoming))
       /\ Code(c) \in cs
       /\ esc_state' = EscAfter(c)
    /\ last_rx_was_cr' = (Head(incoming) = "CR")
    /\ Received

\* LF after CR.
CrLf ==
    /\ incoming # <<>> /\ IsSecondOfCrLf(Head(incoming))
    /\ last_rx_was_cr' = FALSE
    /\ Received
    /\ UNCHANGED <<bufVars, historyVars, esc_state, command>>

-----------------------------------------------------------------------------
(* console_handle_char(): the switch statement *)

\* ESC, characters an escape sequence has eaten, ^L and non-printing ones.
Ignored ==
    /\ Got({"ESC", "eaten", "^L"})
    /\ command' = IF incoming' = <<>> THEN NoLine ELSE command
    /\ UNCHANGED <<bufVars, historyVars>>

Edits == command' = NoLine /\ UNCHANGED historyVars

\* Mutant of Room: no room is left for the terminating NUL.
RoomForAll == input_len < CONFIG_CONSOLE_INPUT_LINE_SIZE

Room == input_len < CONFIG_CONSOLE_INPUT_LINE_SIZE - 1

\* A printing character.
Insert(g) ==
    /\ Got({g}) /\ Edits
    /\ IF Room
       THEN LET moved == IF input_pos = input_len THEN input_buf
                         ELSE memmove(input_buf, input_pos + 1, input_pos,
                                      input_len - input_pos + 1)
            IN /\ input_buf' = [moved EXCEPT ![input_pos] = g,
                                             ![input_len + 1] = NUL]
               /\ input_pos' = input_pos + 1
               /\ input_len' = input_len + 1
       ELSE UNCHANGED bufVars

\* handle_backspace(), with the cursor at pos.
handle_backspace(pos) ==
    IF pos = 0 THEN UNCHANGED bufVars
    ELSE /\ input_buf' = IF pos # input_len
                         THEN memmove(input_buf, pos - 1, pos, input_len - pos + 1)
                         ELSE [input_buf EXCEPT ![input_len - 1] = NUL]
         /\ input_len' = input_len - 1
         /\ input_pos' = pos - 1

Backspace == Got({"BS"}) /\ Edits /\ handle_backspace(input_pos)

\* The cursor moves right and the character it passed goes.
Del ==
    /\ Got({"DEL"}) /\ Edits
    /\ IF input_pos = input_len THEN UNCHANGED bufVars
       ELSE handle_backspace(input_pos + 1)

MoveCursor(pos) == input_pos' = pos /\ UNCHANGED <<input_buf, input_len>>

move_cursor_begin == Got({"^A", "HOME"}) /\ Edits /\ MoveCursor(0)

move_cursor_left ==
    /\ Got({"^B", "LEFT_ARROW"}) /\ Edits
    /\ MoveCursor(IF input_pos = 0 THEN 0 ELSE input_pos - 1)

move_cursor_end == Got({"^E", "END"}) /\ Edits /\ MoveCursor(input_len)

move_cursor_right ==
    /\ Got({"^F", "RIGHT_ARROW"}) /\ Edits
    /\ MoveCursor(IF input_pos = input_len THEN input_len ELSE input_pos + 1)

\* ^K.
Kill ==
    /\ Got({"^K"}) /\ Edits
    /\ input_len' = input_pos
    /\ input_buf' = IF input_pos = input_len THEN input_buf
                    ELSE [input_buf EXCEPT ![input_pos] = NUL]
    /\ input_pos' = input_pos

save_history == [history EXCEPT ![history_next] = String(input_buf)]

\* A line ends.  Parsing the command (handle_command(), split_words()) puts NULs
\* into the line, at places the words decide.
NewLine ==
    /\ Got({"LF"})
    /\ IF input_len # 0
       THEN /\ history' = save_history
            /\ history_next' = (history_next + 1) % CONFIG_CONSOLE_HISTORY
            /\ history_pos' = history_next'
       ELSE UNCHANGED historyVars
    /\ command' = String(input_buf)
    /\ \E ends \in SUBSET (1 .. input_len) :
         input_buf' = [i \in Index |-> IF i \in ends \cup {0} THEN NUL ELSE input_buf[i]]
    /\ input_len' = 0 /\ input_pos' = 0

\* Mutant of Drafted: the new line is not saved.
DraftedNever == history

\* Leaving the slot of the new line saves it there.
Drafted == IF history_pos = history_next THEN save_history ELSE history

\* load_history() of slot i.
Load(i) ==
    /\ history' = Drafted
    /\ history_pos' = i
    /\ input_buf' = strzcpy(input_buf, Drafted[i])
    /\ input_len' = Len(Drafted[i]) /\ input_pos' = input_len'
    /\ command' = NoLine
    /\ UNCHANGED history_next

Up ==
    /\ Got({"^P", "UP_ARROW"})
    /\ Load(IF history_pos = 0 THEN CONFIG_CONSOLE_HISTORY - 1 ELSE history_pos - 1)

Down ==
    /\ Got({"^N", "DOWN_ARROW"})
    /\ Load(IF history_pos + 1 = CONFIG_CONSOLE_HISTORY THEN 0 ELSE history_pos + 1)

-----------------------------------------------------------------------------

HandleChar ==
    \/ CrLf \/ Ignored \/ (\E g \in Glyphs : Insert(g)) \/ Backspace \/ Del
    \/ move_cursor_begin \/ move_cursor_left \/ move_cursor_end
    \/ move_cursor_right \/ Kill \/ NewLine \/ Up \/ Down

Next == (\E k \in Keys : Press(k)) \/ HandleChar

Spec == Init /\ [][Next]_vars

-----------------------------------------------------------------------------
(* Properties *)

\* The key, until its effect is there: before the LF of CRLF.
Unhandled == IF last_rx_was_cr /\ incoming = <<"LF">> THEN "none" ELSE key

\* The i-th command back is in the i-th slot before history_next.
SlotBack(i) == (history_next + CONFIG_CONSOLE_HISTORY - i) % CONFIG_CONSOLE_HISTORY

Depth == (history_next + CONFIG_CONSOLE_HISTORY - history_pos) % CONFIG_CONSOLE_HISTORY

BeforeCursor == SubSeq(String(input_buf), 1, input_pos)
AfterCursor == SubSeq(String(input_buf), input_pos + 1, strlen(input_buf))
Past == [i \in 1 .. CONFIG_CONSOLE_HISTORY - 1 |-> history[SlotBack(i)]]
Draft == IF Depth = 0 THEN <<>> ELSE history[history_next]

E == INSTANCE Editor WITH
    LineSize <- CONFIG_CONSOLE_INPUT_LINE_SIZE,
    History <- CONFIG_CONSOLE_HISTORY,
    NoKey <- "none",
    key <- Unhandled,
    before <- BeforeCursor,
    after <- AfterCursor,
    past <- Past,
    depth <- Depth,
    draft <- Draft

\* console_handle_char() edits the way Editor says: whatever is left behind the
\* end of the line by shorter ones, by parsing and by recalled commands never
\* shows, each key is understood once, however many characters it sends, an
\* unknown one does nothing, and every command is executed as it was typed and
\* found again History - 1 commands later.
EditorSpec == E!Spec

=============================================================================

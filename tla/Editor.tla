------------------------------- MODULE Editor -------------------------------
(***************************************************************************)
(* What the console promises to whoever types: a line with a cursor, the   *)
(* last History - 1 commands to go back to, and the line being typed kept  *)
(* meanwhile.  Every key does one thing.                                   *)
(***************************************************************************)
EXTENDS Naturals, Sequences

CONSTANTS
    LineSize,       \* a line has less than this many characters
    History,        \* this many less one commands are remembered
    Glyphs,         \* printing characters
    NoKey, NoLine

\* The keys that do something, and one for the others.
Keys == Glyphs \cup {"home", "left", "end", "right", "delete", "backspace",
                     "kill", "enter", "up", "down", "other"}

VARIABLES
    key,            \* pressed and not handled yet
    before, after,  \* the line on either side of the cursor
    past,           \* the commands, the latest first
    depth,          \* how far back in them the user is; 0: at a new line
    draft,          \* the new line, while depth is not 0
    command         \* what the last key had executed

vars == <<key, before, after, past, depth, draft, command>>

Init ==
    /\ key = NoKey
    /\ before = <<>> /\ after = <<>>
    /\ past = [i \in 1 .. History - 1 |-> <<>>]
    /\ depth = 0 /\ draft = <<>>
    /\ command = NoLine

Line == before \o after

Press ==
    /\ key = NoKey
    /\ key' \in Keys
    /\ UNCHANGED <<before, after, past, depth, draft, command>>

\* The key was k; it leaves the history alone and executes nothing.
Edit(k) == key = k /\ key' = NoKey /\ command' = NoLine /\ UNCHANGED <<past, depth, draft>>

Other == Edit("other") /\ UNCHANGED <<before, after>>

Type == \E g \in Glyphs :
    /\ Edit(g)
    /\ before' = IF Len(Line) < LineSize - 1 THEN Append(before, g) ELSE before
    /\ after' = after

Most(s) == SubSeq(s, 1, Len(s) - 1)

\* At the end of the line it has no effect; nor have the next ones there, or at
\* its beginning.
Delete == Edit("delete") /\ before' = before /\ after' = SubSeq(after, 2, Len(after))
Kill == Edit("kill") /\ before' = before /\ after' = <<>>
Backspace == Edit("backspace") /\ before' = Most(before) /\ after' = after
Home == Edit("home") /\ before' = <<>> /\ after' = Line
End == Edit("end") /\ before' = Line /\ after' = <<>>

Left ==
    /\ Edit("left")
    /\ before' = Most(before)
    /\ after' = IF before = <<>> THEN after ELSE <<before[Len(before)]>> \o after

Right ==
    /\ Edit("right")
    /\ before' = IF after = <<>> THEN before ELSE Append(before, Head(after))
    /\ after' = SubSeq(after, 2, Len(after))

\* The line is executed, and remembered unless it is empty.
Enter ==
    /\ key = "enter" /\ key' = NoKey
    /\ command' = Line
    /\ before' = <<>> /\ after' = <<>>
    /\ IF Line = <<>> THEN UNCHANGED <<past, depth, draft>>
       ELSE /\ past' = [i \in 1 .. History - 1 |-> IF i = 1 THEN Line ELSE past[i - 1]]
            /\ depth' = 0 /\ draft' = <<>>

\* To another depth: the new line is kept, what was done to an old one is not.
Recall(d) ==
    LET new == IF depth = 0 THEN Line ELSE draft IN
    /\ key' = NoKey /\ command' = NoLine
    /\ depth' = d
    /\ draft' = IF d = 0 THEN <<>> ELSE new
    /\ before' = IF d = 0 THEN new ELSE past[d]
    /\ after' = <<>>
    /\ past' = past

Up == key = "up" /\ Recall((depth + 1) % History)
Down == key = "down" /\ Recall((depth + History - 1) % History)

Next ==
    \/ Press \/ Other \/ Type \/ Delete \/ Kill \/ Backspace
    \/ Home \/ End \/ Left \/ Right \/ Enter \/ Up \/ Down

Spec == Init /\ [][Next]_vars

=============================================================================

----------------------------- MODULE InputLine -----------------------------
(***************************************************************************)
(* The line being typed in INPUT and TEXT_INPUT mode, notebook.py: a       *)
(* buffer with a caret, the walk through the command history and the draft *)
(* the walk comes back to.  A character is a token: "x" for what is not a  *)
(* blank, " " for a blank, and a whole meta-command as one token.          *)
(***************************************************************************)
EXTENDS Naturals, Sequences

\* caret: how many tokens are before it.  browse: the position in the history,
\* counted from 1, 0 is None; a walk may begin one past the newest.
Line(text) == [buffer |-> text, caret |-> Len(text), browse |-> 0, draft |-> <<>>]

Blank(text) == \A i \in 1..Len(text) : text[i] = " "

Before(line) == SubSeq(line.buffer, 1, line.caret)
After(line) == SubSeq(line.buffer, line.caret + 1, Len(line.buffer))

\* The buffer becomes before \o after with the caret between them; an edit ends
\* the walk through the history.
Edited(before, after) ==
  [buffer |-> before \o after, caret |-> Len(before), browse |-> 0, draft |-> <<>>]

insert_character(line, character) == Edited(Append(Before(line), character), After(line))

\* Each of these is a no-op when there is nothing on its side of the caret, and
\* then the walk goes on.
backspace(line) ==
  IF line.caret = 0 THEN line
  ELSE Edited(SubSeq(line.buffer, 1, line.caret - 1), After(line))

delete_forward(line) ==
  IF line.caret = Len(line.buffer) THEN line
  ELSE Edited(Before(line), Tail(After(line)))

delete_to_start(line) == IF line.caret = 0 THEN line ELSE Edited(<<>>, After(line))

delete_to_end(line) ==
  IF line.caret = Len(line.buffer) THEN line ELSE Edited(Before(line), <<>>)

\* Back over the blanks before the caret, then over the word before them.
Greatest(S) == CHOOSE n \in S : \A m \in S : m <= n
WordEnd(line) == Greatest({n \in 0..line.caret : n > 0 => line.buffer[n] # " "})
WordStart(line) == Greatest({n \in 0..WordEnd(line) : n > 0 => line.buffer[n] = " "})

delete_word_left(line) ==
  IF line.caret = 0 THEN line
  ELSE Edited(SubSeq(line.buffer, 1, WordStart(line)), After(line))

cursor_left(line) == [line EXCEPT !.caret = IF @ = 0 THEN 0 ELSE @ - 1]
cursor_right(line) == [line EXCEPT !.caret = IF @ = Len(line.buffer) THEN @ ELSE @ + 1]
cursor_home(line) == [line EXCEPT !.caret = 0]
cursor_end(line) == [line EXCEPT !.caret = Len(line.buffer)]

----------------------------------------------------------------------------
(* The history: the commands that were submitted, oldest first. *)

\* Session.record_command
record_command(history, command) ==
  IF Blank(command) THEN history
  ELSE IF history # <<>> /\ history[Len(history)] = command THEN history
  ELSE Append(history, command)

Recalled(line, history, at, draft) ==
  [buffer |-> history[at], caret |-> Len(history[at]), browse |-> at, draft |-> draft]

\* The walk starts past the newest entry, and keeps the line it started from.
CanGoBack(line, history) == history # <<>> /\ line.browse # 1

\* Mutant: every step back keeps the line it leaves.
HistoryPreviousKeepingEach(line, history) ==
  IF ~CanGoBack(line, history) THEN line
  ELSE IF line.browse = 0 THEN Recalled(line, history, Len(history), line.buffer)
  ELSE Recalled(line, history, line.browse - 1, line.buffer)

history_previous(line, history) ==
  IF ~CanGoBack(line, history) THEN line
  ELSE IF line.browse = 0 THEN Recalled(line, history, Len(history), line.buffer)
  ELSE Recalled(line, history, line.browse - 1, line.draft)

\* Past the newest entry the draft is back and the walk is over.
history_next(line, history) ==
  IF line.browse = 0 THEN line
  ELSE IF line.browse = Len(history) THEN Line(line.draft)
  ELSE Recalled(line, history, line.browse + 1, line.draft)
=============================================================================

------------------------------- MODULE Console -------------------------------
(***************************************************************************)
(* The text console of src/arch/x86/textmodevideo.c and the system log of  *)
(* src/syslog.c that writes to it.  The frame buffer is state, a cell of   *)
(* two bytes being a pair of a character and an attribute; the log writes  *)
(* one character at a time.                                                *)
(***************************************************************************)
EXTENDS Integers, Sequences

CONSTANTS
  COLUMNS, ROWS,  \* 80 and 25
  Characters,     \* what texts are written with
  ModuleWidth,    \* columns for a module's name in the log (12)
  Modules,        \* names of modules, as sequences of characters
  Messages,       \* what vsnprintf makes of the formats that are logged
  MaxRows         \* bound: rows written since the screen was cleared

Newlines == {"\n", "\r"}
NoModule == <<>>   \* pszModule is NULL

ASSUME ConsoleAssumption ==
  /\ COLUMNS \in Nat \ {0} /\ ROWS \in Nat \ {0} /\ MaxRows \in Nat
  /\ Modules \cup Messages \subseteq Seq(Characters)
  /\ ModuleWidth \in Nat /\ \A m \in Modules : Len(m) <= ModuleWidth

VARIABLES
  video,       \* the cells at g_pVideo
  nX, nY,      \* column and row
  nPos,        \* byte offset of the next cell
  nAttr,       \* colour
  cursor,      \* the cell where the hardware shows its cursor
  quiet,       \* g_bQuietMode
  pending,     \* what Syslog_Entry still has to do
  rows         \* history: the text since the screen was cleared, row by row

vars == <<video, nX, nY, nPos, nAttr, cursor, quiet, pending, rows>>

Cells == 0 .. ROWS * COLUMNS - 1
Blank == <<"", "black">>
Colours == {"black", "white", "lblue", "lpurple"}

----------------------------------------------------------------------------
(* TextModeVideo.                                                          *)

TextModeVideo_Cls ==
  /\ video' = [p \in Cells |-> Blank]
  /\ nX' = 0 /\ nY' = 0 /\ nPos' = 0 /\ cursor' = 0
  /\ rows' = << <<>> >>
  /\ UNCHANGED <<nAttr, quiet>>

TextModeVideo_ChangeColour(colour) ==
  /\ nAttr' = colour
  /\ UNCHANGED <<video, nX, nY, nPos, cursor, quiet, rows>>

Scrolled_NotCleared(screen) ==
  [p \in Cells |-> IF p + COLUMNS \in Cells THEN screen[p + COLUMNS] ELSE screen[p]]

\* The screen one line up, with a clear last line.
Scrolled(screen) ==
  [p \in Cells |-> IF p + COLUMNS \in Cells THEN screen[p + COLUMNS] ELSE Blank]

ToNewLine_CursorFirst(screen) ==
  LET last == nY + 1 = ROWS
  IN  /\ nX' = 0
      /\ nY' = IF last THEN nY ELSE nY + 1
      /\ nPos' = 2 * COLUMNS * nY'
      /\ video' = IF last THEN Scrolled(screen) ELSE screen
      /\ cursor' = COLUMNS * (nY + 1)

\* newline: the next line, or the last one again after scrolling; the hardware
\* cursor is only moved here.
ToNewLine(screen) ==
  LET last == nY + 1 = ROWS
  IN  /\ nX' = 0
      /\ nY' = IF last THEN nY ELSE nY + 1
      /\ nPos' = 2 * COLUMNS * nY'
      /\ video' = IF last THEN Scrolled(screen) ELSE screen
      /\ cursor' = COLUMNS * nY'

TextModeVideo_WriteChar_LateWrap(c) ==
  LET screen == [video EXCEPT ![nPos \div 2] = <<c, nAttr>>]
      n == Len(rows)
      text == [rows EXCEPT ![n] = Append(@, <<c, nAttr>>)]
  IN  /\ IF c \in Newlines
         THEN ToNewLine(video) /\ rows' = Append(rows, <<>>)
         ELSE IF nX >= COLUMNS
         THEN ToNewLine(screen) /\ rows' = Append(text, <<>>)
         ELSE /\ video' = screen /\ nX' = nX + 1 /\ nPos' = nPos + 2
              /\ rows' = text
              /\ UNCHANGED <<nY, cursor>>
      /\ UNCHANGED <<nAttr, quiet>>

\* A character in the last column is followed by a new line at once.
TextModeVideo_WriteChar(c) ==
  LET screen == [video EXCEPT ![nPos \div 2] = <<c, nAttr>>]
      n == Len(rows)
      text == [rows EXCEPT ![n] = Append(@, <<c, nAttr>>)]
  IN  /\ IF c \in Newlines
         THEN ToNewLine(video) /\ rows' = Append(rows, <<>>)
         ELSE IF nX + 1 >= COLUMNS
         THEN ToNewLine(screen) /\ rows' = Append(text, <<>>)
         ELSE /\ video' = screen /\ nX' = nX + 1 /\ nPos' = nPos + 2
              /\ rows' = text
              /\ UNCHANGED <<nY, cursor>>
      /\ UNCHANGED <<nAttr, quiet>>

\* Callers keep to the row they are in: nX is unsigned.
TextModeVideo_DeleteChar ==
  /\ nX > 0
  /\ nX' = nX - 1 /\ nPos' = nPos - 2
  /\ video' = [video EXCEPT ![nPos' \div 2] = <<"", nAttr>>]
  /\ rows' = [rows EXCEPT ![Len(rows)] = SubSeq(@, 1, Len(@) - 1)]
  /\ UNCHANGED <<nY, nAttr, cursor, quiet>>

----------------------------------------------------------------------------
(* Syslog_Entry.                                                           *)

Colour(c) == <<"colour", c>>
Text(s) == [k \in DOMAIN s |-> <<"char", s[k]>>]
Spaces(n) == [k \in 1 .. n |-> " "]

\* The name of the module, padded, a separator, and the message.
Entry(module, message) ==
  (IF module = NoModule THEN <<>>
   ELSE <<Colour("lblue")>> \o Text(module) \o Text(Spaces(ModuleWidth - Len(module)))
          \o <<Colour("lpurple")>> \o Text(<<" ", "-", " ">>))
  \o <<Colour("white")>> \o Text(message)

Syslog_Entry(module, message) ==
  /\ pending = <<>> /\ Len(rows) < MaxRows
  /\ pending' = IF quiet THEN <<>> ELSE Entry(module, message)
  /\ UNCHANGED <<video, nX, nY, nPos, nAttr, cursor, quiet, rows>>

Do(todo) ==
  IF todo[1] = "colour" THEN TextModeVideo_ChangeColour(todo[2])
  ELSE TextModeVideo_WriteChar(todo[2])

Output == pending # <<>> /\ Do(Head(pending)) /\ pending' = Tail(pending)

----------------------------------------------------------------------------

\* TextModeVideo_Init; Kernel_ParseParameters sets quiet.
Init ==
  /\ video = [p \in Cells |-> Blank]
  /\ nX = 0 /\ nY = 0 /\ nPos = 0 /\ cursor = 0
  /\ nAttr = "white"
  /\ quiet \in BOOLEAN
  /\ pending = <<>> /\ rows = << <<>> >>

Cls == pending = <<>> /\ TextModeVideo_Cls /\ UNCHANGED pending

DeleteChar == pending = <<>> /\ TextModeVideo_DeleteChar /\ UNCHANGED pending

Next ==
  \/ \E module \in Modules, message \in Messages : Syslog_Entry(module, message)
  \/ Output \/ Cls \/ DeleteChar

Spec == Init /\ [][Next]_vars

----------------------------------------------------------------------------
(* Properties.                                                             *)

\* The column and the row are on the screen, and the byte offset is theirs:
\* the next cell that is written lies in the frame buffer.
TypeOK ==
  /\ DOMAIN video = Cells
  /\ nX \in 0 .. COLUMNS - 1 /\ nY \in 0 .. ROWS - 1
  /\ nPos = 2 * (COLUMNS * nY + nX)
  /\ nAttr \in Colours /\ quiet \in BOOLEAN

\* Whatever was written, wrapped and deleted, the screen shows the last rows of
\* the text, each character in the colour it was written in, and nothing else.
ShowsLastRows ==
  LET top == IF Len(rows) > ROWS THEN Len(rows) - ROWS ELSE 0
  IN  \A y \in 0 .. ROWS - 1, x \in 0 .. COLUMNS - 1 :
        LET cell == video[COLUMNS * y + x]
        IN  IF top + y + 1 \in DOMAIN rows /\ x + 1 \in DOMAIN rows[top + y + 1]
            THEN cell = rows[top + y + 1][x + 1]
            ELSE cell[1] = ""

\* The hardware cursor waits on the screen, at the start of the row that is
\* being written.
CursorAtRowStart == cursor = COLUMNS * nY
==============================================================================

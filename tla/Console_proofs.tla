---------------------------- MODULE Console_proofs ----------------------------
(***************************************************************************)
(* Proofs about Console, for a screen of any size and any texts.           *)
(***************************************************************************)
EXTENDS Console, SequenceTheorems, TLAPS

\* What a cell holds, and what Syslog_Entry leaves to be done.
Chars == Characters \cup {"", " ", "-"}
Cell == Chars \X Colours
Items == ({"colour"} \X Colours) \cup ({"char"} \X Chars)

Height == 0 .. ROWS - 1
Width == 0 .. COLUMNS - 1

At(y, x) == COLUMNS * y + x

----------------------------------------------------------------------------
(* The cells of the screen.                                                *)

\* Every row and column is a cell, and no two are the same.
LEMMA CellsOfScreen ==
  ASSUME NEW y \in Height, NEW x \in Width
  PROVE  /\ At(y, x) \in Cells /\ At(y, x) \in Nat
         /\ \A y2 \in Height, x2 \in Width : At(y2, x2) = At(y, x) => y2 = y /\ x2 = x
         /\ At(y, x) + COLUMNS = At(y + 1, x)
         /\ At(y, x) + COLUMNS \in Cells <=> y + 1 \in Height
<1> USE ConsoleAssumption
<1>1. y \in Nat /\ x \in Nat /\ COLUMNS \in Nat /\ ROWS \in Nat /\ y + 1 <= ROWS /\ x < COLUMNS
  BY DEF Height, Width
<1>2. ASSUME NEW a \in Nat, NEW b \in Nat, a <= b
      PROVE  COLUMNS * a \in Nat /\ COLUMNS * b \in Nat /\ COLUMNS * a <= COLUMNS * b
             /\ COLUMNS * (a + 1) = COLUMNS * a + COLUMNS
             /\ COLUMNS * a = a * COLUMNS
  BY <1>2
<1>3. COLUMNS * (y + 1) <= ROWS * COLUMNS /\ COLUMNS * (y + 1) = COLUMNS * y + COLUMNS
      /\ COLUMNS * y \in Nat /\ ROWS * COLUMNS \in Nat
  BY <1>1, <1>2
<1>4. At(y, x) \in Cells /\ At(y, x) \in Nat /\ At(y, x) + COLUMNS = At(y + 1, x)
  BY <1>1, <1>3 DEF At, Cells
<1>5. ASSUME NEW y2 \in Height, NEW x2 \in Width, At(y2, x2) = At(y, x)
      PROVE  y2 = y /\ x2 = x
  <2>1. y2 \in Nat /\ x2 \in Nat /\ x2 < COLUMNS
    BY DEF Height, Width
  <2>2. ~(y < y2)
    <3>1. SUFFICES ASSUME y + 1 <= y2 PROVE FALSE
      BY <1>1, <2>1
    <3>2. COLUMNS * (y + 1) <= COLUMNS * y2 /\ COLUMNS * y2 \in Nat
      BY <1>1, <2>1, <1>2, <3>1
    <3> QED
      BY <1>1, <1>3, <1>5, <2>1, <3>2 DEF At
  <2>3. ~(y2 < y)
    <3>1. SUFFICES ASSUME y2 + 1 <= y PROVE FALSE
      BY <1>1, <2>1
    <3>2. COLUMNS * (y2 + 1) <= COLUMNS * y /\ COLUMNS * y2 \in Nat
          /\ COLUMNS * (y2 + 1) = COLUMNS * y2 + COLUMNS
      BY <1>1, <2>1, <1>2, <3>1
    <3> QED
      BY <1>1, <1>3, <1>5, <2>1, <3>2 DEF At
  <2>4. y2 = y
    BY <1>1, <2>1, <2>2, <2>3
  <2> QED
    BY <1>1, <1>3, <1>5, <2>1, <2>4 DEF At
<1>6. At(y, x) + COLUMNS \in Cells <=> y + 1 \in Height
  <2>1. CASE y + 1 = ROWS
    BY <1>1, <1>3, <2>1 DEF At, Cells, Height
  <2>2. CASE y + 1 < ROWS
    <3>1. COLUMNS * (y + 2) <= COLUMNS * ROWS /\ COLUMNS * ROWS = ROWS * COLUMNS
          /\ COLUMNS * (y + 2) = COLUMNS * (y + 1) + COLUMNS
      BY <1>1, <1>2, <2>2
    <3> QED
      BY <1>1, <1>3, <2>2, <3>1 DEF At, Cells, Height
  <2> QED
    BY <1>1, <2>1, <2>2
<1> QED
  BY <1>4, <1>5, <1>6

----------------------------------------------------------------------------
(* The screen and the rows of text.                                        *)

\* The row of the text that is at the top of the screen, from 0.
Top(text) == IF Len(text) > ROWS THEN Len(text) - ROWS ELSE 0

\* The row of the screen the last row of the text is on.
Bottom(text) == Len(text) - 1 - Top(text)

\* The text has a character at row y and column x of the screen.
HasChar(text, y, x) ==
  Top(text) + y + 1 \in DOMAIN text /\ x + 1 \in DOMAIN text[Top(text) + y + 1]

\* A screen shows a text.
Shows(screen, text) ==
  \A y \in Height, x \in Width :
    IF HasChar(text, y, x)
    THEN screen[At(y, x)] = text[Top(text) + y + 1][x + 1]
    ELSE screen[At(y, x)][1] = ""

\* Text in rows that fit the screen.
IsText(text) ==
  /\ text \in Seq(Seq(Cell)) /\ Len(text) \in Nat \ {0}
  /\ \A k \in DOMAIN text : Len(text[k]) <= COLUMNS

IsScreen(screen) == screen \in [Cells -> Cell]

\* The place of the last row, whatever the number of rows.
LEMMA LastRowPlace ==
  ASSUME NEW text, IsText(text)
  PROVE  /\ Top(text) \in Nat /\ Bottom(text) \in Height
         /\ Top(text) + Bottom(text) + 1 = Len(text)
         /\ DOMAIN text = 1 .. Len(text)
         /\ text[Len(text)] \in Seq(Cell)
         /\ Len(text[Len(text)]) \in Nat
         /\ DOMAIN text[Len(text)] = 1 .. Len(text[Len(text)])
<1> USE ConsoleAssumption
<1>1. text \in Seq(Seq(Cell)) /\ Len(text) \in Nat /\ Len(text) > 0
  BY DEF IsText
<1>2. DOMAIN text = 1 .. Len(text) /\ \A k \in 1 .. Len(text) : text[k] \in Seq(Cell)
  BY <1>1, LenProperties, ElementOfSeq
<1>3. text[Len(text)] \in Seq(Cell)
  BY <1>1, <1>2
<1>4. Len(text[Len(text)]) \in Nat /\ DOMAIN text[Len(text)] = 1 .. Len(text[Len(text)])
  BY <1>3, LenProperties
<1>5. ASSUME NEW n \in Nat, n > 0, n = Len(text)
      PROVE  Top(text) \in Nat /\ Bottom(text) \in Height /\ Top(text) + Bottom(text) + 1 = n
  BY <1>5 DEF Top, Bottom, Height
<1> QED
  BY <1>1, <1>2, <1>3, <1>4, <1>5

\* A row more is a row further down, or scrolled by one.
LEMMA OneRowMore ==
  ASSUME NEW text, NEW new, Len(text) \in Nat \ {0}, Len(new) = Len(text) + 1
  PROVE  IF Bottom(text) + 1 = ROWS
         THEN Top(new) = Top(text) + 1 /\ Bottom(new) = Bottom(text) /\ Bottom(text) = ROWS - 1
         ELSE /\ Top(new) = 0 /\ Top(text) = 0 /\ Bottom(new) = Bottom(text) + 1
              /\ Len(text) < ROWS
BY ConsoleAssumption DEF Top, Bottom

\* Adding an empty row: the screen moves up when its last row was in use.
LEMMA NewRow ==
  ASSUME NEW text, IsText(text), NEW new, new = Append(text, <<>>),
         NEW screen, IsScreen(screen), Shows(screen, text),
         NEW after,
         after = IF Bottom(text) + 1 = ROWS THEN Scrolled(screen) ELSE screen
  PROVE  /\ IsText(new) /\ IsScreen(after) /\ Shows(after, new)
         /\ Len(new) = Len(text) + 1 /\ new[Len(new)] = <<>>
         /\ Bottom(new) = IF Bottom(text) + 1 = ROWS THEN Bottom(text) ELSE Bottom(text) + 1
<1> USE ConsoleAssumption
<1>1. text \in Seq(Seq(Cell)) /\ <<>> \in Seq(Cell) /\ Len(text) \in Nat \ {0} /\ Len(<<>>) = 0
  BY DEF IsText
<1>2. /\ new \in Seq(Seq(Cell)) /\ Len(new) = Len(text) + 1 /\ DOMAIN new = 1 .. Len(new)
      /\ new[Len(text) + 1] = <<>> /\ \A k \in 1 .. Len(text) : new[k] = text[k]
  BY <1>1, AppendProperties
<1>3. /\ Top(text) \in Nat /\ Bottom(text) \in Height /\ DOMAIN text = 1 .. Len(text)
      /\ Top(text) + Bottom(text) + 1 = Len(text)
  BY LastRowPlace
<1>4. IsText(new)
  BY <1>1, <1>2, <1>3 DEF IsText
<1>5. IsScreen(after)
  <2>1. Blank \in Cell
    BY DEF Blank, Cell, Chars, Colours
  <2>2. Scrolled(screen) \in [Cells -> Cell]
    BY <2>1 DEF IsScreen, Scrolled
  <2> QED
    BY <2>2 DEF IsScreen
<1>6. CASE Bottom(text) + 1 = ROWS
  <2>1. Top(new) = Top(text) + 1 /\ Bottom(new) = Bottom(text) /\ Bottom(text) = ROWS - 1
    BY <1>1, <1>2, <1>6, OneRowMore
  <2>2. ASSUME NEW y \in Height, NEW x \in Width
        PROVE  IF HasChar(new, y, x)
               THEN after[At(y, x)] = new[Top(new) + y + 1][x + 1]
               ELSE after[At(y, x)][1] = ""
    <3>1. /\ At(y, x) \in Cells
          /\ At(y, x) + COLUMNS = At(y + 1, x)
          /\ At(y, x) + COLUMNS \in Cells <=> y + 1 \in Height
      BY CellsOfScreen
    <3>2. after[At(y, x)] = IF y + 1 \in Height THEN screen[At(y + 1, x)] ELSE Blank
      BY <1>6, <3>1 DEF Scrolled
    <3>3. CASE y + 1 \in Height
      <4>1. Top(new) + y + 1 = Top(text) + (y + 1) + 1 /\ y + 1 <= Bottom(text)
        BY <1>3, <2>1, <3>3 DEF Height
      <4>2. Top(new) + y + 1 \in 1 .. Len(text)
        BY <1>1, <1>3, <2>1, <4>1 DEF Height
      <4>3. new[Top(new) + y + 1] = text[Top(text) + (y + 1) + 1]
            /\ Top(new) + y + 1 \in DOMAIN new /\ Top(text) + (y + 1) + 1 \in DOMAIN text
        BY <1>2, <1>3, <4>1, <4>2
      <4>4. HasChar(new, y, x) <=> HasChar(text, y + 1, x)
        BY <4>3 DEF HasChar
      <4> QED
        BY <3>2, <3>3, <4>3, <4>4 DEF Shows
    <3>4. CASE y + 1 \notin Height
      <4>1. y = ROWS - 1
        BY <3>4 DEF Height
      <4>2. Top(new) + y + 1 = Len(new)
        BY <1>1, <1>2, <1>3, <2>1, <4>1
      <4>3. ~HasChar(new, y, x)
        BY <1>1, <1>2, <4>2 DEF HasChar
      <4>4. Blank[1] = ""
        BY DEF Blank
      <4> QED
        BY <3>2, <3>4, <4>3, <4>4
    <3> QED
      BY <3>3, <3>4
  <2>3. Shows(after, new)
    BY <2>2 DEF Shows
  <2> QED
    BY <1>2, <1>4, <1>5, <1>6, <2>1, <2>3
<1>7. CASE Bottom(text) + 1 # ROWS
  <2>1. Top(new) = 0 /\ Top(text) = 0 /\ Bottom(new) = Bottom(text) + 1 /\ after = screen
        /\ Len(text) < ROWS
    BY <1>1, <1>2, <1>7, OneRowMore
  <2>2. ASSUME NEW y \in Height, NEW x \in Width
        PROVE  HasChar(new, y, x) <=> HasChar(text, y, x)
    <3>1. y + 1 \in Nat /\ Top(new) + y + 1 = y + 1 /\ Top(text) + y + 1 = y + 1
      BY <2>1 DEF Height
    <3>2. CASE y + 1 \in 1 .. Len(text)
      BY <1>2, <1>3, <3>1, <3>2 DEF HasChar
    <3>3. CASE y + 1 = Len(new)
      BY <1>1, <1>2, <1>3, <3>1, <3>3 DEF HasChar
    <3>4. CASE y + 1 \notin 1 .. Len(text) /\ y + 1 # Len(new)
      BY <1>1, <1>2, <1>3, <3>1, <3>4 DEF HasChar
    <3> QED
      BY <3>2, <3>3, <3>4
  <2>3. ASSUME NEW y \in Height, NEW x \in Width, HasChar(text, y, x)
        PROVE  new[Top(new) + y + 1] = text[Top(text) + y + 1]
    BY <1>2, <1>3, <2>1, <2>3 DEF HasChar, Height
  <2>4. Shows(after, new)
    BY <2>1, <2>2, <2>3 DEF Shows
  <2> QED
    BY <1>2, <1>4, <1>5, <1>7, <2>1, <2>4
<1> QED
  BY <1>6, <1>7

\* The last row replaced by another.
LEMMA LastRowReplaced ==
  ASSUME NEW text, IsText(text), NEW row \in Seq(Cell), Len(row) <= COLUMNS
  PROVE  LET new == [text EXCEPT ![Len(text)] = row]
         IN  /\ IsText(new) /\ Len(new) = Len(text) /\ new[Len(text)] = row
             /\ \A k \in 1 .. Len(text) - 1 : new[k] = text[k]
<1> DEFINE new == [text EXCEPT ![Len(text)] = row]
<1>1. /\ text \in Seq(Seq(Cell)) /\ Len(text) \in Nat \ {0} /\ Len(text) \in 1 .. Len(text)
      /\ \A k \in 1 .. Len(text) : Len(text[k]) <= COLUMNS
  BY LastRowPlace DEF IsText
<1>2. /\ new \in Seq(Seq(Cell)) /\ Len(new) = Len(text)
      /\ \A k \in 1 .. Len(text) : new[k] = IF k = Len(text) THEN row ELSE text[k]
  BY <1>1, ExceptSeq
<1> HIDE DEF new
<1>3. DOMAIN new = 1 .. Len(text)
  BY <1>2, LenProperties
<1>4. \A k \in DOMAIN new : Len(new[k]) <= COLUMNS
  BY <1>1, <1>2, <1>3
<1>5. IsText(new)
  BY <1>1, <1>2, <1>4 DEF IsText
<1>6. new[Len(text)] = row
  BY <1>1, <1>2
<1>7. ASSUME NEW k \in 1 .. Len(text) - 1
      PROVE  new[k] = text[k]
  <2>1. k \in 1 .. Len(text) /\ k # Len(text)
    BY <1>1
  <2> QED
    BY <1>2, <2>1
<1> QED
  BY <1>2, <1>5, <1>6, <1>7 DEF new

\* Two texts differ in the last row at most, and there at column x at most.
DifferAt(text, new, x) ==
  LET n == Len(text)
  IN  /\ Len(new) = n
      /\ \A k \in 1 .. n - 1 : new[k] = text[k]
      /\ \A c \in Width \ {x} : /\ c + 1 \in DOMAIN new[n] <=> c + 1 \in DOMAIN text[n]
                                /\ c + 1 \in DOMAIN text[n] => new[n][c + 1] = text[n][c + 1]

\* A row has the character of the cell at column x, or none and the cell is
\* clear.
EndsWith(row, x, cell) ==
  IF x + 1 \in DOMAIN row THEN row[x + 1] = cell ELSE cell[1] = ""

\* One cell of the last row changes, in the text and on the screen.
LEMMA OneCellChanged ==
  ASSUME NEW text, IsText(text), NEW new, IsText(new),
         NEW screen, IsScreen(screen), Shows(screen, text),
         NEW cell \in Cell, NEW x \in Width,
         DifferAt(text, new, x), EndsWith(new[Len(new)], x, cell)
  PROVE  LET put == [screen EXCEPT ![At(Bottom(text), x)] = cell]
         IN  IsScreen(put) /\ Shows(put, new) /\ Bottom(new) = Bottom(text)
<1> DEFINE put == [screen EXCEPT ![At(Bottom(text), x)] = cell]
           n == Len(text)
<1>1. /\ Top(text) \in Nat /\ Bottom(text) \in Height /\ n \in Nat \ {0} /\ n \in 1 .. n
      /\ Top(text) + Bottom(text) + 1 = n /\ DOMAIN text = 1 .. n
  BY LastRowPlace DEF IsText
<1>2. Len(new) = n /\ DOMAIN new = 1 .. n
  BY LastRowPlace DEF DifferAt
<1>3. Top(new) = Top(text) /\ Bottom(new) = Bottom(text)
  BY <1>2 DEF Top, Bottom
<1>4. At(Bottom(text), x) \in Cells
  BY <1>1, CellsOfScreen
<1>5. /\ IsScreen(put) /\ put[At(Bottom(text), x)] = cell
      /\ \A p \in Cells \ {At(Bottom(text), x)} : put[p] = screen[p]
  BY <1>4 DEF IsScreen
<1> HIDE DEF put, n
<1>6. ASSUME NEW y \in Height, NEW c \in Width
      PROVE  IF HasChar(new, y, c)
             THEN put[At(y, c)] = new[Top(new) + y + 1][c + 1]
             ELSE put[At(y, c)][1] = ""
  <2>1. At(y, c) \in Cells /\ (At(Bottom(text), x) = At(y, c) => Bottom(text) = y /\ x = c)
    BY <1>1, CellsOfScreen
  <2>2. IF HasChar(text, y, c) THEN screen[At(y, c)] = text[Top(text) + y + 1][c + 1]
        ELSE screen[At(y, c)][1] = ""
    BY DEF Shows
  <2>3. CASE y = Bottom(text)
    <3>1. Top(new) + y + 1 = n /\ Top(text) + y + 1 = n
      BY <1>1, <1>3, <2>3
    <3>2. /\ HasChar(new, y, c) <=> c + 1 \in DOMAIN new[n]
          /\ HasChar(text, y, c) <=> c + 1 \in DOMAIN text[n]
      BY <1>1, <1>2, <3>1 DEF HasChar
    <3>3. CASE c = x
      BY <1>2, <1>5, <2>3, <3>1, <3>2, <3>3 DEF EndsWith
    <3>4. CASE c # x
      <4>1. put[At(y, c)] = screen[At(y, c)]
        BY <1>5, <2>1, <3>4
      <4>2. /\ c + 1 \in DOMAIN new[n] <=> c + 1 \in DOMAIN text[n]
            /\ c + 1 \in DOMAIN text[n] => new[n][c + 1] = text[n][c + 1]
        BY <3>4 DEF DifferAt, n
      <4> QED
        BY <2>2, <3>1, <3>2, <4>1, <4>2
    <3> QED
      BY <3>3, <3>4
  <2>4. CASE y # Bottom(text)
    <3>1. put[At(y, c)] = screen[At(y, c)]
      BY <1>5, <2>1, <2>4
    <3>2. Top(new) + y + 1 = Top(text) + y + 1 /\ Top(text) + y + 1 # n
      BY <1>1, <1>3, <2>4 DEF Height
    <3>3. Top(text) + y + 1 \in 1 .. n => new[Top(text) + y + 1] = text[Top(text) + y + 1]
      <4>1. \A k \in 1 .. n - 1 : new[k] = text[k]
        BY DEF DifferAt, n
      <4> QED
        BY <1>1, <3>2, <4>1 DEF Height
    <3>4. /\ HasChar(new, y, c) <=> HasChar(text, y, c)
          /\ HasChar(new, y, c) => new[Top(new) + y + 1] = text[Top(text) + y + 1]
      BY <1>1, <1>2, <3>2, <3>3 DEF HasChar
    <3> QED
      BY <2>2, <3>1, <3>4
  <2> QED
    BY <2>3, <2>4
<1>7. Shows(put, new)
  BY <1>6 DEF Shows
<1> QED
  BY <1>3, <1>5, <1>7 DEF put

\* A character put behind the last row.
LEMMA PutChar ==
  ASSUME NEW text, IsText(text), NEW screen, IsScreen(screen), Shows(screen, text),
         NEW cell \in Cell, Len(text[Len(text)]) \in Width
  PROVE  LET n == Len(text)
             x == Len(text[n])
             put == [screen EXCEPT ![At(Bottom(text), x)] = cell]
             new == [text EXCEPT ![n] = Append(text[n], cell)]
         IN  /\ IsText(new) /\ IsScreen(put) /\ Shows(put, new)
             /\ Len(new) = n /\ Len(new[n]) = x + 1 /\ Bottom(new) = Bottom(text)
<1> SUFFICES ASSUME NEW n, n = Len(text), NEW x, x = Len(text[n]), x \in Width
             PROVE  LET put == [screen EXCEPT ![At(Bottom(text), x)] = cell]
                        new == [text EXCEPT ![n] = Append(text[n], cell)]
                    IN  /\ IsText(new) /\ IsScreen(put) /\ Shows(put, new)
                        /\ Len(new) = n /\ Len(new[n]) = x + 1 /\ Bottom(new) = Bottom(text)
  OBVIOUS
<1> DEFINE row == Append(text[n], cell)
           new == [text EXCEPT ![n] = row]
<1>1. text[n] \in Seq(Cell) /\ DOMAIN text[n] = 1 .. x /\ x \in Nat /\ x < COLUMNS
  BY LastRowPlace, ConsoleAssumption DEF Width
<1>2. /\ row \in Seq(Cell) /\ Len(row) = x + 1 /\ DOMAIN row = 1 .. x + 1 /\ row[x + 1] = cell
      /\ \A k \in 1 .. x : row[k] = text[n][k]
  BY <1>1, AppendProperties
<1> HIDE DEF row
<1>3. /\ IsText(new) /\ Len(new) = Len(text) /\ new[n] = row
      /\ \A k \in 1 .. Len(text) - 1 : new[k] = text[k]
  <2>1. row \in Seq(Cell) /\ Len(row) <= COLUMNS
    BY <1>1, <1>2, ConsoleAssumption
  <2> HIDE DEF new
  <2>2. new = [text EXCEPT ![Len(text)] = row]
    BY DEF new
  <2>3. LET w == [text EXCEPT ![Len(text)] = row]
        IN  /\ IsText(w) /\ Len(w) = Len(text) /\ w[Len(text)] = row
            /\ \A k \in 1 .. Len(text) - 1 : w[k] = text[k]
    BY <2>1, LastRowReplaced
  <2> QED
    BY <2>2, <2>3
<1> HIDE DEF new
<1>4. DifferAt(text, new, x)
  BY <1>1, <1>2, <1>3 DEF Width, DifferAt
<1>5. EndsWith(new[Len(new)], x, cell)
  <2>1. new[Len(new)] = row
    BY <1>3
  <2>2. EndsWith(row, x, cell)
    <3>1. x + 1 \in 1 .. x + 1
      BY <1>1
    <3>2. x + 1 \in DOMAIN row /\ row[x + 1] = cell
      BY <1>2, <3>1
    <3> QED
      BY <3>2 DEF EndsWith
  <2> QED
    BY <2>1, <2>2
<1>6. LET put == [screen EXCEPT ![At(Bottom(text), x)] = cell]
      IN  IsScreen(put) /\ Shows(put, new) /\ Bottom(new) = Bottom(text)
  BY <1>3, <1>4, <1>5, OneCellChanged
<1> QED
  BY <1>2, <1>3, <1>6 DEF new, row

\* The last character of the last row taken back.
LEMMA TakeBackChar ==
  ASSUME NEW text, IsText(text), NEW screen, IsScreen(screen), Shows(screen, text),
         NEW attr \in Colours, NEW x \in Width, Len(text[Len(text)]) = x + 1
  PROVE  LET n == Len(text)
             put == [screen EXCEPT ![At(Bottom(text), x)] = <<"", attr>>]
             new == [text EXCEPT ![n] = SubSeq(text[n], 1, x)]
         IN  /\ IsText(new) /\ IsScreen(put) /\ Shows(put, new)
             /\ Len(new) = n /\ Len(new[n]) = x /\ Bottom(new) = Bottom(text)
<1> SUFFICES ASSUME NEW n, n = Len(text), Len(text[n]) = x + 1
             PROVE  LET put == [screen EXCEPT ![At(Bottom(text), x)] = <<"", attr>>]
                        new == [text EXCEPT ![n] = SubSeq(text[n], 1, x)]
                    IN  /\ IsText(new) /\ IsScreen(put) /\ Shows(put, new)
                        /\ Len(new) = n /\ Len(new[n]) = x /\ Bottom(new) = Bottom(text)
  OBVIOUS
<1> DEFINE row == SubSeq(text[n], 1, x)
           new == [text EXCEPT ![n] = row]
<1>1. text[n] \in Seq(Cell) /\ DOMAIN text[n] = 1 .. x + 1 /\ x \in Nat /\ x < COLUMNS
  BY LastRowPlace, ConsoleAssumption DEF Width
<1>2. row \in Seq(Cell) /\ Len(row) = x /\ DOMAIN row = 1 .. x /\ \A k \in 1 .. x : row[k] = text[n][k]
  <2>1. \A k \in 1 .. x : text[n][k] \in Cell
    BY <1>1, ElementOfSeq
  <2>2. row = [k \in 1 .. x |-> text[n][k]]
    BY <1>1
  <2>3. row \in Seq(Cell) /\ Len(row) = x
    BY <1>1, <2>1, <2>2, IsASeq
  <2> QED
    BY <2>2, <2>3
<1> HIDE DEF row
<1>3. /\ IsText(new) /\ Len(new) = Len(text) /\ new[n] = row
      /\ \A k \in 1 .. Len(text) - 1 : new[k] = text[k]
  <2>1. row \in Seq(Cell) /\ Len(row) <= COLUMNS
    BY <1>1, <1>2, ConsoleAssumption
  <2> HIDE DEF new
  <2>2. new = [text EXCEPT ![Len(text)] = row]
    BY DEF new
  <2>3. LET w == [text EXCEPT ![Len(text)] = row]
        IN  /\ IsText(w) /\ Len(w) = Len(text) /\ w[Len(text)] = row
            /\ \A k \in 1 .. Len(text) - 1 : w[k] = text[k]
    BY <2>1, LastRowReplaced
  <2> QED
    BY <2>2, <2>3
<1> HIDE DEF new
<1>4. DifferAt(text, new, x)
  BY <1>1, <1>2, <1>3 DEF Width, DifferAt
<1>5. <<"", attr>> \in Cell /\ <<"", attr>>[1] = ""
  BY DEF Cell, Chars
<1>6. EndsWith(new[Len(new)], x, <<"", attr>>)
  <2>1. new[Len(new)] = row
    BY <1>3
  <2>2. EndsWith(row, x, <<"", attr>>)
    <3>1. x + 1 \notin 1 .. x
      BY <1>1
    <3>2. x + 1 \notin DOMAIN row
      BY <1>2, <3>1
    <3> QED
      BY <1>5, <3>2 DEF EndsWith
  <2> QED
    BY <2>1, <2>2
<1>7. LET put == [screen EXCEPT ![At(Bottom(text), x)] = <<"", attr>>]
      IN  IsScreen(put) /\ Shows(put, new) /\ Bottom(new) = Bottom(text)
  BY <1>3, <1>4, <1>5, <1>6, OneCellChanged
<1> QED
  BY <1>2, <1>3, <1>7 DEF new, row

----------------------------------------------------------------------------
(* The inductive invariant.                                                *)

\* The screen shows the text, the column is the length of its last row and the
\* row is the place of that row.
OnScreen ==
  /\ IsScreen(video) /\ IsText(rows) /\ Shows(video, rows)
  /\ nX = Len(rows[Len(rows)]) /\ nX \in Width /\ nY = Bottom(rows)
  /\ nPos = 2 * At(nY, nX) /\ cursor = COLUMNS * nY

TextInv ==
  OnScreen /\ nAttr \in Colours /\ quiet \in BOOLEAN /\ pending \in Seq(Items)

\* A clear screen shows the empty text.
LEMMA ClearScreen ==
  LET screen == [p \in Cells |-> Blank]
      text == << <<>> >>
  IN  /\ IsScreen(screen) /\ IsText(text) /\ Shows(screen, text)
      /\ Len(text[Len(text)]) = 0 /\ Bottom(text) = 0
      /\ 0 \in Width /\ 0 \in Height /\ At(0, 0) = 0 /\ COLUMNS * 0 = 0
<1> USE ConsoleAssumption
<1> DEFINE screen == [p \in Cells |-> Blank]
           text == << <<>> >>
<1>1. Blank \in Cell /\ Blank[1] = ""
  BY DEF Blank, Cell, Chars, Colours
<1>2. 0 \in Width /\ 0 \in Height /\ At(0, 0) = 0 /\ COLUMNS * 0 = 0
  BY DEF Width, Height, At
<1>3. IsScreen(screen)
  BY <1>1 DEF IsScreen
<1>4. IsText(text) /\ Len(text) = 1 /\ text[1] = <<>> /\ Len(text[1]) = 0 /\ DOMAIN text = {1}
  BY DEF IsText
<1>5. Bottom(text) = 0 /\ Top(text) = 0
  BY <1>4 DEF Bottom, Top
<1>6. ASSUME NEW y \in Height, NEW x \in Width
      PROVE  ~HasChar(text, y, x) /\ screen[At(y, x)][1] = ""
  <2>1. ~HasChar(text, y, x)
    <3>1. x + 1 \notin DOMAIN <<>>
      BY DEF Width
    <3> QED
      BY <1>4, <1>5, <3>1 DEF HasChar
  <2>2. At(y, x) \in Cells
    BY CellsOfScreen
  <2> QED
    BY <1>1, <2>1, <2>2
<1> HIDE DEF screen, text
<1>7. Shows(screen, text)
  BY <1>6 DEF Shows
<1> QED
  BY <1>2, <1>3, <1>4, <1>5, <1>7 DEF screen, text

\* The first state.
LEMMA InitText == Init => TextInv
<1> SUFFICES ASSUME Init PROVE TextInv
  OBVIOUS
<1>1. OnScreen
  BY ClearScreen DEF Init, OnScreen
<1>2. pending \in Seq(Items)
  BY DEF Init
<1> QED
  BY <1>1, <1>2 DEF Init, TextInv, Colours

\* newline, from any screen that shows a text whose last row is the one that is
\* written.
LEMMA NewLineKeeps ==
  ASSUME NEW text, IsText(text), NEW screen, IsScreen(screen), Shows(screen, text),
         nY = Bottom(text), ToNewLine(screen), rows' = Append(text, <<>>)
  PROVE  OnScreen'
<1> USE ConsoleAssumption
<1> DEFINE after == IF Bottom(text) + 1 = ROWS THEN Scrolled(screen) ELSE screen
<1>1. /\ IsText(rows') /\ IsScreen(after) /\ Shows(after, rows')
      /\ Len(rows') = Len(text) + 1 /\ rows'[Len(rows')] = <<>>
      /\ Bottom(rows') = IF Bottom(text) + 1 = ROWS THEN Bottom(text) ELSE Bottom(text) + 1
  BY NewRow
<1>2. /\ nX' = 0 /\ nY' = IF nY + 1 = ROWS THEN nY ELSE nY + 1
      /\ nPos' = 2 * COLUMNS * nY' /\ video' = after /\ cursor' = COLUMNS * nY'
  BY DEF ToNewLine
<1>3. nY' = Bottom(rows') /\ nY' \in Nat
  BY <1>1, <1>2, LastRowPlace DEF Height
<1>4. nPos' = 2 * At(nY', 0) /\ 0 \in Width
  BY <1>2, <1>3 DEF At, Width
<1>5. Len(rows'[Len(rows')]) = 0
  BY <1>1
<1> HIDE DEF after
<1> QED
  BY <1>1, <1>2, <1>3, <1>4, <1>5 DEF OnScreen

\* TextModeVideo_WriteChar.
LEMMA WriteCharKeeps ==
  ASSUME OnScreen, nAttr \in Colours, NEW c \in Chars, TextModeVideo_WriteChar(c)
  PROVE  OnScreen'
<1> USE ConsoleAssumption
<1> DEFINE n == Len(rows)
           cell == <<c, nAttr>>
           screen == [video EXCEPT ![At(nY, nX)] = cell]
           text == [rows EXCEPT ![n] = Append(rows[n], cell)]
<1>1. /\ IsScreen(video) /\ IsText(rows) /\ Shows(video, rows)
      /\ nX = Len(rows[n]) /\ nX \in Width /\ nY = Bottom(rows) /\ nY \in Height
      /\ nPos = 2 * At(nY, nX) /\ cursor = COLUMNS * nY
  BY LastRowPlace DEF OnScreen
<1>2. At(nY, nX) \in Nat /\ nPos \div 2 = At(nY, nX)
  <2>1. At(nY, nX) \in Nat
    BY <1>1, CellsOfScreen
  <2> QED
    BY <1>1, <2>1
<1>3. cell \in Cell
  BY DEF Cell
<1>4. /\ IsText(text) /\ IsScreen(screen) /\ Shows(screen, text)
      /\ Len(text) = n /\ Len(text[n]) = nX + 1 /\ Bottom(text) = nY
  <2> HIDE DEF cell, text
  <2>1. LET put == [video EXCEPT ![At(Bottom(rows), Len(rows[n]))] = cell]
            new == [rows EXCEPT ![n] = Append(rows[n], cell)]
        IN  /\ IsText(new) /\ IsScreen(put) /\ Shows(put, new)
            /\ Len(new) = n /\ Len(new[n]) = Len(rows[n]) + 1 /\ Bottom(new) = Bottom(rows)
    BY <1>1, <1>3, PutChar
  <2>2. text = [rows EXCEPT ![n] = Append(rows[n], cell)]
    BY DEF text
  <2> HIDE DEF n
  <2> QED
    BY <1>1, <2>1, <2>2
<1>5. \/ c \in Newlines /\ ToNewLine(video) /\ rows' = Append(rows, <<>>)
      \/ ToNewLine(screen) /\ rows' = Append(text, <<>>)
      \/ /\ ~(nX + 1 >= COLUMNS)
         /\ video' = screen /\ nX' = nX + 1 /\ nPos' = nPos + 2
         /\ rows' = text /\ UNCHANGED <<nY, cursor>>
  BY <1>2 DEF TextModeVideo_WriteChar
<1> HIDE DEF screen, text, cell
<1>6. CASE ToNewLine(video) /\ rows' = Append(rows, <<>>)
  BY <1>1, <1>6, NewLineKeeps
<1>7. CASE ToNewLine(screen) /\ rows' = Append(text, <<>>)
  BY <1>4, <1>7, NewLineKeeps
<1>8. CASE /\ ~(nX + 1 >= COLUMNS)
           /\ video' = screen /\ nX' = nX + 1 /\ nPos' = nPos + 2
           /\ rows' = text /\ UNCHANGED <<nY, cursor>>
  <2>1. nX' \in Width /\ nX \in Nat
    BY <1>1, <1>8 DEF Width
  <2>2. nPos' = 2 * At(nY', nX')
    <3>1. COLUMNS * nY \in Nat
      BY <1>1 DEF Height
    <3> QED
      BY <1>1, <1>8, <2>1, <3>1 DEF At
  <2> QED
    BY <1>1, <1>4, <1>8, <2>1, <2>2 DEF OnScreen
<1> QED
  BY <1>5, <1>6, <1>7, <1>8

\* TextModeVideo_DeleteChar.
LEMMA DeleteCharKeeps ==
  ASSUME OnScreen, nAttr \in Colours, TextModeVideo_DeleteChar
  PROVE  OnScreen'
<1> USE ConsoleAssumption
<1> DEFINE n == Len(rows)
           x == nX - 1
           screen == [video EXCEPT ![At(nY, x)] = <<"", nAttr>>]
           text == [rows EXCEPT ![n] = SubSeq(rows[n], 1, x)]
<1>1. /\ IsScreen(video) /\ IsText(rows) /\ Shows(video, rows)
      /\ nX = Len(rows[n]) /\ nX \in Width /\ nY = Bottom(rows) /\ nY \in Height
      /\ nPos = 2 * At(nY, nX) /\ cursor = COLUMNS * nY
  BY LastRowPlace DEF OnScreen
<1>2. nX > 0 /\ x \in Width /\ Len(rows[n]) = x + 1 /\ nX \in Nat
  <2>1. nX > 0
    BY DEF TextModeVideo_DeleteChar
  <2>2. x \in Width /\ nX \in Nat /\ nX = x + 1
    <3>1. nX \in 0 .. COLUMNS - 1 /\ COLUMNS \in Nat
      BY <1>1 DEF Width
    <3> QED
      BY <2>1, <3>1 DEF Width
  <2> HIDE DEF x, n
  <2> QED
    BY <1>1, <2>1, <2>2
<1>3. nPos' = 2 * At(nY, x) /\ At(nY, x) \in Nat /\ nPos' \div 2 = At(nY, x)
  <2>1. COLUMNS * nY \in Nat /\ nPos' = nPos - 2
    <3>1. nY \in Nat /\ COLUMNS \in Nat
      BY <1>1 DEF Height
    <3>2. nPos' = nPos - 2
      BY DEF TextModeVideo_DeleteChar
    <3> QED
      BY <3>1, <3>2
  <2>2. At(nY, x) \in Nat
    BY <1>1, <1>2, CellsOfScreen
  <2>3. nPos' = 2 * At(nY, x)
    BY <1>1, <1>2, <2>1 DEF At
  <2> QED
    BY <2>2, <2>3
<1>4. /\ IsText(text) /\ IsScreen(screen) /\ Shows(screen, text)
      /\ Len(text) = n /\ Len(text[n]) = x /\ Bottom(text) = nY
  <2> HIDE DEF x, text
  <2>1. LET put == [video EXCEPT ![At(Bottom(rows), x)] = <<"", nAttr>>]
            new == [rows EXCEPT ![n] = SubSeq(rows[n], 1, x)]
        IN  /\ IsText(new) /\ IsScreen(put) /\ Shows(put, new)
            /\ Len(new) = n /\ Len(new[n]) = x /\ Bottom(new) = Bottom(rows)
    BY <1>1, <1>2, TakeBackChar
  <2>2. text = [rows EXCEPT ![n] = SubSeq(rows[n], 1, x)]
    BY DEF text
  <2> HIDE DEF n
  <2> QED
    BY <1>1, <2>1, <2>2
<1>5. /\ nX' = x /\ video' = screen /\ rows' = text /\ UNCHANGED <<nY, cursor>>
  BY <1>1, <1>3 DEF TextModeVideo_DeleteChar
<1> HIDE DEF screen, text, x
<1> QED
  BY <1>1, <1>2, <1>3, <1>4, <1>5 DEF OnScreen

----------------------------------------------------------------------------
(* Syslog_Entry and what it leaves to be done.                             *)

\* The characters of a text are items.
LEMMA TextItems ==
  ASSUME NEW text \in Seq(Chars)
  PROVE  Text(text) \in Seq(Items)
<1>1. Len(text) \in Nat /\ DOMAIN text = 1 .. Len(text)
      /\ \A k \in 1 .. Len(text) : text[k] \in Chars
  BY LenProperties, ElementOfSeq
<1>2. Text(text) = [k \in 1 .. Len(text) |-> <<"char", text[k]>>]
  BY <1>1 DEF Text
<1>3. \A k \in 1 .. Len(text) : <<"char", text[k]>> \in Items
  BY <1>1 DEF Items
<1> QED
  BY <1>1, <1>2, <1>3, IsASeq

\* An entry of the log is a sequence of items.
LEMMA EntryItems ==
  ASSUME NEW module \in Modules, NEW message \in Messages
  PROVE  Entry(module, message) \in Seq(Items)
<1> USE ConsoleAssumption
<1>1. module \in Seq(Chars) /\ message \in Seq(Chars)
  <2>1. module \in Seq(Characters) /\ message \in Seq(Characters)
    OBVIOUS
  <2>2. Characters \subseteq Chars
    BY DEF Chars
  <2> QED
    BY <2>1, <2>2
<1>2. Text(module) \in Seq(Items) /\ Text(message) \in Seq(Items)
  BY <1>1, TextItems
<1>3. Text(Spaces(ModuleWidth - Len(module))) \in Seq(Items)
  <2>1. ModuleWidth - Len(module) \in Nat
    BY <1>1, LenProperties
  <2>2. ASSUME NEW n \in Nat
        PROVE  Spaces(n) \in Seq(Chars)
    <3>1. ASSUME NEW space \in Chars
          PROVE  [k \in 1 .. n |-> space] \in Seq(Chars)
      OBVIOUS
    <3>2. " " \in Chars
      BY DEF Chars
    <3> QED
      BY <3>1, <3>2 DEF Spaces
  <2> QED
    BY <2>1, <2>2, TextItems
<1>4. Text(<<" ", "-", " ">>) \in Seq(Items)
  <2>1. " " \in Chars /\ "-" \in Chars
    BY DEF Chars
  <2>2. ASSUME NEW space \in Chars, NEW dash \in Chars
        PROVE  <<space, dash, space>> \in Seq(Chars)
    OBVIOUS
  <2>3. <<" ", "-", " ">> \in Seq(Chars)
    BY <2>1, <2>2
  <2> QED
    BY <2>3, TextItems
<1>5. \A c \in Colours : <<Colour(c)>> \in Seq(Items)
  <2>1. \A c \in Colours : Colour(c) \in Items
    BY DEF Items, Colour
  <2> QED
    BY <2>1
<1>6. /\ <<Colour("lblue")>> \in Seq(Items) /\ <<Colour("lpurple")>> \in Seq(Items)
      /\ <<Colour("white")>> \in Seq(Items)
  BY <1>5 DEF Colours
<1> DEFINE name == Text(module)
           pad == Text(Spaces(ModuleWidth - Len(module)))
           dash == Text(<<" ", "-", " ">>)
           said == Text(message)
           blue == <<Colour("lblue")>>
           purple == <<Colour("lpurple")>>
           white == <<Colour("white")>>
<1>7. Entry(module, message) =
        (IF module = NoModule THEN <<>> ELSE blue \o name \o pad \o purple \o dash) \o white \o said
  BY DEF Entry
<1> HIDE DEF name, pad, dash, said, blue, purple, white
<1>8. \A s, t \in Seq(Items) : s \o t \in Seq(Items)
  BY ConcatProperties
<1>9. /\ name \in Seq(Items) /\ pad \in Seq(Items) /\ dash \in Seq(Items) /\ said \in Seq(Items)
      /\ blue \in Seq(Items) /\ purple \in Seq(Items) /\ white \in Seq(Items)
      /\ <<>> \in Seq(Items)
  <2>1. name \in Seq(Items) /\ said \in Seq(Items)
    BY <1>2 DEF name, said
  <2>2. pad \in Seq(Items)
    BY <1>3 DEF pad
  <2>3. dash \in Seq(Items)
    BY <1>4 DEF dash
  <2>4. blue \in Seq(Items) /\ purple \in Seq(Items) /\ white \in Seq(Items)
    BY <1>6 DEF blue, purple, white
  <2> QED
    BY <2>1, <2>2, <2>3, <2>4
<1>10. blue \o name \o pad \o purple \o dash \in Seq(Items)
  BY <1>8, <1>9
<1> QED
  BY <1>7, <1>8, <1>9, <1>10

----------------------------------------------------------------------------
(* One step.                                                               *)

\* An entry is logged, or not, when the log is quiet.
LEMMA LogKeeps ==
  ASSUME TextInv, NEW module \in Modules, NEW message \in Messages,
         Syslog_Entry(module, message)
  PROVE  TextInv'
<1>1. OnScreen'
  BY DEF TextInv, Syslog_Entry, OnScreen
<1>2. pending' \in Seq(Items)
  BY EntryItems DEF Syslog_Entry
<1> QED
  BY <1>1, <1>2 DEF TextInv, Syslog_Entry

\* The next colour or character of an entry.
LEMMA OutputKeeps ==
  ASSUME TextInv, Output
  PROVE  TextInv'
<1> DEFINE todo == Head(pending)
<1>1. todo \in Items /\ pending' \in Seq(Items) /\ Do(todo)
  <2>1. pending \in Seq(Items) /\ pending # <<>> /\ pending' = Tail(pending) /\ Do(todo)
    BY DEF Output, TextInv
  <2> QED
    BY <2>1, HeadTailProperties
<1> HIDE DEF todo
<1>2. CASE todo[1] = "colour"
  <2>1. todo[2] \in Colours
    BY <1>1, <1>2 DEF Items
  <2>2. TextModeVideo_ChangeColour(todo[2])
    BY <1>1, <1>2 DEF Do
  <2>3. OnScreen'
    BY <2>2 DEF TextInv, TextModeVideo_ChangeColour, OnScreen
  <2> QED
    BY <1>1, <2>1, <2>2, <2>3 DEF TextInv, TextModeVideo_ChangeColour
<1>3. CASE todo[1] # "colour"
  <2>1. todo[2] \in Chars
    BY <1>1, <1>3 DEF Items
  <2>2. TextModeVideo_WriteChar(todo[2])
    BY <1>1, <1>3 DEF Do
  <2>3. OnScreen'
    BY <2>1, <2>2, WriteCharKeeps DEF TextInv
  <2>4. UNCHANGED <<nAttr, quiet>>
    BY <2>2 DEF TextModeVideo_WriteChar
  <2> QED
    BY <1>1, <2>3, <2>4 DEF TextInv
<1> QED
  BY <1>2, <1>3

\* TextModeVideo_Cls.
LEMMA ClsKeeps ==
  ASSUME TextInv, Cls
  PROVE  TextInv'
<1>1. OnScreen'
  BY ClearScreen DEF Cls, TextModeVideo_Cls, OnScreen
<1> QED
  BY <1>1 DEF TextInv, Cls, TextModeVideo_Cls

\* Every step keeps the inductive invariant.
LEMMA TextStep ==
  ASSUME TextInv, [Next]_vars
  PROVE  TextInv'
<1>1. CASE \E module \in Modules, message \in Messages : Syslog_Entry(module, message)
  BY <1>1, LogKeeps
<1>2. CASE Output
  BY <1>2, OutputKeeps
<1>3. CASE Cls
  BY <1>3, ClsKeeps
<1>4. CASE DeleteChar
  <2>1. OnScreen'
    BY <1>4, DeleteCharKeeps DEF TextInv, DeleteChar
  <2> QED
    BY <1>4, <2>1 DEF TextInv, DeleteChar, TextModeVideo_DeleteChar
<1>5. CASE UNCHANGED vars
  BY <1>5 DEF vars, TextInv, OnScreen
<1> QED
  BY <1>1, <1>2, <1>3, <1>4, <1>5 DEF Next

\* The inductive invariant holds throughout.
THEOREM ScreenHoldsText == Spec => []TextInv
<1>1. Init => TextInv
  BY InitText
<1>2. TextInv /\ [Next]_vars => TextInv'
  BY TextStep
<1> QED
  BY <1>1, <1>2, PTL DEF Spec

----------------------------------------------------------------------------
(* What follows.                                                           *)

\* The next cell that is written lies in the frame buffer: TextModeVideo_WriteChar
\* and newline keep nX, nY and nPos together, on a screen of any size.
THEOREM CellInFrameBuffer == Spec => []TypeOK
<1>1. TextInv => TypeOK
  <2> SUFFICES ASSUME TextInv PROVE TypeOK
    OBVIOUS
  <2>1. IsScreen(video) /\ nX \in Width /\ nPos = 2 * At(nY, nX) /\ nY \in Height
    BY LastRowPlace DEF TextInv, OnScreen
  <2> QED
    BY <2>1 DEF TypeOK, TextInv, IsScreen, Height, Width, At
<1> QED
  BY <1>1, ScreenHoldsText, PTL

\* Wrapping, scrolling and deleting lose no character of the last rows and leave
\* nothing else on the screen, for any sequence of entries.
THEOREM LastRowsShown == Spec => []ShowsLastRows
<1>1. TextInv => ShowsLastRows
  BY DEF TextInv, OnScreen, Shows, ShowsLastRows, HasChar, Top, Height, Width, At
<1> QED
  BY <1>1, ScreenHoldsText, PTL

\* newline sends the hardware the row it went to.
THEOREM CursorOnLastRow == Spec => []CursorAtRowStart
<1>1. TextInv => CursorAtRowStart
  BY DEF TextInv, OnScreen, CursorAtRowStart
<1> QED
  BY <1>1, ScreenHoldsText, PTL
=============================================================================

-------------------------- MODULE FrameBufferProofs --------------------------
(***************************************************************************)
(* Proofs about FrameBuffer, for every size of the screen, every set of    *)
(* writers and every set of texts: types, the cursor comes back to the     *)
(* screen, a single writer never leaves it, and what it writes is shown.   *)
(***************************************************************************)
EXTENDS FrameBuffer, TLAPS

Word == 0 .. (WORD - 1)
Calls == [at : Places, b : Bytes, s : Seq(Bytes), loc : Word]

\* The places from which a writer still comes to the check of fb_put_b, or to
\* fb_move_cursor, before it takes the next byte.
Pending == {"load_start", "load_column", "store_start", "erase", "check", "scroll", "home"}

\* While the cursor is behind the screen, somebody is going to bring it back.
WillReturn == cursor_pos >= SIZE => \E w \in Writers : put[w].at \in Pending

\* Without an overlap one call is under way at most, and a backspace moves to a cell
\* of the screen: the position it loads is still the one it has tested.
OneWriter == \A v, w \in Writers : put[v] # Idle /\ put[w] # Idle => v = w
BackOnScreen ==
    \A w \in Writers :
        /\ put[w].at = "load" /\ put[w].b = "backspace" => cursor_pos # 0
        /\ put[w].at = "store" /\ put[w].b = "backspace" => put[w].loc \in Cells
        /\ put[w].at = "erase" => cursor_pos \in Cells

\* What is stored on the screen can be shown.
WritesShown == \A w \in Writers : put[w].at = "write" => put[w].b \in Shown

Inv == /\ FbTypeOK
       /\ WillReturn
       /\ WritesShown
       /\ ~overlapped => OneWriter /\ BackOnScreen

-----------------------------------------------------------------------------
\* The size of the screen.
LEMMA Sizes == /\ SIZE \in Nat \ {0} /\ WORD \in Nat \ {0} /\ SIZE < WORD
               /\ SIZE + FB_NUM_COLS <= WORD
               /\ FB_NUM_COLS \in Nat \ {0}
               /\ (FB_NUM_ROWS - 1) * FB_NUM_COLS \in Cells
<1>1. /\ FB_NUM_COLS \in Nat \ {0} /\ FB_NUM_ROWS \in Nat \ {0}
      /\ WORD \in Nat /\ SIZE + FB_NUM_COLS <= WORD
  BY sizeAssumption
<1>2. (FB_NUM_ROWS - 1) * FB_NUM_COLS = SIZE - FB_NUM_COLS
  BY <1>1 DEF SIZE
<1>3. SIZE \in Nat /\ SIZE >= FB_NUM_COLS
  <2>1. (FB_NUM_ROWS - 1) * FB_NUM_COLS >= 0
    BY <1>1
  <2>2. SIZE \in Int
    BY <1>1 DEF SIZE
  <2> QED BY <1>1, <1>2, <2>1, <2>2
<1> QED BY <1>1, <1>2, <1>3 DEF Cells

\* Bytes and texts.
LEMMA BlankByte == "blank" \in Bytes /\ "blank" \in Shown /\ "tab_end" \in Bytes
BY DEF Bytes, Shown, Control

LEMMA Sequence ==
    ASSUME NEW S, NEW s \in Seq(S)
    PROVE  /\ <<>> \in Seq(S)
           /\ s # <<>> => Head(s) \in S /\ Tail(s) \in Seq(S)
           /\ \A a, b \in S : s # <<>> => <<a, a, a, a, b>> \o Tail(s) \in Seq(S)
OBVIOUS

\* The types of a writer's call.
LEMMA CallTypes ==
    ASSUME FbTypeOK, NEW w \in Writers
    PROVE  /\ put[w] \in Calls /\ put[w].at \in Places /\ put[w].b \in Bytes
           /\ put[w].s \in Seq(Bytes) /\ put[w].loc \in Word
BY DEF FbTypeOK, Calls, Word

\* The remainder of a division is a word.
LEMMA Remainder == ASSUME NEW a \in Int, NEW n \in Nat \ {0} PROVE a % n \in 0 .. (n - 1)
OBVIOUS

\* What a move of the cursor stores is a word.
LEMMA MovedType ==
    ASSUME cursor_pos \in Word, NEW b
    PROVE  Moved(b) \in Word
<1> USE Sizes DEF Word
<1>1. (cursor_pos + FB_NUM_COLS) % WORD \in Word
  BY Remainder
<1>2. (cursor_pos + 1) % WORD \in Word
  BY Remainder
<1>3. (cursor_pos - 1) % WORD \in Word
  BY Remainder
<1> QED BY <1>1, <1>2, <1>3 DEF Moved

LEMMA StartedType ==
    ASSUME NEW pos \in Word, NEW col \in Word
    PROVE  Started(pos, col) \in Word
<1>1. col % FB_NUM_COLS \in Int
  BY Sizes, Remainder DEF Word
<1>2. pos - (col % FB_NUM_COLS) \in Int
  BY <1>1 DEF Word
<1> QED BY <1>2, Sizes, Remainder DEF Started, Word

-----------------------------------------------------------------------------
(***************************************************************************)
(* A step of a writer that is in fb_write.                                 *)
(***************************************************************************)
KeepsReturn(w, c) ==
    cursor_pos' >= SIZE => \/ c.at \in Pending
                          \/ (cursor_pos' = cursor_pos /\ put[w].at \notin Pending)
KeepsPlace(c) ==
    /\ c.at = "write" => c.b \in Shown
    /\ ~overlapped => /\ c.at = "load" /\ c.b = "backspace" => cursor_pos' # 0
                      /\ c.at = "store" /\ c.b = "backspace" => c.loc \in Cells
                      /\ c.at = "erase" => cursor_pos' \in Cells

LEMMA StepKeeps ==
    ASSUME Inv, NEW w \in Writers, NEW c \in Calls, put[w] # Idle,
           put' = [put EXCEPT ![w] = c],
           screen' \in [Cells -> Shown], cursor_pos' \in Word, overlapped' = overlapped,
           KeepsReturn(w, c), KeepsPlace(c)
    PROVE  Inv'
<1> USE DEF KeepsReturn, KeepsPlace
<1>0. /\ put \in [Writers -> Calls] /\ put'[w] = c
      /\ \A v \in Writers : v # w => put'[v] = put[v]
  BY DEF Inv, FbTypeOK, Calls, Word
<1>1. FbTypeOK'
  <2>1. put' \in [Writers -> Calls]
    BY <1>0
  <2> QED BY <2>1 DEF Inv, FbTypeOK, Calls, Word
<1>2. WillReturn'
  <2>1. SUFFICES ASSUME cursor_pos' >= SIZE PROVE \E v \in Writers : put'[v].at \in Pending
    BY DEF WillReturn
  <2>2. CASE c.at \in Pending
    BY <1>0, <2>2
  <2>3. CASE cursor_pos' = cursor_pos /\ put[w].at \notin Pending
    BY <1>0, <2>1, <2>3 DEF Inv, WillReturn
  <2> QED BY <2>1, <2>2, <2>3
<1>3. ASSUME ~overlapped' PROVE OneWriter' /\ BackOnScreen'
  <2>1. OneWriter /\ BackOnScreen /\ ~overlapped
    BY <1>3 DEF Inv
  <2>2. \A v \in Writers : v # w => put'[v] = Idle
    BY <1>0, <2>1 DEF OneWriter
  <2>3. OneWriter'
    BY <2>2 DEF OneWriter
  <2>4. BackOnScreen'
    BY <1>0, <2>1, <2>2 DEF BackOnScreen, Idle, Call
  <2> QED BY <2>3, <2>4
<1>4. WritesShown'
  BY <1>0 DEF Inv, WritesShown
<1> QED BY <1>1, <1>2, <1>3, <1>4 DEF Inv

\* A byte stored at the cursor leaves a screen.
LEMMA WriteType ==
    ASSUME FbTypeOK, NEW b \in Shown, write_cell(b)
    PROVE  screen' \in [Cells -> Shown]
BY DEF FbTypeOK, write_cell

\* A writer that is somewhere is not idle.
LEMMA Busy == ASSUME NEW w \in Writers, put[w].at # "idle" PROVE put[w] # Idle
BY DEF Idle, Call

\* Without an overlap the cursor is on the screen while the only writer is outside
\* Pending.
LEMMA AloneOnScreen ==
    ASSUME Inv, ~overlapped, NEW w \in Writers, put[w] # Idle, put[w].at \notin Pending
    PROVE  cursor_pos \in Cells
<1>1. \A v \in Writers : put[v].at \notin Pending
  BY DEF Inv, OneWriter, Pending, Idle, Call
<1>2. ~(cursor_pos >= SIZE)
  BY <1>1 DEF Inv, WillReturn
<1> QED BY <1>2, Sizes DEF Inv, FbTypeOK, Cells

\* A step that changes the place of a writer only.
LEMMA GoToType ==
    ASSUME FbTypeOK, NEW w \in Writers, NEW at \in Places, GoTo(w, at)
    PROVE  \E c \in Calls : /\ put' = [put EXCEPT ![w] = c]
                           /\ c.at = at /\ c.b = put[w].b /\ c.loc = put[w].loc
<1> DEFINE c == [put[w] EXCEPT !.at = at]
<1>1. c \in Calls /\ c.at = at /\ c.b = put[w].b /\ c.loc = put[w].loc
  BY CallTypes DEF Calls
<1>2. put' = [put EXCEPT ![w] = c]
  BY DEF GoTo
<1> QED BY <1>1, <1>2

-----------------------------------------------------------------------------
\* fb_write begins.
LEMMA Write ==
    ASSUME Inv, NEW w \in Writers, NEW s \in Texts, fb_write(w, s)
    PROVE  Inv'
<1> DEFINE c == Call("put_s", s)
<1> USE DEF fb_write
<1>1. c \in Calls /\ c.at = "put_s"
  <2>1. s \in Seq(Bytes)
    BY textAssumption
  <2>2. "blank" \in Bytes
    BY BlankByte
  <2>4. 0 \in Word /\ "put_s" \in Places
    BY Sizes DEF Word, Places
  <2> QED BY <2>1, <2>2, <2>4 DEF Calls, Call
<1>2. put' = [put EXCEPT ![w] = c] /\ put \in [Writers -> Calls]
  BY DEF Inv, FbTypeOK, Calls, Word
<1> HIDE DEF c
<1>3. FbTypeOK'
  <2>1. put' \in [Writers -> Calls]
    BY <1>1, <1>2
  <2>2. overlapped' \in BOOLEAN
    BY DEF Inv, FbTypeOK
  <2> QED BY <2>1, <2>2 DEF Inv, FbTypeOK, Calls, Word
<1>4. WillReturn'
  <2>1. SUFFICES ASSUME cursor_pos >= SIZE PROVE \E v \in Writers : put'[v].at \in Pending
    BY DEF WillReturn
  <2>2. PICK v \in Writers : put[v].at \in Pending
    BY <2>1 DEF Inv, WillReturn
  <2>3. v # w
    BY <2>2 DEF Pending, Idle, Call
  <2> QED BY <1>2, <2>2, <2>3
<1>5. ASSUME ~overlapped' PROVE OneWriter' /\ BackOnScreen'
  <2>1. \A v \in Writers : put[v] = Idle
    BY <1>5
  <2>2. \A v \in Writers : v # w => put'[v] = Idle
    BY <1>2, <2>1
  <2>3. put'[w].at = "put_s"
    BY <1>1, <1>2
  <2>4. OneWriter'
    BY <2>2 DEF OneWriter
  <2>5. BackOnScreen'
    BY <2>2, <2>3 DEF BackOnScreen, Idle, Call
  <2> QED BY <2>4, <2>5
<1>6. WritesShown'
  BY <1>1, <1>2 DEF Inv, WritesShown
<1> QED BY <1>3, <1>4, <1>5, <1>6 DEF Inv

\* The next byte, or the return.
LEMMA PutS ==
    ASSUME Inv, NEW w \in Writers, fb_put_s(w)
    PROVE  Inv'
<1> DEFINE s == put[w].s
           c1 == [put[w] EXCEPT !.s = <<"blank", "blank", "blank", "blank", "tab_end">> \o Tail(s)]
           c2 == [put[w] EXCEPT !.s = Tail(s), !.b = Head(s), !.at = Place(Head(s))]
<1> USE DEF fb_put_s
<1>1. put[w] \in Calls /\ s \in Seq(Bytes) /\ put[w].at = "put_s" /\ put[w] # Idle
  BY CallTypes, Busy DEF Inv
<1>2. screen' \in [Cells -> Shown] /\ cursor_pos' \in Word /\ cursor_pos' = cursor_pos
      /\ overlapped' = overlapped
  BY DEF Inv, FbTypeOK, Word
<1>3. CASE s = <<>>
  <2>1. Idle \in Calls
    <3>1. <<>> \in Seq(Bytes) /\ "blank" \in Bytes
      BY <1>1, BlankByte, Sequence
    <3>2. 0 \in Word /\ "idle" \in Places
      BY Sizes DEF Word, Places
    <3> QED BY <3>1, <3>2 DEF Idle, Calls, Call
  <2>2. put' = [put EXCEPT ![w] = Idle] /\ Idle.at = "idle"
    BY <1>3 DEF Idle, Call
  <2>3. put[w].at \notin Pending
    BY <1>1 DEF Pending
  <2>4. KeepsReturn(w, Idle) /\ KeepsPlace(Idle)
    BY <1>2, <2>1, <2>2, <2>3 DEF KeepsReturn, KeepsPlace
  <2> QED BY <1>1, <1>2, <2>1, <2>2, <2>4, StepKeeps
<1>4. CASE s # <<>> /\ Head(s) = "tab"
  <2>1. c1 \in Calls /\ c1.at = "put_s"
    <3>1. <<"blank", "blank", "blank", "blank", "tab_end">> \o Tail(s) \in Seq(Bytes)
      BY <1>1, <1>4, BlankByte, Sequence
    <3> QED BY <1>1, <3>1 DEF Calls
  <2>2. put' = [put EXCEPT ![w] = c1]
    BY <1>4
  <2>3. put[w].at \notin Pending
    BY <1>1 DEF Pending
  <2> HIDE DEF c1
  <2>4. KeepsReturn(w, c1) /\ KeepsPlace(c1)
    BY <1>2, <2>1, <2>2, <2>3 DEF KeepsReturn, KeepsPlace
  <2> QED BY <1>1, <1>2, <2>1, <2>2, <2>4, StepKeeps
<1>5. CASE s # <<>> /\ Head(s) # "tab"
  <2>1. /\ c2 \in Calls /\ c2.at \in {"load", "test", "check", "write"}
        /\ c2.at = "write" => c2.b \in Shown
        /\ c2.at = "load" => c2.b = "newline"
    <3>1. Tail(s) \in Seq(Bytes) /\ Head(s) \in Bytes
      BY <1>1, <1>5, Sequence
    <3>2. /\ Place(Head(s)) \in {"load", "test", "check", "write"}
          /\ Place(Head(s)) = "load" => Head(s) = "newline"
      BY DEF Place
    <3>3. Place(Head(s)) \in Places
      BY <3>2 DEF Places
    <3>4. Place(Head(s)) = "write" => Head(s) \in Shown
      BY <1>5, <3>1 DEF Place, Bytes, Control
    <3> QED BY <1>1, <3>1, <3>2, <3>3, <3>4 DEF Calls
  <2>2. put' = [put EXCEPT ![w] = c2]
    BY <1>5
  <2>3. put[w].at \notin Pending
    BY <1>1 DEF Pending
  <2> HIDE DEF c2
  <2>4. KeepsReturn(w, c2) /\ KeepsPlace(c2)
    BY <1>2, <2>1, <2>2, <2>3 DEF KeepsReturn, KeepsPlace
  <2> QED BY <1>1, <1>2, <2>1, <2>2, <2>4, StepKeeps
<1> QED BY <1>3, <1>4, <1>5

\* The stores to the screen.
LEMMA PutB ==
    ASSUME Inv, NEW w \in Writers, fb_put_b(w)
    PROVE  Inv'
<1> USE DEF fb_put_b
<1>1. PICK c \in Calls : /\ put' = [put EXCEPT ![w] = c]
                        /\ c.at = "load" /\ c.b = put[w].b /\ c.loc = put[w].loc
  BY GoToType DEF Inv, Places
<1>2. screen' \in [Cells -> Shown]
  BY WriteType DEF Inv, WritesShown
<1>3. put[w] # Idle /\ put[w].at \notin Pending
  BY Busy DEF Pending
<1>4. cursor_pos' = cursor_pos /\ cursor_pos' \in Word /\ overlapped' = overlapped
  BY DEF Inv, FbTypeOK, Word
<1>5. c.b # "backspace"
  BY <1>1, textAssumption DEF Inv, WritesShown, Shown, Control
<1>9. KeepsReturn(w, c) /\ KeepsPlace(c)
  BY <1>1, <1>2, <1>3, <1>4, <1>5 DEF KeepsReturn, KeepsPlace
<1> QED BY <1>1, <1>2, <1>3, <1>4, <1>9, StepKeeps

LEMMA Erase ==
    ASSUME Inv, NEW w \in Writers, erase(w)
    PROVE  Inv'
<1> USE DEF erase
<1>1. PICK c \in Calls : /\ put' = [put EXCEPT ![w] = c]
                        /\ c.at = "check" /\ c.b = put[w].b /\ c.loc = put[w].loc
  BY GoToType DEF Inv, Places
<1>2. screen' \in [Cells -> Shown]
  BY WriteType, BlankByte DEF Inv
<1>3. put[w] # Idle /\ c.at \in Pending
  BY <1>1, Busy DEF Pending
<1>4. cursor_pos' \in Word /\ overlapped' = overlapped
  BY DEF Inv, FbTypeOK, Word
<1>9. KeepsReturn(w, c) /\ KeepsPlace(c)
  BY <1>1, <1>2, <1>3, <1>4 DEF KeepsReturn, KeepsPlace
<1> QED BY <1>1, <1>2, <1>3, <1>4, <1>9, StepKeeps

LEMMA Scroll ==
    ASSUME Inv, NEW w \in Writers, scroll(w)
    PROVE  Inv'
<1> USE DEF scroll
<1>1. PICK c \in Calls : /\ put' = [put EXCEPT ![w] = c]
                        /\ c.at = "home" /\ c.b = put[w].b /\ c.loc = put[w].loc
  BY GoToType DEF Inv, Places
<1>2. screen' \in [Cells -> Shown]
  BY BlankByte DEF Inv, FbTypeOK
<1>3. put[w] # Idle /\ c.at \in Pending
  BY <1>1, Busy DEF Pending
<1>4. cursor_pos' \in Word /\ overlapped' = overlapped
  BY DEF Inv, FbTypeOK, Word
<1>9. KeepsReturn(w, c) /\ KeepsPlace(c)
  BY <1>1, <1>2, <1>3, <1>4 DEF KeepsReturn, KeepsPlace
<1> QED BY <1>1, <1>2, <1>3, <1>4, <1>9, StepKeeps

\* The test of a backspace: alone, the position is on the screen.
LEMMA Test ==
    ASSUME Inv, NEW w \in Writers, test(w)
    PROVE  Inv'
<1> USE DEF test
<1> DEFINE at == IF cursor_pos # 0 THEN "load" ELSE "erase"
<1>1. at \in Places /\ at \notin {"store", "write"}
  BY DEF Places
<1>2. PICK c \in Calls : /\ put' = [put EXCEPT ![w] = c]
                        /\ c.at = at /\ c.b = put[w].b /\ c.loc = put[w].loc
  BY <1>1, GoToType DEF Inv
<1>3. put[w] # Idle /\ put[w].at \notin Pending
  BY Busy DEF Pending
<1>4. /\ screen' \in [Cells -> Shown] /\ cursor_pos' \in Word /\ cursor_pos' = cursor_pos
      /\ overlapped' = overlapped
  BY DEF Inv, FbTypeOK, Word
<1>5. ~overlapped => cursor_pos \in Cells
  BY <1>3, AloneOnScreen
<1>6. c.at = "load" => cursor_pos' # 0
  BY <1>2, <1>4
<1> HIDE DEF at
<1>9. KeepsReturn(w, c) /\ KeepsPlace(c)
  BY <1>1, <1>2, <1>3, <1>4, <1>5, <1>6 DEF KeepsReturn, KeepsPlace
<1> QED BY <1>2, <1>3, <1>4, <1>9, StepKeeps

\* A load of cursor_pos changes the writer's own place and copy only.
Takes(w, loc, at) == put' = [put EXCEPT ![w].loc = loc, ![w].at = at]

LEMMA LoadedType ==
    ASSUME FbTypeOK, NEW w \in Writers, NEW loc \in Word, NEW at \in Places, Takes(w, loc, at)
    PROVE  \E c \in Calls : /\ put' = [put EXCEPT ![w] = c]
                           /\ c.at = at /\ c.b = put[w].b /\ c.loc = loc
<1> DEFINE c == [put[w] EXCEPT !.loc = loc, !.at = at]
<1>1. c \in Calls /\ c.at = at /\ c.b = put[w].b /\ c.loc = loc
  BY CallTypes DEF Calls
<1>2. put \in [Writers -> Calls]
  BY DEF FbTypeOK, Calls, Word
<1>3. put' = [put EXCEPT ![w] = c]
  BY <1>2 DEF Takes
<1> QED BY <1>1, <1>3

\* Alone, a backspace finds the cursor on the screen and not at its start.
LEMMA Load ==
    ASSUME Inv, NEW w \in Writers, load(w)
    PROVE  Inv'
<1> USE DEF load
<1>1. put[w] # Idle /\ put[w].at \notin Pending
  BY Busy DEF Pending
<1>2. cursor_pos \in Word
  BY DEF Inv, FbTypeOK, Word
<1>3. PICK c \in Calls : /\ put' = [put EXCEPT ![w] = c] /\ c.at = "store"
                        /\ c.b = put[w].b /\ c.loc = Moved(put[w].b)
  <2>1. PICK loc \in Word, at \in Places :
               loc = Moved(put[w].b) /\ at = "store" /\ Takes(w, loc, at)
    BY <1>2, MovedType DEF Takes, Places
  <2> HIDE DEF load
  <2>2. PICK c \in Calls : /\ put' = [put EXCEPT ![w] = c] /\ c.at = at
                         /\ c.b = put[w].b /\ c.loc = loc
    BY <2>1, LoadedType DEF Inv
  <2> QED BY <2>1, <2>2
<1>4. /\ screen' \in [Cells -> Shown] /\ cursor_pos' \in Word /\ cursor_pos' = cursor_pos
      /\ overlapped' = overlapped
  BY <1>2 DEF Inv, FbTypeOK
<1>5. ASSUME ~overlapped, c.b = "backspace" PROVE c.loc \in Cells
  <2>1. cursor_pos \in Cells
    BY <1>1, <1>5, AloneOnScreen
  <2>2. cursor_pos # 0
    BY <1>3, <1>5 DEF Inv, BackOnScreen
  <2>3. c.loc = (cursor_pos - 1) % WORD
    BY <1>3, <1>5 DEF Moved
  <2>4. cursor_pos - 1 \in 0 .. (WORD - 1) /\ cursor_pos - 1 \in Cells
    BY <2>1, <2>2, Sizes DEF Cells
  <2>5. (cursor_pos - 1) % WORD = cursor_pos - 1
    BY <2>4, Sizes
  <2> QED BY <2>3, <2>4, <2>5
<1>9. KeepsReturn(w, c) /\ KeepsPlace(c)
  BY <1>1, <1>3, <1>4, <1>5 DEF KeepsReturn, KeepsPlace
<1> QED BY <1>1, <1>3, <1>4, <1>9, StepKeeps

\* The two loads of move_cursor_start stay in Pending.
LEMMA LoadStart ==
    ASSUME Inv, NEW w \in Writers, load_start(w) \/ load_column(w)
    PROVE  Inv'
<1>1. PICK loc \in Word, at \in {"load_column", "store_start"} :
            Takes(w, loc, at)
  <2>1. cursor_pos \in Word /\ put[w].loc \in Word
    BY CallTypes DEF Inv, FbTypeOK, Word
  <2>2. CASE load_start(w)
    BY <2>1, <2>2 DEF load_start, Takes
  <2>3. CASE load_column(w)
    BY <2>1, <2>3, StartedType DEF load_column, Takes
  <2> QED BY <2>2, <2>3
<1>2. put[w] # Idle
  BY Busy DEF load_start, load_column
<1>3. PICK c \in Calls : put' = [put EXCEPT ![w] = c] /\ c.at = at
  BY <1>1, LoadedType DEF Inv, Places
<1>4. screen' \in [Cells -> Shown] /\ cursor_pos' \in Word /\ overlapped' = overlapped
  BY DEF load_start, load_column, Inv, FbTypeOK, Word
<1>9. KeepsReturn(w, c) /\ KeepsPlace(c)
  BY <1>1, <1>3, <1>4 DEF KeepsReturn, KeepsPlace, Pending
<1> QED BY <1>2, <1>3, <1>4, <1>9, StepKeeps

\* The store to cursor_pos: the writer goes on to a place in Pending.
LEMMA Store ==
    ASSUME Inv, NEW w \in Writers, store(w)
    PROVE  Inv'
<1> USE DEF store
<1> DEFINE at == IF put[w].at = "store_start" THEN "check"
                 ELSE IF put[w].b = "newline" THEN "load_start"
                 ELSE IF put[w].b = "backspace" THEN "erase" ELSE "check"
<1>1. at \in Places /\ at \in Pending /\ at \notin {"load", "store", "write"}
  BY DEF Places, Pending
<1>2. PICK c \in Calls : /\ put' = [put EXCEPT ![w] = c]
                        /\ c.at = at /\ c.b = put[w].b /\ c.loc = put[w].loc
  BY <1>1, GoToType DEF Inv
<1>3. screen' \in [Cells -> Shown] /\ overlapped' = overlapped /\ put[w] # Idle
  BY Busy DEF Inv, FbTypeOK
<1>4. cursor_pos' \in Word /\ cursor_pos' = put[w].loc
  BY CallTypes DEF Inv
<1>5. ASSUME ~overlapped, c.at = "erase" PROVE cursor_pos' \in Cells
  <2>1. put[w].at = "store" /\ put[w].b = "backspace"
    BY <1>2, <1>5
  <2> QED BY <1>4, <1>5, <2>1 DEF Inv, BackOnScreen
<1> HIDE DEF at
<1>9. KeepsReturn(w, c) /\ KeepsPlace(c)
  BY <1>1, <1>2, <1>3, <1>4, <1>5 DEF KeepsReturn, KeepsPlace
<1> QED BY <1>1, <1>2, <1>3, <1>4, <1>5, <1>9, StepKeeps

\* The check: a writer leaves Pending when the cursor is on the screen.
LEMMA Check ==
    ASSUME Inv, NEW w \in Writers, check(w)
    PROVE  Inv'
<1> USE DEF check
<1> DEFINE at == IF cursor_pos < SIZE THEN "put_s" ELSE "scroll"
<1>1. at \in Places /\ at \notin {"load", "store", "erase", "write"}
  BY DEF Places
<1>2. PICK c \in Calls : /\ put' = [put EXCEPT ![w] = c]
                        /\ c.at = at /\ c.b = put[w].b /\ c.loc = put[w].loc
  BY <1>1, GoToType DEF Inv
<1>3. screen' \in [Cells -> Shown] /\ overlapped' = overlapped /\ put[w] # Idle
  BY Busy DEF Inv, FbTypeOK
<1>4. cursor_pos' \in Word /\ cursor_pos' = cursor_pos
  BY DEF Inv, FbTypeOK, Word
<1>5. cursor_pos' >= SIZE => c.at \in Pending
  BY <1>2, <1>4, Sizes DEF Pending, Word
<1> HIDE DEF at
<1>9. KeepsReturn(w, c) /\ KeepsPlace(c)
  BY <1>1, <1>2, <1>3, <1>4, <1>5 DEF KeepsReturn, KeepsPlace
<1> QED BY <1>1, <1>2, <1>3, <1>4, <1>5, <1>9, StepKeeps

\* The cursor is put into the last row.
LEMMA MoveCursor ==
    ASSUME Inv, NEW w \in Writers, fb_move_cursor(w)
    PROVE  Inv'
<1> USE DEF fb_move_cursor
<1>1. PICK c \in Calls : /\ put' = [put EXCEPT ![w] = c]
                        /\ c.at = "put_s" /\ c.b = put[w].b /\ c.loc = put[w].loc
  BY GoToType DEF Inv, Places
<1>2. screen' \in [Cells -> Shown] /\ overlapped' = overlapped /\ put[w] # Idle
  BY Busy DEF Inv, FbTypeOK
<1>3. cursor_pos' \in Cells
  BY Sizes
<1>4. cursor_pos' \in Word /\ ~(cursor_pos' >= SIZE)
  BY <1>3, Sizes DEF Cells, Word
<1>9. KeepsReturn(w, c) /\ KeepsPlace(c)
  BY <1>1, <1>2, <1>4 DEF KeepsReturn, KeepsPlace
<1> QED BY <1>1, <1>2, <1>4, <1>9, StepKeeps

-----------------------------------------------------------------------------
\* The invariant holds in every state.
LEMMA Invariance == FbSpec => []Inv
<1>1. FbInit => Inv
  <2> SUFFICES ASSUME FbInit PROVE Inv
    OBVIOUS
  <2> USE DEF FbInit, fb_clear
  <2>1. Idle \in Calls
    <3>1. <<>> \in Seq(Bytes)
      OBVIOUS
    <3>2. 0 \in Word /\ "idle" \in Places /\ "blank" \in Bytes
      BY Sizes, BlankByte DEF Word, Places
    <3> QED BY <3>1, <3>2 DEF Idle, Call, Calls
  <2>2. FbTypeOK
    <3>1. put \in [Writers -> Calls] /\ screen \in [Cells -> Shown]
      BY <2>1, BlankByte
    <3>2. cursor_pos \in 0 .. (WORD - 1)
      BY Sizes
    <3> QED BY <3>1, <3>2 DEF FbTypeOK, Calls, Word
  <2>3. WillReturn
    BY Sizes DEF WillReturn
  <2>4. \A w \in Writers : put[w] = Idle /\ put[w].at = "idle"
    BY DEF Idle, Call
  <2>5. OneWriter /\ BackOnScreen /\ WritesShown
    BY <2>4 DEF OneWriter, BackOnScreen, WritesShown
  <2> QED BY <2>2, <2>3, <2>5 DEF Inv
<1>2. Inv /\ [FbNext]_fb_vars => Inv'
  <2> SUFFICES ASSUME Inv, [FbNext]_fb_vars PROVE Inv'
    OBVIOUS
  <2>1. CASE UNCHANGED fb_vars
    BY <2>1 DEF Inv, FbTypeOK, WillReturn, OneWriter, BackOnScreen, WritesShown, fb_vars
  <2>2. ASSUME NEW w \in Writers, NEW s \in Texts, fb_write(w, s) PROVE Inv'
    BY <2>2, Write
  <2>3. ASSUME NEW w \in Writers, Step(w) PROVE Inv'
    BY <2>3, PutS, PutB, Test, Load, LoadStart, Store, Erase, Check, Scroll, MoveCursor DEF Step
  <2> QED BY <2>1, <2>2, <2>3 DEF FbNext
<1> QED BY <1>1, <1>2, PTL DEF FbSpec

\* The variables of fb.c keep their types, whatever writers do to each other.
THEOREM FbTypeCorrectness == FbSpec => []FbTypeOK
<1>1. Inv => FbTypeOK
  BY DEF Inv
<1> QED BY <1>1, Invariance, PTL

\* The cursor is on the screen whenever no byte is under way.
THEOREM CursorReturns == FbSpec => []CursorOnScreen
<1>1. Inv => CursorOnScreen
  <2> SUFFICES ASSUME Inv, \A w \in Writers : put[w].at \in {"idle", "put_s"}
               PROVE  cursor_pos \in Cells
    BY DEF CursorOnScreen
  <2>1. ~(cursor_pos >= SIZE)
    BY DEF Inv, WillReturn, Pending
  <2> QED BY <2>1, Sizes DEF Inv, FbTypeOK, Cells
<1> QED BY <1>1, Invariance, PTL

\* A writer that is alone never writes behind the screen.
THEOREM WritesOnScreen == FbSpec => []NoStrayWrite
<1>1. Inv => NoStrayWrite
  <2> SUFFICES ASSUME Inv, ~overlapped, NEW w \in Writers, put[w].at \in {"write", "erase"}
               PROVE  cursor_pos \in Cells
    BY DEF NoStrayWrite
  <2>1. CASE put[w].at = "write"
    <3>1. put[w] # Idle /\ put[w].at \notin Pending
      BY <2>1, Busy DEF Pending
    <3> QED BY <3>1, AloneOnScreen
  <2>2. CASE put[w].at = "erase"
    BY <2>2 DEF Inv, BackOnScreen
  <2> QED BY <2>1, <2>2
<1> QED BY <1>1, Invariance, PTL

-----------------------------------------------------------------------------
(***************************************************************************)
(* What the screen shows.  Until writers overlap, the screen follows from  *)
(* the paper and from the place of the one writer in the byte b that it is *)
(* putting.                                                                *)
(***************************************************************************)
Papers == {p \in [text : Seq(Shown), pos : Nat] :
             \E k \in Nat : /\ Len(p.text) = SIZE + k * FB_NUM_COLS
                            /\ k * FB_NUM_COLS <= p.pos /\ p.pos < Len(p.text)}

Top(p) == Len(p.text) - SIZE
Spot(p) == p.pos - Top(p)
Image(p) == [c \in Cells |-> p.text[Top(p) + c + 1]]

\* Where b takes a cursor at x, and what it does to the cells before the screen scrolls.
Target(b, x) == CASE b = "newline"   -> (x \div FB_NUM_COLS + 1) * FB_NUM_COLS
                  [] b = "backspace" -> IF x > 0 THEN x - 1 ELSE 0
                  [] b = "tab_end"   -> x
                  [] OTHER           -> x + 1
Edited(p, b) == CASE b \in {"newline", "tab_end"} -> Image(p)
                  [] b = "backspace" -> [Image(p) EXCEPT ![Target(b, Spot(p))] = "blank"]
                  [] OTHER           -> [Image(p) EXCEPT ![Spot(p)] = b]
Lifted(image) == [c \in Cells |-> IF c + FB_NUM_COLS \in Cells THEN image[c + FB_NUM_COLS]
                                  ELSE "blank"]

\* The screen scr and the cursor cur of a writer that is in call.
ScreenAt(call, p, scr) ==
    /\ call.at \in {"idle", "put_s", "write", "test", "load_start", "load_column", "store_start",
                   "erase"} => scr = Image(p)
    /\ call.at \in {"load", "store"} => scr = IF call.b \in Shown THEN Edited(p, call.b) ELSE Image(p)
    /\ call.at \in {"check", "scroll"} => scr = Edited(p, call.b)
    /\ call.at = "home" => scr = Lifted(Edited(p, call.b))
CursorAt(call, p, cur) ==
    /\ call.at \in {"idle", "put_s", "write", "test", "load", "store"} => cur = Spot(p)
    /\ call.at \in {"load_start", "load_column", "store_start"} => cur = Spot(p) + FB_NUM_COLS
    /\ call.at \in {"erase", "check", "scroll"} => cur = Target(call.b, Spot(p))
    /\ call.at \in {"scroll", "home"} => Target(call.b, Spot(p)) = SIZE
LoadedAt(call, p) ==
    /\ call.at = "store" => call.loc = IF call.b = "newline" THEN Spot(p) + FB_NUM_COLS
                                       ELSE Target(call.b, Spot(p))
    /\ call.at = "load_column" => call.loc = Spot(p) + FB_NUM_COLS
    /\ call.at = "store_start" => call.loc = Target("newline", Spot(p))
ByteAt(call) ==
    /\ call.b \in Bytes \ {"tab"}
    /\ call.at = "write" => call.b \in Shown
    /\ call.at \in {"load", "store"} => call.b # "tab_end"
    /\ call.at \in {"load_start", "load_column", "store_start"} => call.b = "newline"
    /\ call.at \in {"test", "erase"} => call.b = "backspace"
Shows(call, p, scr, cur) ==
    ScreenAt(call, p, scr) /\ CursorAt(call, p, cur) /\ LoadedAt(call, p) /\ ByteAt(call)

TextInv ==
    /\ paper \in Papers
    /\ ~overlapped => /\ \A w \in Writers : put[w] # Idle => Shows(put[w], paper, screen, cursor_pos)
                      /\ (\A w \in Writers : put[w] = Idle) => Shows(Idle, paper, screen, cursor_pos)

-----------------------------------------------------------------------------
(***************************************************************************)
(* Rows.                                                                   *)
(***************************************************************************)
\* A number is a row and a column, and only one of each.
LEMMA RowColumn ==
    ASSUME NEW x \in Nat, NEW n \in Nat \ {0}
    PROVE  \E q \in Nat, r \in 0 .. (n - 1) : x = q * n + r
<1> DEFINE q == x \div n
<1>1. q \in Nat
  OBVIOUS
<1>2. x - n * q = x % n /\ x % n \in 0 .. (n - 1)
  <2>1. q \in Int /\ q = x \div n
    BY <1>1
  <2> HIDE DEF q
  <2> QED BY <2>1
<1> HIDE DEF q
<1>3. PICK r \in 0 .. (n - 1) : x - n * q = r
  BY <1>2
<1>4. x = q * n + r
  BY <1>1, <1>3
<1> QED BY <1>1, <1>4

LEMMA RowOf ==
    ASSUME NEW q \in Nat, NEW n \in Nat \ {0}, NEW r \in 0 .. (n - 1)
    PROVE  (q * n + r) \div n = q /\ (q * n + r) % n = r
OBVIOUS

\* The start of the row below that of x, by which move_cursor_down and move_cursor_start
\* together move, does not depend on how far the paper is scrolled.
LEMMA NextRow ==
    ASSUME NEW x \in Cells, NEW k \in Nat
    PROVE  LET n == FB_NUM_COLS IN
           /\ (x + k * n) \div n + 1 \in Nat
           /\ ((x + k * n) \div n + 1) * n = Target("newline", x) + k * n
           /\ (x + n) - ((x + n) % n) = Target("newline", x)
           /\ Target("newline", x) \in Nat
           /\ x < Target("newline", x) /\ Target("newline", x) <= SIZE
<1> DEFINE n == FB_NUM_COLS
<1>0. n \in Nat \ {0} /\ FB_NUM_ROWS \in Nat /\ SIZE = FB_NUM_ROWS * n /\ x \in Nat /\ x < SIZE
  BY Sizes, sizeAssumption DEF SIZE, Cells
<1>1. PICK q \in Nat, r \in 0 .. (n - 1) : x = q * n + r
  BY <1>0, RowColumn
<1>2. x \div n = q
  BY <1>0, <1>1, RowOf
<1>3. Target("newline", x) = (q + 1) * n
  BY <1>2 DEF Target
<1> HIDE DEF n
<1>4. x + k * n = (q + k) * n + r /\ q + k \in Nat
  BY <1>0, <1>1
<1>5. (x + k * n) \div n = q + k
  <2>1. ((q + k) * n + r) \div n = q + k
    BY <1>0, <1>1, <1>4, RowOf
  <2> QED BY <1>4, <2>1
<1>6. ((x + k * n) \div n + 1) * n = (q + 1) * n + k * n
  <2>1. (q + k + 1) * n = (q + 1) * n + k * n
    BY <1>0, <1>1
  <2> QED BY <1>5, <2>1
<1>7. (x + n) % n = r
  <2>1. x + n = (q + 1) * n + r /\ q + 1 \in Nat
    BY <1>0, <1>1
  <2> QED BY <1>0, <1>1, <2>1, RowOf
<1>8. (x + n) - r = (q + 1) * n
  BY <1>0, <1>1
<1>9. q + 1 <= FB_NUM_ROWS
  <2>1. SUFFICES ASSUME q >= FB_NUM_ROWS PROVE FALSE
    BY <1>0
  <2>2. q * n >= FB_NUM_ROWS * n
    BY <1>0, <2>1
  <2> QED BY <1>0, <1>1, <2>2
<1>10. (q + 1) * n <= FB_NUM_ROWS * n
  BY <1>0, <1>9
<1>11. (q + 1) * n \in Nat /\ x < (q + 1) * n
  BY <1>0, <1>1
<1> QED BY <1>0, <1>3, <1>4, <1>5, <1>6, <1>7, <1>8, <1>10, <1>11 DEF n

-----------------------------------------------------------------------------
(***************************************************************************)
(* The paper.                                                              *)
(***************************************************************************)
LEMMA PaperFacts ==
    ASSUME NEW p \in Papers
    PROVE  /\ p \in [text : Seq(Shown), pos : Nat] /\ p = [text |-> p.text, pos |-> p.pos]
           /\ Top(p) \in Nat /\ Len(p.text) = Top(p) + SIZE /\ Len(p.text) \in Nat
           /\ Spot(p) \in Cells /\ p.pos = Top(p) + Spot(p)
           /\ \E k \in Nat : Top(p) = k * FB_NUM_COLS
<1>1. /\ p \in [text : Seq(Shown), pos : Nat] /\ Len(p.text) \in Nat
      /\ p = [text |-> p.text, pos |-> p.pos]
  BY DEF Papers
<1>2. PICK k \in Nat : /\ Len(p.text) = SIZE + k * FB_NUM_COLS
                      /\ k * FB_NUM_COLS <= p.pos /\ p.pos < Len(p.text)
  BY DEF Papers
<1>3. k * FB_NUM_COLS \in Nat
  BY Sizes
<1>4. Top(p) = k * FB_NUM_COLS
  BY <1>2, <1>3, Sizes DEF Top
<1> QED BY <1>1, <1>2, <1>3, <1>4, Sizes DEF Spot, Cells

\* A cell of text is replaced.
LEMMA Replaced ==
    ASSUME NEW s \in Seq(Shown), NEW i \in 1 .. Len(s), NEW b \in Shown
    PROVE  /\ [s EXCEPT ![i] = b] \in Seq(Shown) /\ Len([s EXCEPT ![i] = b]) = Len(s)
           /\ \A j \in 1 .. Len(s) : [s EXCEPT ![i] = b][j] = IF j = i THEN b ELSE s[j]
OBVIOUS

\* The cell of the paper at x of the screen is replaced.
LEMMA ReplacedImage ==
    ASSUME NEW p \in Papers, NEW x \in Cells, NEW b \in Shown,
           NEW q, q.text = [p.text EXCEPT ![Top(p) + x + 1] = b]
    PROVE  /\ q.text \in Seq(Shown) /\ Len(q.text) = Len(p.text)
           /\ Top(q) = Top(p) /\ Image(q) = [Image(p) EXCEPT ![x] = b]
<1> DEFINE t == Top(p)
<1>0. t \in Nat /\ Len(p.text) = t + SIZE /\ p.text \in Seq(Shown) /\ SIZE \in Nat
  BY PaperFacts, Sizes
<1>1. t + x + 1 \in 1 .. Len(p.text) /\ x \in Nat
  BY <1>0 DEF Cells
<1>2. q.text = [p.text EXCEPT ![t + x + 1] = b]
  OBVIOUS
<1>3. /\ q.text \in Seq(Shown) /\ Len(q.text) = Len(p.text)
      /\ \A j \in 1 .. Len(p.text) : q.text[j] = IF j = t + x + 1 THEN b ELSE p.text[j]
  BY <1>0, <1>1, <1>2, Replaced
<1>4. Top(q) = t
  BY <1>3 DEF Top
<1> HIDE DEF t
<1>5. \A c \in Cells : /\ t + c + 1 \in 1 .. Len(p.text)
                       /\ (t + c + 1 = t + x + 1) <=> (c = x)
  BY <1>0, <1>1 DEF Cells
<1>6. \A c \in Cells : q.text[t + c + 1] = IF c = x THEN b ELSE p.text[t + c + 1]
  BY <1>3, <1>5
<1>7. Image(p) = [c \in Cells |-> p.text[t + c + 1]] /\ Image(q) = [c \in Cells |-> q.text[t + c + 1]]
  BY <1>4 DEF Image, t
<1>8. Image(q) = [Image(p) EXCEPT ![x] = b]
  BY <1>6, <1>7
<1> QED BY <1>2, <1>3, <1>4, <1>8 DEF t

\* Blank rows.
LEMMA Blanks ==
    ASSUME NEW n \in Nat
    PROVE  /\ Blank(n) \in Seq(Shown) /\ Len(Blank(n)) = n
           /\ \A i \in 1 .. n : Blank(n)[i] = "blank"
BY BlankByte DEF Blank

\* A row is added when the cursor has left the last one: this is what scrolling shows.
LEMMA GrownShows ==
    ASSUME NEW q \in [text : Seq(Shown), pos : Nat], NEW k \in Nat,
           Len(q.text) = SIZE + k * FB_NUM_COLS,
           k * FB_NUM_COLS <= q.pos, q.pos <= Len(q.text)
    PROVE  /\ Grown(q) \in Papers
           /\ Spot(q) < SIZE => Grown(q) = q
           /\ Spot(q) = SIZE => /\ Image(Grown(q)) = Lifted(Image(q))
                                /\ Spot(Grown(q)) = (FB_NUM_ROWS - 1) * FB_NUM_COLS
<1> DEFINE n == FB_NUM_COLS
           t == k * n
           g == [text |-> q.text \o Blank(n), pos |-> q.pos]
<1>0. n \in Nat \ {0} /\ SIZE \in Nat /\ t \in Nat /\ q.text \in Seq(Shown) /\ q.pos \in Nat
      /\ Len(q.text) = SIZE + t /\ n <= SIZE
  <2>1. (FB_NUM_ROWS - 1) * FB_NUM_COLS = SIZE - FB_NUM_COLS
    BY sizeAssumption DEF SIZE
  <2> QED BY Sizes, <2>1 DEF Cells
<1>1. Top(q) = t /\ Spot(q) = q.pos - t
  BY <1>0 DEF Top, Spot
<1>2. CASE q.pos < Len(q.text)
  <2>1. Grown(q) = q
    BY <1>2 DEF Grown
  <2>2. q \in Papers
    BY <1>2 DEF Papers
  <2>3. Spot(q) # SIZE
    BY <1>0, <1>1, <1>2
  <2> QED BY <2>1, <2>2, <2>3
<1>3. CASE ~(q.pos < Len(q.text))
  <2>1. Grown(q) = g /\ q.pos = Len(q.text)
    <3>1. q.pos = Len(q.text)
      BY <1>0, <1>3
    <3>2. Grown(q) = [q EXCEPT !.text = @ \o Blank(n)]
      BY <1>3 DEF Grown
    <3>3. [q EXCEPT !.text = @ \o Blank(n)] = g
      <4> DEFINE z == q.text \o Blank(n)
      <4> HIDE DEF z
      <4>1. [q EXCEPT !.text = z] = [text |-> z, pos |-> q.pos]
        OBVIOUS
      <4> QED BY <4>1 DEF z
    <3> QED BY <3>1, <3>2, <3>3
  <2>2. g.text = q.text \o Blank(n) /\ g.pos = q.pos /\ g = [text |-> g.text, pos |-> g.pos]
    BY Zenon
  <2> HIDE DEF g
  <2>3. /\ g.text \in Seq(Shown) /\ Len(g.text) = SIZE + t + n
        /\ \A i \in 1 .. Len(g.text) : g.text[i] = IF i <= Len(q.text) THEN q.text[i] ELSE "blank"
    <3>1. Blank(n) \in Seq(Shown) /\ Len(Blank(n)) = n /\ \A i \in 1 .. n : Blank(n)[i] = "blank"
      BY <1>0, Blanks
    <3> DEFINE z == Blank(n)
    <3> HIDE DEF z, n, t
    <3>2. g.text \in Seq(Shown) /\ Len(g.text) = SIZE + t + n
      BY <1>0, <2>2, <3>1 DEF z
    <3>3. ASSUME NEW i \in 1 .. Len(g.text)
          PROVE  g.text[i] = IF i <= Len(q.text) THEN q.text[i] ELSE "blank"
      <4>1. CASE i <= Len(q.text)
        BY <1>0, <2>2, <3>1, <3>2, <4>1 DEF z
      <4>2. CASE ~(i <= Len(q.text))
        <5>1. i - Len(q.text) \in 1 .. n /\ i \in Nat /\ Len(q.text) \in Nat
          BY <1>0, <3>2, <4>2
        <5>2. (q.text \o z)[i] = z[i - Len(q.text)]
          BY <1>0, <3>1, <3>2, <4>2, <5>1 DEF z
        <5> QED BY <2>2, <3>1, <4>2, <5>1, <5>2 DEF z
      <4> QED BY <4>1, <4>2
    <3> QED BY <3>2, <3>3
  <2>4. (k + 1) * n = t + n /\ k + 1 \in Nat
    BY <1>0
  <2>5. g \in [text : Seq(Shown), pos : Nat]
    BY <1>0, <2>2, <2>3
  <2> HIDE DEF t
  <2>6. /\ Len(g.text) = SIZE + (k + 1) * n
        /\ (k + 1) * n <= g.pos /\ g.pos < Len(g.text)
    <3>1. g.pos = SIZE + t /\ Len(g.text) = SIZE + t + n
      BY <1>0, <2>1, <2>2, <2>3
    <3>2. t + n <= g.pos /\ g.pos < Len(g.text) /\ Len(g.text) = SIZE + (t + n)
      BY <1>0, <3>1
    <3> QED BY <2>4, <3>2
  <2>7. g \in Papers
    BY <2>4, <2>5, <2>6 DEF Papers
  <2>8. Top(g) = t + n /\ Spot(g) = SIZE - n
    BY <1>0, <2>1, <2>2, <2>3 DEF Top, Spot
  <2>9. SIZE - n = (FB_NUM_ROWS - 1) * FB_NUM_COLS
    BY sizeAssumption DEF SIZE
  <2>10. \A c \in Cells : g.text[t + n + c + 1] = IF c + n \in Cells THEN q.text[t + (c + n) + 1]
                                                 ELSE "blank"
    <3> TAKE c \in Cells
    <3>1. t + n + c + 1 \in 1 .. Len(g.text) /\ t + n + c + 1 = t + (c + n) + 1
      BY <1>0, <2>3 DEF Cells
    <3>2. t + n + c + 1 <= Len(q.text) <=> c + n \in Cells
      BY <1>0 DEF Cells
    <3> QED BY <2>3, <3>1, <3>2
  <2>11. Image(g) = [c \in Cells |-> g.text[t + n + c + 1]]
         /\ Image(q) = [c \in Cells |-> q.text[t + c + 1]]
    BY <1>1, <2>8 DEF Image
  <2>12. Image(g) = Lifted(Image(q))
    BY <2>10, <2>11 DEF Lifted
  <2>13. ~(Spot(q) < SIZE)
    BY <1>0, <1>1, <2>1
  <2> QED BY <2>1, <2>7, <2>8, <2>9, <2>12, <2>13
<1> QED BY <1>2, <1>3

\* Where a byte takes the cursor.
LEMMA TargetRange ==
    ASSUME NEW b, NEW x \in Cells
    PROVE  /\ Target(b, x) \in 0 .. SIZE
           /\ b \in {"backspace", "tab_end"} => Target(b, x) \in Cells
<1>1. CASE b = "newline"
  <2>1. 0 \in Nat
    OBVIOUS
  <2>2. Target("newline", x) \in Nat /\ Target("newline", x) <= SIZE
    BY <2>1, NextRow
  <2> QED BY <1>1, <2>2, Sizes
<1>2. CASE b # "newline"
  BY <1>2, Sizes DEF Target, Cells
<1> QED BY <1>1, <1>2

\* A byte on paper is a byte on the screen, scrolled if the cursor has left it.
LEMMA PrintedShows ==
    ASSUME NEW p \in Papers, NEW b \in Bytes \ {"tab", "tab_end"}
    PROVE  /\ Printed(p, b) \in Papers
           /\ Target(b, Spot(p)) < SIZE =>
                /\ Image(Printed(p, b)) = Edited(p, b)
                /\ Spot(Printed(p, b)) = Target(b, Spot(p))
           /\ Target(b, Spot(p)) = SIZE =>
                /\ Image(Printed(p, b)) = Lifted(Edited(p, b))
                /\ Spot(Printed(p, b)) = (FB_NUM_ROWS - 1) * FB_NUM_COLS
<1> DEFINE x == Spot(p)
           y == Target(b, x)
           t == Top(p)
<1>0. /\ p \in [text : Seq(Shown), pos : Nat] /\ p = [text |-> p.text, pos |-> p.pos]
      /\ t \in Nat /\ Len(p.text) = t + SIZE /\ Len(p.text) \in Nat
      /\ x \in Cells /\ p.pos = t + x /\ x \in Nat /\ x < SIZE /\ SIZE \in Nat
  BY PaperFacts, Sizes DEF Cells
<1>k. PICK k \in Nat : t = k * FB_NUM_COLS
  BY PaperFacts
<1>y. y \in 0 .. SIZE
  BY <1>0, TargetRange
<1> HIDE DEF x, y, t
<1>1. CASE b = "newline"
  <2> DEFINE q == [text |-> p.text, pos |-> t + y]
  <2>1. (p.pos \div FB_NUM_COLS + 1) * FB_NUM_COLS = t + y
    <3>1. p.pos = x + k * FB_NUM_COLS
      BY <1>0, <1>k
    <3>2. ((x + k * FB_NUM_COLS) \div FB_NUM_COLS + 1) * FB_NUM_COLS
            = Target("newline", x) + k * FB_NUM_COLS
      BY <1>0, NextRow
    <3>3. y + t = t + y
      BY <1>0, <1>y
    <3> QED BY <1>1, <1>k, <3>1, <3>2, <3>3 DEF y
  <2>2. Printed(p, b) = Grown([p EXCEPT !.pos = (@ \div FB_NUM_COLS + 1) * FB_NUM_COLS])
    BY <1>1 DEF Printed
  <2>3. [p EXCEPT !.pos = (@ \div FB_NUM_COLS + 1) * FB_NUM_COLS] = q
    <3>1. [p EXCEPT !.pos = (@ \div FB_NUM_COLS + 1) * FB_NUM_COLS] = [p EXCEPT !.pos = t + y]
      BY <2>1
    <3>2. [p EXCEPT !.pos = t + y] = [text |-> p.text, pos |-> t + y]
      BY <1>0
    <3> QED BY <3>1, <3>2
  <2>4. /\ q \in [text : Seq(Shown), pos : Nat] /\ q.text = p.text /\ q.pos = t + y
        /\ Len(q.text) = SIZE + k * FB_NUM_COLS
        /\ k * FB_NUM_COLS <= q.pos /\ q.pos <= Len(q.text)
    BY <1>0, <1>k, <1>y
  <2> HIDE DEF q
  <2>5. Top(q) = t /\ Spot(q) = y
    BY <1>0, <1>y, <2>4 DEF Top, Spot, t
  <2>6. Image(q) = Edited(p, b)
    BY <1>1, <2>4, <2>5 DEF Image, Edited, t
  <2> QED BY <2>2, <2>3, <2>4, <2>5, <2>6, GrownShows DEF y, x
<1>2. CASE b = "backspace"
  <2> DEFINE q == [text |-> [p.text EXCEPT ![t + y + 1] = "blank"], pos |-> t + y]
  <2>1. y = (IF x > 0 THEN x - 1 ELSE 0) /\ y \in Cells /\ y < SIZE /\ y \in Nat
    BY <1>0, <1>2 DEF y, Target, Cells
  <2>2. (IF p.pos > Len(p.text) - SIZE THEN p.pos - 1 ELSE p.pos) = t + y
    BY <1>0, <2>1
  <2>3. Printed(p, b) = q
    BY <1>2, <2>2 DEF Printed
  <2>4. /\ q.text \in Seq(Shown) /\ Len(q.text) = Len(p.text) /\ q.pos = t + y
        /\ Top(q) = t /\ Image(q) = [Image(p) EXCEPT ![y] = "blank"]
    <3>1. q.text = [p.text EXCEPT ![t + y + 1] = "blank"] /\ q.pos = t + y
      BY Zenon
    <3> HIDE DEF q
    <3>2. ASSUME NEW z \in Shown, q.text = [p.text EXCEPT ![t + y + 1] = z]
          PROVE  /\ q.text \in Seq(Shown) /\ Len(q.text) = Len(p.text)
                 /\ Top(q) = t /\ Image(q) = [Image(p) EXCEPT ![y] = z]
      BY <1>0, <2>1, <3>2, ReplacedImage DEF t
    <3> QED BY <3>1, <3>2, BlankByte
  <2>5. q = [text |-> q.text, pos |-> q.pos]
    BY Zenon
  <2> HIDE DEF q
  <2>6. q \in Papers
    <3>1. q \in [text : Seq(Shown), pos : Nat]
      BY <1>0, <2>1, <2>4, <2>5
    <3>2. /\ Len(q.text) = SIZE + k * FB_NUM_COLS
          /\ k * FB_NUM_COLS <= q.pos /\ q.pos < Len(q.text)
      BY <1>0, <1>k, <2>1, <2>4
    <3> QED BY <3>1, <3>2 DEF Papers
  <2>7. Spot(q) = y
    BY <1>0, <2>1, <2>4 DEF Spot
  <2>8. Image(q) = Edited(p, b)
    BY <1>2, <2>4 DEF Edited, y, x
  <2>9. y # SIZE
    BY <1>0, <2>1
  <2> QED BY <2>3, <2>6, <2>7, <2>8, <2>9 DEF y, x
<1>3. CASE b \in Shown
  <2> DEFINE q == [text |-> [p.text EXCEPT ![p.pos + 1] = b], pos |-> p.pos + 1]
  <2>0. b # "newline" /\ b # "backspace" /\ b # "tab_end"
    BY <1>3, textAssumption DEF Shown, Control
  <2>1. Printed(p, b) = Grown(q)
    BY <2>0 DEF Printed
  <2>2. y = x + 1
    BY <2>0 DEF y, Target
  <2>3. q.text = [p.text EXCEPT ![t + x + 1] = b] /\ q.pos = p.pos + 1
    <3>1. q.text = [p.text EXCEPT ![p.pos + 1] = b] /\ q.pos = p.pos + 1
      BY Zenon
    <3> QED BY <1>0, <3>1
  <2>4. /\ q.text \in Seq(Shown) /\ Len(q.text) = Len(p.text) /\ q.pos = p.pos + 1
        /\ Top(q) = t /\ Image(q) = [Image(p) EXCEPT ![x] = b]
    <3> HIDE DEF q
    <3> QED BY <1>0, <1>3, <2>3, ReplacedImage DEF t
  <2>5. q = [text |-> q.text, pos |-> q.pos]
    BY Zenon
  <2> HIDE DEF q
  <2>6. q \in [text : Seq(Shown), pos : Nat]
    BY <1>0, <2>4, <2>5
  <2>7. /\ Len(q.text) = SIZE + k * FB_NUM_COLS
        /\ k * FB_NUM_COLS <= q.pos /\ q.pos <= Len(q.text)
    BY <1>0, <1>k, <2>4 DEF Top
  <2>8. Spot(q) = y
    BY <1>0, <2>2, <2>4 DEF Spot
  <2>9. Image(q) = Edited(p, b)
    BY <2>0, <2>4 DEF Edited, x
  <2> QED BY <2>1, <2>6, <2>7, <2>8, <2>9, GrownShows DEF y, x
<1> QED BY <1>1, <1>2, <1>3 DEF Bytes, Control

\* A writer's step keeps the invariant if it shows what its new place calls for.
LEMMA StepShows ==
    ASSUME Inv, TextInv, NEW w \in Writers, NEW c, put[w] # Idle,
           put' = [put EXCEPT ![w] = c], overlapped' = overlapped, paper' \in Papers,
           ~overlapped => Shows(c, paper', screen', cursor_pos')
    PROVE  TextInv'
<1>0. put'[w] = c /\ \A v \in Writers : v # w => put'[v] = put[v]
  BY DEF Inv, FbTypeOK
<1>1. ASSUME ~overlapped
      PROVE  /\ \A v \in Writers : put'[v] # Idle => Shows(put'[v], paper', screen', cursor_pos')
             /\ (\A v \in Writers : put'[v] = Idle) => Shows(Idle, paper', screen', cursor_pos')
  <2>1. \A v \in Writers : v # w => put'[v] = Idle
    BY <1>0, <1>1 DEF Inv, OneWriter
  <2> QED BY <1>0, <1>1, <2>1
<1>2. Idle' = Idle
  BY DEF Idle, Call
<1> QED BY <1>1, <1>2 DEF TextInv

-----------------------------------------------------------------------------
(***************************************************************************)
(* The steps of a writer.                                                  *)
(***************************************************************************)
\* A writer that is alone, and is not idle, shows what its place calls for.
LEMMA Showing ==
    ASSUME Inv, TextInv, ~overlapped, NEW w \in Writers, put[w].at # "idle"
    PROVE  Shows(put[w], paper, screen, cursor_pos) /\ put[w] # Idle
BY Busy DEF TextInv

\* fb_write begins: alone, nothing has changed; not alone, nothing is claimed.
LEMMA WriteShows ==
    ASSUME Inv, TextInv, NEW w \in Writers, NEW s \in Texts, fb_write(w, s)
    PROVE  TextInv'
<1> DEFINE c == Call("put_s", s)
<1> USE DEF fb_write
<1>1. NewPaper \in Papers
  <2>1. Blank(SIZE) \in Seq(Shown) /\ Len(Blank(SIZE)) = SIZE
    BY Sizes, Blanks
  <2>2. NewPaper.text = Blank(SIZE) /\ NewPaper.pos = 0
        /\ NewPaper \in [text : Seq(Shown), pos : Nat]
    BY <2>1 DEF NewPaper
  <2>3. 0 * FB_NUM_COLS = 0 /\ 0 \in Nat
    BY Sizes
  <2> QED BY <2>1, <2>2, <2>3, Sizes DEF Papers
<1>2. paper' \in Papers
  BY <1>1 DEF TextInv
<1>3. ASSUME ~overlapped'
      PROVE  /\ \A v \in Writers : put'[v] # Idle => Shows(put'[v], paper', screen', cursor_pos')
             /\ (\A v \in Writers : put'[v] = Idle) => Shows(Idle, paper', screen', cursor_pos')
  <2>1. ~overlapped /\ \A v \in Writers : put[v] = Idle
    BY <1>3
  <2>2. Shows(Idle, paper, screen, cursor_pos) /\ paper' = paper
    BY <1>3, <2>1 DEF TextInv
  <2>3. put'[w] = c /\ \A v \in Writers : v # w => put'[v] = Idle
    BY <2>1 DEF Inv, FbTypeOK
  <2>4. c.at = "put_s" /\ c.b = "blank" /\ Idle.at = "idle" /\ Idle.b = "blank"
    BY DEF Idle, Call
  <2> HIDE DEF c
  <2>5. Shows(c, paper', screen', cursor_pos')
    BY <2>2, <2>4 DEF Shows, ScreenAt, CursorAt, LoadedAt, ByteAt
  <2>6. put'[w] # Idle
    BY <2>3, <2>4
  <2> QED BY <2>3, <2>5, <2>6
<1>4. Idle' = Idle
  BY DEF Idle, Call
<1> QED BY <1>2, <1>3, <1>4 DEF TextInv

LEMMA PutSShows ==
    ASSUME Inv, TextInv, NEW w \in Writers, fb_put_s(w)
    PROVE  TextInv'
<1> DEFINE s == put[w].s
           c1 == [put[w] EXCEPT !.s = <<"blank", "blank", "blank", "blank", "tab_end">> \o Tail(s)]
           c2 == [put[w] EXCEPT !.s = Tail(s), !.b = Head(s), !.at = Place(Head(s))]
           c == IF s = <<>> THEN Idle ELSE IF Head(s) = "tab" THEN c1 ELSE c2
<1> USE DEF fb_put_s
<1>1. put[w] \in Calls /\ s \in Seq(Bytes) /\ put[w].at = "put_s" /\ put[w] # Idle
  BY CallTypes, Busy DEF Inv
<1>2. /\ put' = [put EXCEPT ![w] = c] /\ overlapped' = overlapped /\ paper' = paper
      /\ screen' = screen /\ cursor_pos' = cursor_pos /\ paper' \in Papers
  BY DEF TextInv
<1>3. ASSUME ~overlapped PROVE Shows(c, paper, screen, cursor_pos)
  <2>1. Shows(put[w], paper, screen, cursor_pos)
    BY <1>1, <1>3, Showing
  <2>2. screen = Image(paper) /\ cursor_pos = Spot(paper) /\ put[w].b \in Bytes \ {"tab"}
    BY <1>1, <2>1 DEF Shows, ScreenAt, CursorAt, ByteAt
  <2>3. CASE s = <<>>
    <3>1. Idle.at = "idle" /\ Idle.b = "blank" /\ c = Idle
      BY <2>3 DEF Idle, Call
    <3>2. "blank" \in Bytes \ {"tab"}
      BY BlankByte
    <3> QED BY <2>2, <3>1, <3>2 DEF Shows, ScreenAt, CursorAt, LoadedAt, ByteAt
  <2>4. CASE s # <<>> /\ Head(s) = "tab"
    <3>1. c = c1 /\ c1.at = "put_s" /\ c1.b = put[w].b
      BY <1>1, <2>4 DEF Calls
    <3> HIDE DEF c1, c
    <3> QED BY <2>2, <3>1 DEF Shows, ScreenAt, CursorAt, LoadedAt, ByteAt
  <2>5. CASE s # <<>> /\ Head(s) # "tab"
    <3>0. Head(s) \in Bytes
      BY <1>1, <2>5, Sequence
    <3>1. c = c2 /\ c2.at = Place(Head(s)) /\ c2.b = Head(s)
      BY <1>1, <2>5 DEF Calls
    <3> DEFINE b == Head(s)
    <3> HIDE DEF c1, c2, c, b
    <3>2. c.b = b /\ b \in Bytes /\ b # "tab" /\ c.at = Place(b)
      BY <2>5, <3>0, <3>1 DEF b
    <3>3. CASE b \in {"newline", "backspace"}
      <4>1. /\ c.at = "load" \/ (c.at = "test" /\ c.b = "backspace")
            /\ c.b \notin Shown /\ c.b # "tab_end"
        BY <3>2, <3>3, textAssumption DEF Place, Shown, Control
      <4> QED BY <2>2, <3>2, <4>1 DEF Shows, ScreenAt, CursorAt, LoadedAt, ByteAt
    <3>4. CASE b = "tab_end"
      <4>1. c.at = "check" /\ Edited(paper, c.b) = Image(paper)
            /\ Target(c.b, Spot(paper)) = Spot(paper)
        BY <3>2, <3>4 DEF Place, Edited, Target
      <4> QED BY <2>2, <3>2, <4>1 DEF Shows, ScreenAt, CursorAt, LoadedAt, ByteAt
    <3>5. CASE b \notin {"newline", "backspace", "tab_end"}
      <4>1. c.at = "write" /\ c.b \in Shown
        BY <3>2, <3>5 DEF Place, Bytes, Control
      <4> QED BY <2>2, <3>2, <4>1 DEF Shows, ScreenAt, CursorAt, LoadedAt, ByteAt
    <3> QED BY <3>3, <3>4, <3>5
  <2> QED BY <2>3, <2>4, <2>5
<1> HIDE DEF c
<1> QED BY <1>1, <1>2, <1>3, StepShows

LEMMA PutBShows ==
    ASSUME Inv, TextInv, NEW w \in Writers, fb_put_b(w)
    PROVE  TextInv'
<1> USE DEF fb_put_b
<1>1. PICK c \in Calls : /\ put' = [put EXCEPT ![w] = c]
                        /\ c.at = "load" /\ c.b = put[w].b /\ c.loc = put[w].loc
  BY GoToType DEF Inv, Places
<1>2. /\ overlapped' = overlapped /\ paper' = paper /\ cursor_pos' = cursor_pos
      /\ paper \in Papers /\ put[w] # Idle
  BY Busy DEF TextInv
<1>3. ASSUME ~overlapped PROVE Shows(c, paper, screen', cursor_pos)
  <2>1. Shows(put[w], paper, screen, cursor_pos)
    BY <1>3, Showing
  <2>2. screen = Image(paper) /\ cursor_pos = Spot(paper) /\ c.b \in Shown /\ c.b \in Bytes \ {"tab"}
    BY <1>1, <2>1 DEF Shows, ScreenAt, CursorAt, ByteAt
  <2>3. Spot(paper) \in Cells
    BY <1>2, PaperFacts
  <2>4. screen' = [Image(paper) EXCEPT ![Spot(paper)] = c.b]
    BY <1>1, <2>2, <2>3 DEF write_cell
  <2>5. c.b \notin {"newline", "backspace", "tab_end"}
    BY <2>2, textAssumption DEF Shown, Control
  <2>6. screen' = Edited(paper, c.b)
    BY <2>4, <2>5 DEF Edited
  <2> QED BY <1>1, <2>2, <2>5, <2>6 DEF Shows, ScreenAt, CursorAt, LoadedAt, ByteAt
<1> QED BY <1>1, <1>2, <1>3, StepShows

\* At the start of the screen a backspace moves nowhere.
LEMMA TestShows ==
    ASSUME Inv, TextInv, NEW w \in Writers, test(w)
    PROVE  TextInv'
<1> USE DEF test
<1> DEFINE at == IF cursor_pos # 0 THEN "load" ELSE "erase"
<1>1. at \in Places
  BY DEF Places
<1>2. PICK c \in Calls : /\ put' = [put EXCEPT ![w] = c]
                        /\ c.at = at /\ c.b = put[w].b /\ c.loc = put[w].loc
  BY <1>1, GoToType DEF Inv
<1>3. /\ screen' = screen /\ overlapped' = overlapped /\ paper' = paper /\ put[w] # Idle
      /\ cursor_pos' = cursor_pos /\ paper \in Papers
  BY Busy DEF TextInv
<1>4. ASSUME ~overlapped PROVE Shows(c, paper, screen, cursor_pos)
  <2>1. Shows(put[w], paper, screen, cursor_pos)
    BY <1>4, Showing
  <2>2. /\ screen = Image(paper) /\ cursor_pos = Spot(paper) /\ c.b = "backspace"
        /\ c.b \in Bytes \ {"tab"}
    BY <1>2, <2>1 DEF Shows, ScreenAt, CursorAt, ByteAt
  <2>3. CASE cursor_pos # 0
    <3>1. c.at = "load" /\ c.b \notin Shown
      BY <1>2, <2>2, <2>3, textAssumption DEF Shown, Control
    <3> QED BY <2>2, <3>1 DEF Shows, ScreenAt, CursorAt, LoadedAt, ByteAt
  <2>4. CASE cursor_pos = 0
    <3>1. c.at = "erase" /\ Target(c.b, Spot(paper)) = Spot(paper)
      BY <1>2, <2>2, <2>4 DEF Target
    <3> QED BY <2>2, <3>1 DEF Shows, ScreenAt, CursorAt, LoadedAt, ByteAt
  <2> QED BY <2>3, <2>4
<1> HIDE DEF at
<1> QED BY <1>2, <1>3, <1>4, StepShows

\* cursor_pos does not pass the largest uint16_t, nor fall below 0.
LEMMA LoadShows ==
    ASSUME Inv, TextInv, NEW w \in Writers, load(w)
    PROVE  TextInv'
<1> USE DEF load
<1> DEFINE x == Spot(paper)
<1>1. put[w] # Idle
  BY Busy
<1>2. PICK c \in Calls : /\ put' = [put EXCEPT ![w] = c] /\ c.at = "store"
                        /\ c.b = put[w].b /\ c.loc = Moved(put[w].b)
  <2>1. cursor_pos \in Word
    BY DEF Inv, FbTypeOK, Word
  <2>2. PICK loc \in Word, at \in Places :
               loc = Moved(put[w].b) /\ at = "store" /\ Takes(w, loc, at)
    BY <2>1, MovedType DEF Takes, Places
  <2> HIDE DEF load
  <2>3. PICK c \in Calls : /\ put' = [put EXCEPT ![w] = c] /\ c.at = at
                         /\ c.b = put[w].b /\ c.loc = loc
    BY <2>2, LoadedType DEF Inv
  <2> QED BY <2>2, <2>3
<1>4. /\ screen' = screen /\ overlapped' = overlapped /\ paper' = paper
      /\ cursor_pos' = cursor_pos /\ paper \in Papers
  BY DEF TextInv
<1>5. x \in Cells /\ x \in Nat /\ x < SIZE
  BY <1>4, PaperFacts, Sizes DEF Cells
<1>6. ASSUME ~overlapped PROVE Shows(c, paper, screen, cursor_pos)
  <2>1. Shows(put[w], paper, screen, cursor_pos)
    BY <1>6, Showing
  <2>2. /\ cursor_pos = x /\ c.b \in Bytes \ {"tab", "tab_end"}
        /\ screen = IF c.b \in Shown THEN Edited(paper, c.b) ELSE Image(paper)
    BY <1>2, <2>1 DEF Shows, ScreenAt, CursorAt, ByteAt
  <2>3. c.b = "backspace" => x # 0
    BY <1>2, <1>6, <2>2 DEF Inv, BackOnScreen
  <2> HIDE DEF x
  <2>4. c.loc = IF c.b = "newline" THEN x + FB_NUM_COLS ELSE Target(c.b, x)
    <3>0. ASSUME NEW y \in 0 .. (WORD - 1) PROVE y % WORD = y
      BY Sizes
    <3>1. CASE c.b = "newline"
      <4>1. c.loc = (x + FB_NUM_COLS) % WORD
        BY <1>2, <2>2, <3>1 DEF Moved
      <4>2. x + FB_NUM_COLS \in 0 .. (WORD - 1)
        BY <1>5, Sizes
      <4> QED BY <3>0, <3>1, <4>1, <4>2
    <3>2. CASE c.b = "backspace"
      <4>1. c.loc = (x - 1) % WORD
        BY <1>2, <2>2, <3>2 DEF Moved
      <4>2. x - 1 \in 0 .. (WORD - 1) /\ x > 0
        BY <1>5, <2>3, <3>2, Sizes
      <4> QED BY <3>0, <3>2, <4>1, <4>2 DEF Target
    <3>3. CASE c.b \notin {"newline", "backspace"}
      <4>1. c.loc = (x + 1) % WORD
        BY <1>2, <2>2, <3>3 DEF Moved
      <4>2. x + 1 \in 0 .. (WORD - 1)
        BY <1>5, Sizes
      <4> QED BY <2>2, <3>0, <3>3, <4>1, <4>2 DEF Target
    <3> QED BY <3>1, <3>2, <3>3
  <2> QED BY <1>2, <2>2, <2>4 DEF Shows, ScreenAt, CursorAt, LoadedAt, ByteAt, x
<1> QED BY <1>1, <1>2, <1>4, <1>6, StepShows

\* Alone, move_cursor_start loads the same position twice.
LEMMA LoadStartShows ==
    ASSUME Inv, TextInv, NEW w \in Writers, load_start(w)
    PROVE  TextInv'
<1> USE DEF load_start
<1>1. put[w] # Idle
  BY Busy
<1>2. PICK c \in Calls : /\ put' = [put EXCEPT ![w] = c] /\ c.at = "load_column"
                        /\ c.b = put[w].b /\ c.loc = cursor_pos
  <2>1. PICK loc \in Word, at \in Places :
               loc = cursor_pos /\ at = "load_column" /\ Takes(w, loc, at)
    BY DEF Inv, FbTypeOK, Word, Takes, Places
  <2> HIDE DEF load_start
  <2>2. PICK c \in Calls : /\ put' = [put EXCEPT ![w] = c] /\ c.at = at
                         /\ c.b = put[w].b /\ c.loc = loc
    BY <2>1, LoadedType DEF Inv
  <2> QED BY <2>1, <2>2
<1>3. /\ screen' = screen /\ overlapped' = overlapped /\ paper' = paper
      /\ cursor_pos' = cursor_pos /\ paper \in Papers
  BY DEF TextInv
<1>4. ASSUME ~overlapped PROVE Shows(c, paper, screen, cursor_pos)
  <2>1. Shows(put[w], paper, screen, cursor_pos)
    BY <1>4, Showing
  <2> QED BY <1>2, <2>1 DEF Shows, ScreenAt, CursorAt, LoadedAt, ByteAt
<1> QED BY <1>1, <1>2, <1>3, <1>4, StepShows

LEMMA LoadColumnShows ==
    ASSUME Inv, TextInv, NEW w \in Writers, load_column(w)
    PROVE  TextInv'
<1> USE DEF load_column
<1> DEFINE x == Spot(paper)
<1>1. PICK loc \in {Started(put[w].loc, cursor_pos), Started(cursor_pos, put[w].loc)} :
            Takes(w, loc, "store_start")
  BY DEF Takes
<1>2. PICK c \in Calls : /\ put' = [put EXCEPT ![w] = c] /\ c.at = "store_start"
                        /\ c.b = put[w].b /\ c.loc = loc
  <2>1. cursor_pos \in Word /\ put[w].loc \in Word
    BY CallTypes DEF Inv, FbTypeOK, Word
  <2>2. loc \in Word
    BY <2>1, StartedType
  <2>3. PICK at \in Places : at = "store_start" /\ Takes(w, loc, at)
    BY <1>1 DEF Takes, Places
  <2> HIDE DEF load_column
  <2>4. PICK c \in Calls : /\ put' = [put EXCEPT ![w] = c] /\ c.at = at
                         /\ c.b = put[w].b /\ c.loc = loc
    BY <2>2, <2>3, LoadedType DEF Inv
  <2> QED BY <2>3, <2>4
<1>3. /\ screen' = screen /\ overlapped' = overlapped /\ paper' = paper
      /\ cursor_pos' = cursor_pos /\ paper \in Papers /\ put[w] # Idle
  BY Busy DEF TextInv
<1>4. x \in Cells /\ x \in Nat /\ x < SIZE
  BY <1>3, PaperFacts, Sizes DEF Cells
<1>5. ASSUME ~overlapped PROVE Shows(c, paper, screen, cursor_pos)
  <2>1. Shows(put[w], paper, screen, cursor_pos)
    BY <1>5, Showing
  <2>2. /\ cursor_pos = x + FB_NUM_COLS /\ put[w].loc = x + FB_NUM_COLS /\ c.b = "newline"
        /\ c.b \in Bytes \ {"tab"} /\ screen = Image(paper)
    BY <1>2, <2>1 DEF Shows, ScreenAt, CursorAt, LoadedAt, ByteAt
  <2>3. c.loc = Started(x + FB_NUM_COLS, x + FB_NUM_COLS)
    BY <1>2, <2>2
  <2>4. /\ (x + FB_NUM_COLS) - ((x + FB_NUM_COLS) % FB_NUM_COLS) = Target("newline", x)
        /\ Target("newline", x) \in Nat /\ Target("newline", x) <= SIZE
    <3>1. 0 \in Nat
      OBVIOUS
    <3> HIDE DEF x
    <3> QED BY <1>4, <3>1, NextRow
  <2>5. Target("newline", x) % WORD = Target("newline", x)
    <3>1. Target("newline", x) \in 0 .. (WORD - 1)
      BY <2>4, Sizes
    <3> QED BY <3>1, Sizes
  <2>6. c.loc = Target("newline", x)
    BY <2>3, <2>4, <2>5 DEF Started
  <2> QED BY <1>2, <2>2, <2>6 DEF Shows, ScreenAt, CursorAt, LoadedAt, ByteAt
<1> QED BY <1>2, <1>3, <1>5, StepShows

LEMMA StoreShows ==
    ASSUME Inv, TextInv, NEW w \in Writers, store(w)
    PROVE  TextInv'
<1> USE DEF store
<1> DEFINE at == IF put[w].at = "store_start" THEN "check"
                 ELSE IF put[w].b = "newline" THEN "load_start"
                 ELSE IF put[w].b = "backspace" THEN "erase" ELSE "check"
<1>1. at \in Places
  BY DEF Places
<1>2. PICK c \in Calls : /\ put' = [put EXCEPT ![w] = c]
                        /\ c.at = at /\ c.b = put[w].b /\ c.loc = put[w].loc
  BY <1>1, GoToType DEF Inv
<1>3. /\ screen' = screen /\ overlapped' = overlapped /\ paper' = paper /\ put[w] # Idle
      /\ cursor_pos' = c.loc /\ paper \in Papers
  BY <1>2, Busy DEF TextInv
<1>4. ASSUME ~overlapped PROVE Shows(c, paper, screen, c.loc)
  <2>1. Shows(put[w], paper, screen, cursor_pos)
    BY <1>4, Showing
  <2>2. CASE put[w].at = "store_start"
    <3>1. /\ c.at = "check" /\ c.b = "newline" /\ c.b \in Bytes \ {"tab"}
          /\ screen = Image(paper) /\ c.loc = Target(c.b, Spot(paper))
      BY <1>2, <2>1, <2>2 DEF Shows, ScreenAt, LoadedAt, ByteAt
    <3>2. Edited(paper, c.b) = Image(paper)
      BY <3>1 DEF Edited
    <3> QED BY <3>1, <3>2 DEF Shows, ScreenAt, CursorAt, LoadedAt, ByteAt
  <2>3. CASE put[w].at = "store"
    <3>1. /\ c.b \in Bytes \ {"tab", "tab_end"}
          /\ screen = IF c.b \in Shown THEN Edited(paper, c.b) ELSE Image(paper)
          /\ c.loc = IF c.b = "newline" THEN Spot(paper) + FB_NUM_COLS
                     ELSE Target(c.b, Spot(paper))
          /\ c.at = IF c.b = "newline" THEN "load_start"
                    ELSE IF c.b = "backspace" THEN "erase" ELSE "check"
      BY <1>2, <2>1, <2>3 DEF Shows, ScreenAt, LoadedAt, ByteAt
    <3>2. c.b \in Shown <=> c.b \notin {"newline", "backspace"}
      <4>1. c.b \in Shown => c.b \notin {"newline", "backspace"}
        BY textAssumption DEF Shown, Control
      <4>2. c.b \notin {"newline", "backspace"} => c.b \in Shown
        BY <3>1 DEF Bytes, Control
      <4> QED BY <4>1, <4>2
    <3> QED BY <3>1, <3>2 DEF Shows, ScreenAt, CursorAt, LoadedAt, ByteAt
  <2> QED BY <2>2, <2>3
<1> QED BY <1>2, <1>3, <1>4, StepShows

LEMMA EraseShows ==
    ASSUME Inv, TextInv, NEW w \in Writers, erase(w)
    PROVE  TextInv'
<1> USE DEF erase
<1>1. PICK c \in Calls : /\ put' = [put EXCEPT ![w] = c]
                        /\ c.at = "check" /\ c.b = put[w].b /\ c.loc = put[w].loc
  BY GoToType DEF Inv, Places
<1>2. /\ overlapped' = overlapped /\ paper' = paper /\ cursor_pos' = cursor_pos
      /\ paper \in Papers /\ put[w] # Idle
  BY Busy DEF TextInv
<1>3. ASSUME ~overlapped PROVE Shows(c, paper, screen', cursor_pos)
  <2>1. Shows(put[w], paper, screen, cursor_pos)
    BY <1>3, Showing
  <2>2. /\ screen = Image(paper) /\ cursor_pos = Target(c.b, Spot(paper)) /\ c.b = "backspace"
        /\ c.b \in Bytes \ {"tab"}
    BY <1>1, <2>1 DEF Shows, ScreenAt, CursorAt, ByteAt
  <2>3. cursor_pos \in Cells
    BY <1>2, <2>2, PaperFacts, TargetRange
  <2>4. screen' = Edited(paper, c.b)
    BY <2>2, <2>3 DEF write_cell, Edited
  <2> QED BY <1>1, <2>2, <2>4 DEF Shows, ScreenAt, CursorAt, LoadedAt, ByteAt
<1> QED BY <1>1, <1>2, <1>3, StepShows

\* The check: the byte is on the paper if the screen need not scroll.
LEMMA CheckShows ==
    ASSUME Inv, TextInv, NEW w \in Writers, check(w)
    PROVE  TextInv'
<1> USE DEF check
<1> DEFINE at == IF cursor_pos < SIZE THEN "put_s" ELSE "scroll"
<1>1. at \in Places
  BY DEF Places
<1>2. PICK c \in Calls : /\ put' = [put EXCEPT ![w] = c]
                        /\ c.at = at /\ c.b = put[w].b /\ c.loc = put[w].loc
  BY <1>1, GoToType DEF Inv
<1>3. /\ screen' = screen /\ overlapped' = overlapped /\ put[w] # Idle
      /\ cursor_pos' = cursor_pos /\ paper \in Papers
  BY Busy DEF TextInv
<1>4. CASE overlapped
  <2>1. paper' = paper
    BY <1>4 DEF OnPaper
  <2> QED BY <1>2, <1>3, <1>4, <2>1, StepShows
<1>5. CASE ~overlapped
  <2>1. Shows(put[w], paper, screen, cursor_pos)
    BY <1>5, Showing
  <2>2. /\ screen = Edited(paper, c.b) /\ cursor_pos = Target(c.b, Spot(paper))
        /\ c.b \in Bytes \ {"tab"}
    BY <1>2, <2>1 DEF Shows, ScreenAt, CursorAt, ByteAt
  <2>3. cursor_pos \in 0 .. SIZE
    BY <1>3, <2>2, PaperFacts, TargetRange
  <2>4. CASE cursor_pos < SIZE /\ c.b = "tab_end"
    <3>1. paper' = paper /\ c.at = "put_s"
      BY <1>2, <2>4 DEF OnPaper
    <3>2. screen = Image(paper) /\ cursor_pos = Spot(paper)
      BY <2>2, <2>4 DEF Edited, Target
    <3>3. Shows(c, paper', screen', cursor_pos')
      BY <1>3, <2>2, <3>1, <3>2 DEF Shows, ScreenAt, CursorAt, LoadedAt, ByteAt
    <3> QED BY <1>2, <1>3, <3>1, <3>3, StepShows
  <2>5. CASE cursor_pos < SIZE /\ c.b # "tab_end"
    <3>1. paper' = Printed(paper, c.b) /\ c.at = "put_s"
      BY <1>2, <1>5, <2>5 DEF OnPaper
    <3>2. c.b \in Bytes \ {"tab", "tab_end"}
      BY <2>2, <2>5
    <3>3. paper' \in Papers /\ screen = Image(paper') /\ cursor_pos = Spot(paper')
      BY <1>3, <2>2, <2>5, <3>1, <3>2, PrintedShows
    <3>4. Shows(c, paper', screen', cursor_pos')
      BY <1>3, <2>2, <3>1, <3>3 DEF Shows, ScreenAt, CursorAt, LoadedAt, ByteAt
    <3> QED BY <1>2, <1>3, <3>3, <3>4, StepShows
  <2>6. CASE ~(cursor_pos < SIZE)
    <3>1. paper' = paper /\ c.at = "scroll"
      BY <1>2, <2>6
    <3>2. cursor_pos = SIZE
      BY <2>3, <2>6, Sizes
    <3>3. Shows(c, paper', screen', cursor_pos')
      BY <1>3, <2>2, <3>1, <3>2 DEF Shows, ScreenAt, CursorAt, LoadedAt, ByteAt
    <3> QED BY <1>2, <1>3, <3>1, <3>3, StepShows
  <2> QED BY <2>4, <2>5, <2>6
<1> QED BY <1>4, <1>5

LEMMA ScrollShows ==
    ASSUME Inv, TextInv, NEW w \in Writers, scroll(w)
    PROVE  TextInv'
<1> USE DEF scroll
<1>1. PICK c \in Calls : /\ put' = [put EXCEPT ![w] = c]
                        /\ c.at = "home" /\ c.b = put[w].b /\ c.loc = put[w].loc
  BY GoToType DEF Inv, Places
<1>2. /\ overlapped' = overlapped /\ paper' = paper /\ cursor_pos' = cursor_pos
      /\ paper \in Papers /\ put[w] # Idle /\ screen' = Lifted(screen)
  BY Busy DEF TextInv, Lifted
<1>3. ASSUME ~overlapped PROVE Shows(c, paper, screen', cursor_pos)
  <2>1. Shows(put[w], paper, screen, cursor_pos)
    BY <1>3, Showing
  <2>2. /\ screen = Edited(paper, c.b) /\ Target(c.b, Spot(paper)) = SIZE
        /\ c.b \in Bytes \ {"tab"}
    BY <1>1, <2>1 DEF Shows, ScreenAt, CursorAt, ByteAt
  <2> QED BY <1>1, <1>2, <2>2 DEF Shows, ScreenAt, CursorAt, LoadedAt, ByteAt
<1> QED BY <1>1, <1>2, <1>3, StepShows

LEMMA MoveCursorShows ==
    ASSUME Inv, TextInv, NEW w \in Writers, fb_move_cursor(w)
    PROVE  TextInv'
<1> USE DEF fb_move_cursor
<1>1. PICK c \in Calls : /\ put' = [put EXCEPT ![w] = c]
                        /\ c.at = "put_s" /\ c.b = put[w].b /\ c.loc = put[w].loc
  BY GoToType DEF Inv, Places
<1>2. screen' = screen /\ overlapped' = overlapped /\ put[w] # Idle /\ paper \in Papers
  BY Busy DEF TextInv
<1>3. CASE overlapped
  <2>1. paper' = paper
    BY <1>3 DEF OnPaper
  <2> QED BY <1>1, <1>2, <1>3, <2>1, StepShows
<1>4. CASE ~overlapped
  <2>1. Shows(put[w], paper, screen, cursor_pos)
    BY <1>4, Showing
  <2>2. /\ screen = Lifted(Edited(paper, c.b)) /\ Target(c.b, Spot(paper)) = SIZE
        /\ c.b \in Bytes \ {"tab"}
    BY <1>1, <2>1 DEF Shows, ScreenAt, CursorAt, ByteAt
  <2>3. c.b # "tab_end"
    BY <1>2, <2>2, PaperFacts, TargetRange, Sizes DEF Cells
  <2>4. paper' = Printed(paper, c.b)
    BY <1>1, <1>4, <2>3 DEF OnPaper
  <2>5. paper' \in Papers /\ screen = Image(paper') /\ cursor_pos' = Spot(paper')
    BY <1>2, <2>2, <2>3, <2>4, PrintedShows
  <2>6. Shows(c, paper', screen', cursor_pos')
    BY <1>1, <1>2, <2>2, <2>5 DEF Shows, ScreenAt, CursorAt, LoadedAt, ByteAt
  <2> QED BY <1>1, <1>2, <2>5, <2>6, StepShows
<1> QED BY <1>3, <1>4

-----------------------------------------------------------------------------
\* As long as writers do not overlap, the screen shows the end of what was written:
\* the cells, the moves of the cursor and the scrolling of fb_put_b agree with paper
\* that never scrolls, after every byte.
THEOREM ScreenShowsText == FbSpec => []ShowsText
<1>1. FbInit => TextInv
  <2> SUFFICES ASSUME FbInit PROVE TextInv
    OBVIOUS
  <2> USE DEF FbInit, fb_clear
  <2>1. /\ Blank(SIZE) \in Seq(Shown) /\ Len(Blank(SIZE)) = SIZE
        /\ \A i \in 1 .. SIZE : Blank(SIZE)[i] = "blank"
    BY Sizes, Blanks
  <2>2. paper.text = Blank(SIZE) /\ paper.pos = 0 /\ paper \in [text : Seq(Shown), pos : Nat]
    BY <2>1 DEF NewPaper
  <2>3. paper \in Papers
    <3>1. 0 * FB_NUM_COLS = 0 /\ 0 \in Nat
      BY Sizes
    <3> QED BY <2>1, <2>2, <3>1, Sizes DEF Papers
  <2>4. Top(paper) = 0 /\ Spot(paper) = 0
    BY <2>1, <2>2, Sizes DEF Top, Spot
  <2>5. Image(paper) = screen
    <3>1. \A c \in Cells : paper.text[0 + c + 1] = "blank"
      BY <2>1, <2>2, Sizes DEF Cells
    <3> QED BY <2>4, <3>1 DEF Image
  <2>6. Idle.at = "idle" /\ Idle.b = "blank" /\ "blank" \in Bytes \ {"tab"}
    BY BlankByte DEF Idle, Call
  <2>7. Shows(Idle, paper, screen, cursor_pos)
    BY <2>4, <2>5, <2>6 DEF Shows, ScreenAt, CursorAt, LoadedAt, ByteAt
  <2> QED BY <2>3, <2>7 DEF TextInv
<1>2. Inv /\ TextInv /\ [FbNext]_fb_vars => TextInv'
  <2> SUFFICES ASSUME Inv, TextInv, [FbNext]_fb_vars PROVE TextInv'
    OBVIOUS
  <2>1. CASE UNCHANGED fb_vars
    <3>1. Idle' = Idle
      BY DEF Idle, Call
    <3> QED BY <2>1, <3>1 DEF TextInv, fb_vars
  <2>2. ASSUME NEW w \in Writers, NEW s \in Texts, fb_write(w, s) PROVE TextInv'
    BY <2>2, WriteShows
  <2>3. ASSUME NEW w \in Writers, Step(w) PROVE TextInv'
    BY <2>3, PutSShows, PutBShows, TestShows, LoadShows, LoadStartShows, LoadColumnShows,
       StoreShows, EraseShows, CheckShows, ScrollShows, MoveCursorShows DEF Step
  <2> QED BY <2>1, <2>2, <2>3 DEF FbNext
<1>3. TextInv => ShowsText
  <2> SUFFICES ASSUME TextInv, ~overlapped, \A w \in Writers : put[w].at \in {"idle", "put_s"}
               PROVE  screen = Image(paper) /\ cursor_pos = Spot(paper)
    BY DEF ShowsText, Image, Spot, Top
  <2>1. CASE \A w \in Writers : put[w] = Idle
    <3>1. Shows(Idle, paper, screen, cursor_pos) /\ Idle.at = "idle"
      BY <2>1 DEF TextInv, Idle, Call
    <3> QED BY <3>1 DEF Shows, ScreenAt, CursorAt
  <2>2. CASE \E w \in Writers : put[w] # Idle
    <3>1. PICK w \in Writers : put[w] # Idle
      BY <2>2
    <3>2. Shows(put[w], paper, screen, cursor_pos)
      BY <3>1 DEF TextInv
    <3> QED BY <3>2 DEF Shows, ScreenAt, CursorAt
  <2> QED BY <2>1, <2>2
<1> QED BY <1>1, <1>2, <1>3, Invariance, PTL DEF FbSpec
=============================================================================

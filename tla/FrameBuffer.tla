----------------------------- MODULE FrameBuffer -----------------------------
(***************************************************************************)
(* The console of aenix, kernel/fb.c: the characters on the screen and the *)
(* cursor, and fb_write, which several processes may be in at once.        *)
(*                                                                         *)
(* Nothing locks the console and the kernel is preemptible, so fb_put_b is *)
(* cut at every load and every store of cursor_pos: what was tested may    *)
(* have changed when it is loaded again.  What two writers in the middle   *)
(* of each other leave on the screen is not claimed, so a cell is written  *)
(* with the load of its position, and a scroll is one step.                *)
(***************************************************************************)
EXTENDS Integers, Sequences

CONSTANTS
    FB_NUM_COLS, FB_NUM_ROWS,  \* the size of the screen (80 and 25)
    WORD,                      \* the modulus of uint16_t (2^16)
    Writers,                   \* the processes that write
    Chars,                     \* the bytes that are shown, besides the space
    Texts                      \* the strings they write, without the final 0

SIZE == FB_NUM_COLS * FB_NUM_ROWS
Cells == 0 .. (SIZE - 1)

ASSUME sizeAssumption == /\ FB_NUM_COLS \in Nat \ {0} /\ FB_NUM_ROWS \in Nat \ {0}
                         /\ WORD \in Nat /\ SIZE + FB_NUM_COLS <= WORD

\* '\n', FB_BACKSPACE_ASCII and '\t', and the check with which the call for a tab
\* ends after those for its four spaces; every other byte is shown.
Control == {"newline", "backspace", "tab", "tab_end"}
Shown == Chars \cup {"blank"}
Bytes == Shown \cup Control

ASSUME textAssumption == /\ Texts \subseteq Seq(Bytes \ {"tab_end"})
                         /\ Chars \cap Control = {}

VARIABLES
    screen,      \* the visible part of fb
    cursor_pos,
    put,         \* the call of fb_write each writer is in
    paper,       \* history: what was written before writers overlapped, on paper
                 \* that never scrolls
    overlapped   \* history: two writers have been in fb_write at once

fb_vars == <<screen, cursor_pos, put, paper, overlapped>>

Call(at, s) == [at |-> at, b |-> "blank", s |-> s, loc |-> 0]
Idle == Call("idle", <<>>)
Blank(n) == [i \in 1 .. n |-> "blank"]
NewPaper == [text |-> Blank(SIZE), pos |-> 0]

-----------------------------------------------------------------------------
(***************************************************************************)
(* What a terminal should show: a page of rows that grows at its end.  The *)
(* cursor is at pos, the last SIZE cells are visible.                      *)
(***************************************************************************)
Grown(p) == IF p.pos < Len(p.text) THEN p
            ELSE [p EXCEPT !.text = @ \o Blank(FB_NUM_COLS)]

Printed(p, b) ==
    CASE b = "newline"   -> Grown([p EXCEPT !.pos = (@ \div FB_NUM_COLS + 1) * FB_NUM_COLS])
      [] b = "backspace" -> LET q == IF p.pos > Len(p.text) - SIZE THEN p.pos - 1 ELSE p.pos
                            IN  [text |-> [p.text EXCEPT ![q + 1] = "blank"], pos |-> q]
      [] OTHER           -> Grown([text |-> [p.text EXCEPT ![p.pos + 1] = b],
                                   pos |-> p.pos + 1])

OnPaper(b) == paper' = IF overlapped \/ b = "tab_end" THEN paper ELSE Printed(paper, b)

-----------------------------------------------------------------------------
\* fb_clear, called by kmain before anything is written.
fb_clear ==
    /\ screen = [c \in Cells |-> "blank"]
    /\ cursor_pos = 0
    /\ paper = NewPaper

FbInit == fb_clear /\ put = [w \in Writers |-> Idle] /\ overlapped = FALSE

GoTo(w, at) == put' = [put EXCEPT ![w].at = at]

\* A write behind the screen goes to video memory that nobody reads.
write_cell(b) == screen' = IF cursor_pos \in Cells THEN [screen EXCEPT ![cursor_pos] = b]
                                                   ELSE screen

\* fb_write ignores the length it is given: s is the string up to its final 0.
fb_write(w, s) ==
    /\ put[w] = Idle
    /\ put' = [put EXCEPT ![w] = Call("put_s", s)]
    /\ overlapped' = (overlapped \/ \E v \in Writers : put[v] # Idle)
    /\ paper' = IF overlapped' THEN NewPaper ELSE paper
    /\ UNCHANGED <<screen, cursor_pos>>

\* The loop of fb_put_s, and where fb_put_b goes with the next byte.  A tab is four
\* calls for a space.
Place(b) == CASE b = "newline"   -> "load"
              [] b = "backspace" -> "test"
              [] b = "tab_end"   -> "check"
              [] OTHER           -> "write"

fb_put_s(w) ==
    LET s == put[w].s IN
    /\ put[w].at = "put_s"
    /\ put' = [put EXCEPT ![w] =
                 IF s = <<>> THEN Idle
                 ELSE IF Head(s) = "tab"
                 THEN [@ EXCEPT !.s = <<"blank", "blank", "blank", "blank", "tab_end">> \o Tail(s)]
                 ELSE [@ EXCEPT !.s = Tail(s), !.b = Head(s), !.at = Place(Head(s))]]
    /\ UNCHANGED <<screen, cursor_pos, paper, overlapped>>

\* The byte is stored at the cursor.
fb_put_b(w) ==
    /\ put[w].at = "write"
    /\ write_cell(put[w].b)
    /\ GoTo(w, "load")
    /\ UNCHANGED <<cursor_pos, paper, overlapped>>

\* move_cursor_back tests the position before it loads it again: at 0 nothing is stored.
test(w) ==
    /\ put[w].at = "test"
    /\ GoTo(w, IF cursor_pos # 0 THEN "load" ELSE "erase")
    /\ UNCHANGED <<screen, cursor_pos, paper, overlapped>>

\* move_cursor_forward, move_cursor_back and move_cursor_down load cursor_pos ...
Moved(b) == CASE b = "newline"   -> (cursor_pos + FB_NUM_COLS) % WORD
              [] b = "backspace" -> (cursor_pos - 1) % WORD
              [] OTHER           -> (cursor_pos + 1) % WORD

load(w) ==
    /\ put[w].at = "load"
    /\ put' = [put EXCEPT ![w].loc = Moved(put[w].b), ![w].at = "store"]
    /\ UNCHANGED <<screen, cursor_pos, paper, overlapped>>

\* ... and move_cursor_start loads it twice: the position, and the position of which it
\* takes the column, in the order the compiler chooses.
load_start(w) ==
    /\ put[w].at = "load_start"
    /\ put' = [put EXCEPT ![w].loc = cursor_pos, ![w].at = "load_column"]
    /\ UNCHANGED <<screen, cursor_pos, paper, overlapped>>

Started(pos, col) == (pos - (col % FB_NUM_COLS)) % WORD

load_column(w) ==
    /\ put[w].at = "load_column"
    /\ \E loc \in {Started(put[w].loc, cursor_pos), Started(cursor_pos, put[w].loc)} :
          put' = [put EXCEPT ![w].loc = loc, ![w].at = "store_start"]
    /\ UNCHANGED <<screen, cursor_pos, paper, overlapped>>

\* Mutant: a newline is not checked.
StoreUnchecked(w) ==
    /\ put[w].at \in {"store", "store_start"}
    /\ cursor_pos' = put[w].loc
    /\ GoTo(w, IF put[w].at = "store_start" THEN "put_s"
               ELSE IF put[w].b = "newline" THEN "load_start"
               ELSE IF put[w].b = "backspace" THEN "erase" ELSE "check")
    /\ UNCHANGED <<screen, paper, overlapped>>

\* ... and each writes it back.
store(w) ==
    LET b == put[w].b IN
    /\ put[w].at \in {"store", "store_start"}
    /\ cursor_pos' = put[w].loc
    /\ GoTo(w, IF put[w].at = "store_start" THEN "check"
               ELSE IF b = "newline" THEN "load_start"
               ELSE IF b = "backspace" THEN "erase" ELSE "check")
    /\ UNCHANGED <<screen, paper, overlapped>>

\* The space that a backspace leaves.
erase(w) ==
    /\ put[w].at = "erase"
    /\ write_cell("blank")
    /\ GoTo(w, "check")
    /\ UNCHANGED <<cursor_pos, paper, overlapped>>

\* Mutant: the position behind the screen passes.
CheckLate(w) ==
    /\ put[w].at = "check"
    /\ GoTo(w, IF cursor_pos <= SIZE THEN "put_s" ELSE "scroll")
    /\ UNCHANGED <<screen, cursor_pos, paper, overlapped>>

\* The end of fb_put_b.
check(w) ==
    LET done == cursor_pos < SIZE IN
    /\ put[w].at = "check"
    /\ GoTo(w, IF done THEN "put_s" ELSE "scroll")
    /\ IF done THEN OnPaper(put[w].b) ELSE UNCHANGED paper
    /\ UNCHANGED <<screen, cursor_pos, overlapped>>

\* Mutant: the last row is not cleared.
ScrollUp(w) ==
    /\ put[w].at = "scroll"
    /\ screen' = [c \in Cells |-> IF c + FB_NUM_COLS \in Cells THEN screen[c + FB_NUM_COLS]
                                  ELSE screen[c]]
    /\ GoTo(w, "home")
    /\ UNCHANGED <<cursor_pos, paper, overlapped>>

scroll(w) ==
    /\ put[w].at = "scroll"
    /\ screen' = [c \in Cells |-> IF c + FB_NUM_COLS \in Cells THEN screen[c + FB_NUM_COLS]
                                  ELSE "blank"]
    /\ GoTo(w, "home")
    /\ UNCHANGED <<cursor_pos, paper, overlapped>>

\* fb_move_cursor(24, 0)
fb_move_cursor(w) ==
    /\ put[w].at = "home"
    /\ cursor_pos' = (FB_NUM_ROWS - 1) * FB_NUM_COLS
    /\ OnPaper(put[w].b)
    /\ GoTo(w, "put_s")
    /\ UNCHANGED <<screen, overlapped>>

Step(w) == \/ fb_put_s(w) \/ fb_put_b(w) \/ test(w) \/ load(w) \/ load_start(w)
           \/ load_column(w) \/ store(w) \/ erase(w) \/ check(w) \/ scroll(w) \/ fb_move_cursor(w)

FbNext == \E w \in Writers : Step(w) \/ \E s \in Texts : fb_write(w, s)

FbSpec == FbInit /\ [][FbNext]_fb_vars

-----------------------------------------------------------------------------
(***************************************************************************)
(* Properties.                                                             *)
(***************************************************************************)
Places == {"idle", "put_s", "write", "test", "load", "store", "load_start", "load_column",
           "store_start", "erase", "check", "scroll", "home"}

\* The variables keep their types: cursor_pos stays a uint16_t, although two backspaces
\* may take it below 0.
FbTypeOK ==
    /\ screen \in [Cells -> Shown]
    /\ cursor_pos \in 0 .. (WORD - 1)
    /\ put \in [Writers -> [at : Places, b : Bytes, s : Seq(Bytes), loc : 0 .. (WORD - 1)]]
    /\ overlapped \in BOOLEAN

\* The cursor is on the screen whenever no byte is under way, whatever writers do to
\* each other: two backspaces that both find position 1 leave the largest uint16_t, but a
\* check of fb_put_b follows every store to cursor_pos.
CursorOnScreen ==
    (\A w \in Writers : put[w].at \in {"idle", "put_s"}) => cursor_pos \in Cells

\* Unless writers overlap, fb_put_b never writes behind the screen.
NoStrayWrite ==
    ~overlapped => \A w \in Writers : put[w].at \in {"write", "erase"} => cursor_pos \in Cells

\* Unless writers overlap, the screen shows the end of everything that was written,
\* between any two bytes: control characters, the end of a line and scrolling work.
ShowsText ==
    (~overlapped /\ \A w \in Writers : put[w].at \in {"idle", "put_s"}) =>
        LET top == Len(paper.text) - SIZE IN
        /\ screen = [c \in Cells |-> paper.text[top + c + 1]]
        /\ cursor_pos = paper.pos - top
=============================================================================

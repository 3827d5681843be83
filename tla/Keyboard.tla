------------------------------- MODULE Keyboard -------------------------------
(***************************************************************************)
(* The keyboard driver of aenix, kernel/keyboard.c: the ring buffer that   *)
(* the interrupt handler fills and kbd_read empties, without a lock, and   *)
(* the translation of scan codes into characters.                          *)
(*                                                                         *)
(* The gate of the interrupt is a trap gate, so the handler runs with      *)
(* interrupts enabled: the timer may suspend it at any store and run a     *)
(* process that is in kbd_read.  It is not entered a second time before it *)
(* acknowledges the interrupt.                                             *)
(***************************************************************************)
EXTENDS Integers, Sequences, SequencesExt, FiniteSets

CONSTANTS
    KBD_BUFFER_SIZE, \* bytes in the buffer (512 in the code)
    Readers,         \* processes that read /dev/keyboard
    NONE,            \* no scan code
    Keys,            \* the keys that are pressed: some of AllKeys
    MAX_READ,        \* bound: the largest count passed to kbd_read
    WORD             \* size_t counts modulo WORD (2^32 in the code)

\* Keys by what the driver does with them; "esc" stands for a key it ignores.
AllKeys == {"a", "dash", "enter", "lshift", "rshift", "capslock", "esc"}
Codes == [key : Keys, break : BOOLEAN]
Zero == [key |-> "nokey", break |-> FALSE] \* the byte 0, which is no key's code

ASSUME KeysAssumption == Keys \subseteq AllKeys /\ NONE \notin Codes
ASSUME SizeAssumption == /\ KBD_BUFFER_SIZE \in Nat \ {0}
                         /\ MAX_READ \in Nat \ {0} /\ MAX_READ < WORD /\ WORD \in Nat

VARIABLES
    port,       \* the byte at KBD_DATA_PORT that has not been read
    irq,        \* the keyboard's interrupt is requested
    down,       \* the keys that are held down
    buffer, head, tail, count, \* kbd_buffer; head and tail are indices
    modifiers,  \* is_lshift_down, is_rshift_down and is_caps_lock_pressed
    isr,        \* the interrupt handler: what is left of it, and its old tail
    reader,     \* the calls of kbd_read, per reader
    stored,     \* history: the codes the handler has stored
    taken,      \* history: the codes the readers have taken
    overlapped  \* history: a reader has looked at a tail that the handler was
                \* about to repair, or two readers have taken codes at once

hardware == <<port, irq, down>>
kbd_buffer == <<buffer, head, tail, count>>
vars == <<port, irq, down, buffer, head, tail, count, modifiers, isr, reader,
          stored, taken, overlapped>>

-----------------------------------------------------------------------------
(***************************************************************************)
(* The keyboard controller: it holds one byte and requests the interrupt   *)
(* when the byte arrives; the next byte waits until the port has been read.*)
(* A key that is held down may send its code again.                        *)
(***************************************************************************)
Type(k) ==
    /\ port = NONE
    /\ \E break \in BOOLEAN :
          /\ break => k \in down
          /\ port' = [key |-> k, break |-> break]
          /\ down' = IF break THEN down \ {k} ELSE down \cup {k}
    /\ irq' = TRUE
    /\ UNCHANGED <<kbd_buffer, modifiers, isr, reader, stored, taken, overlapped>>

-----------------------------------------------------------------------------
(***************************************************************************)
(* keyboard_handle_interrupt.                                              *)
(***************************************************************************)
Returned == [todo |-> {}, slot |-> 0]

\* Mutant: one code too many is accepted.
HandleOneTooMany ==
    /\ irq /\ isr = Returned
    /\ irq' = FALSE
    /\ isr' = IF count <= KBD_BUFFER_SIZE
              THEN [todo |-> {"advance", "store", "count", "wrap"}, slot |-> tail]
              ELSE Returned
    /\ UNCHANGED <<port, down, kbd_buffer, modifiers, reader, stored, taken, overlapped>>

\* The handler is entered: with count at the limit the port is not even read.
keyboard_handle_interrupt ==
    /\ irq /\ isr = Returned
    /\ irq' = FALSE
    /\ isr' = IF count < KBD_BUFFER_SIZE
              THEN [todo |-> {"advance", "store", "count", "wrap"}, slot |-> tail]
              ELSE Returned
    /\ UNCHANGED <<port, down, kbd_buffer, modifiers, reader, stored, taken, overlapped>>

Done(what) == isr' = IF isr.todo = {what} THEN Returned
                                          ELSE [isr EXCEPT !.todo = @ \ {what}]

\* Mutant: the tail is not advanced (*kbd_buffer.tail = ...).
TailStays ==
    /\ "advance" \in isr.todo
    /\ tail' = isr.slot
    /\ Done("advance")
    /\ UNCHANGED <<hardware, buffer, head, count, modifiers, reader, stored, taken, overlapped>>

\* *kbd_buffer.tail++ = kbd_read_scan_code(): C leaves the order of the two
\* stores open.
advance_tail ==
    /\ "advance" \in isr.todo
    /\ tail' = isr.slot + 1
    /\ Done("advance")
    /\ UNCHANGED <<hardware, buffer, head, count, modifiers, reader, stored, taken, overlapped>>

store_scan_code ==
    /\ "store" \in isr.todo
    /\ buffer' = [buffer EXCEPT ![isr.slot] = port]
    /\ stored' = Append(stored, port)
    /\ port' = NONE
    /\ Done("store")
    /\ UNCHANGED <<irq, down, head, tail, count, modifiers, reader, taken, overlapped>>

increment_count ==
    /\ "count" \in isr.todo /\ isr.todo \cap {"advance", "store"} = {}
    /\ count' = count + 1
    /\ Done("count")
    /\ UNCHANGED <<hardware, buffer, head, tail, modifiers, reader, stored, taken, overlapped>>

\* Mutant: off by one, the tail wraps one slot too early.
WrapTooEarly ==
    /\ isr.todo = {"wrap"}
    /\ tail' = IF tail = KBD_BUFFER_SIZE - 1 THEN 0 ELSE tail
    /\ Done("wrap")
    /\ UNCHANGED <<hardware, buffer, head, count, modifiers, reader, stored, taken, overlapped>>

\* the tail wraps around, and pic_acknowledge
wrap_tail ==
    /\ isr.todo = {"wrap"}
    /\ tail' = IF tail = KBD_BUFFER_SIZE THEN 0 ELSE tail
    /\ Done("wrap")
    /\ UNCHANGED <<hardware, buffer, head, count, modifiers, reader, stored, taken, overlapped>>

-----------------------------------------------------------------------------
(***************************************************************************)
(* kbd_scan_code_to_ascii: the new modifiers, and the character, or NONE   *)
(* where the code returns -1.  A character is its key and whether it is    *)
(* the shifted one.                                                        *)
(***************************************************************************)
Letters == {"a"}
Printable == {"a", "dash", "enter"}

\* Mutant: the release of a shift key is not handled.
TogglesOnPress(code) ==
    IF code.break THEN IF code.key = "capslock" THEN {"capslock"} ELSE {}
                  ELSE {code.key} \cap {"lshift", "rshift"}

\* toggle_left_shift and toggle_right_shift on press and release,
\* toggle_caps_lock on release
Toggles(code) ==
    {code.key} \cap (IF code.break THEN {"lshift", "rshift", "capslock"}
                                   ELSE {"lshift", "rshift"})

NewModifiers(mods, code) ==
    (mods \ Toggles(code)) \cup (Toggles(code) \ mods)

\* handle_caps_lock, then handle_shift
Shifted(mods, key) ==
    \/ key \in Letters /\ "capslock" \in mods
    \/ key \in {"a", "dash"} /\ mods \cap {"lshift", "rshift"} # {}

kbd_scan_code_to_ascii(mods, code) ==
    IF code.break \/ code.key \notin Printable THEN NONE
    ELSE [key |-> code.key, shifted |-> Shifted(mods, code.key)]

-----------------------------------------------------------------------------
(***************************************************************************)
(* kbd_read.                                                               *)
(***************************************************************************)
\* The tail counts a code that is not stored yet, or is past the end.
TailTorn == \/ "store" \in isr.todo /\ "advance" \notin isr.todo
            \/ tail = KBD_BUFFER_SIZE
OtherTakes(r) == \E q \in Readers \ {r} : reader[q].pc \in {"load", "take"}

NoCall == [pc |-> "idle", left |-> 0, i |-> 0, requested |-> 0, old |-> 0]
Goto(r, pc) == reader' = [reader EXCEPT ![r].pc = pc]

kbd_read(r) ==
    /\ reader[r].pc = "idle"
    /\ \E n \in 0 .. MAX_READ :
          reader' = [reader EXCEPT ![r] = [NoCall EXCEPT !.pc = "outer", !.left = n,
                                                         !.requested = n]]
    /\ UNCHANGED <<hardware, kbd_buffer, modifiers, isr, stored, taken, overlapped>>

\* while (count > 0), and the return
outer_loop(r) ==
    /\ reader[r].pc = "outer"
    /\ \/ reader[r].left > 0 /\ Goto(r, "inner")
       \/ reader[r].left = 0 /\ reader' = [reader EXCEPT ![r] = NoCall]
    /\ UNCHANGED <<hardware, kbd_buffer, modifiers, isr, stored, taken, overlapped>>

\* while (kbd_buffer.head != kbd_buffer.tail)
inner_loop(r) ==
    /\ reader[r].pc = "inner"
    /\ Goto(r, IF head # tail THEN "load" ELSE "outer")
    /\ overlapped' = (overlapped \/ TailTorn \/ OtherTakes(r))
    /\ UNCHANGED <<hardware, kbd_buffer, modifiers, isr, stored, taken>>

\* *kbd_buffer.head++ loads head before it stores head + 1
load_head(r) ==
    /\ reader[r].pc = "load"
    /\ reader' = [reader EXCEPT ![r].pc = "take", ![r].old = head]
    /\ UNCHANGED <<hardware, kbd_buffer, modifiers, isr, stored, taken, overlapped>>

\* Mutant: the code is loaded after the increment.
TakeNext(r) ==
    LET code == buffer[(reader[r].old + 1) % KBD_BUFFER_SIZE]
        ch == kbd_scan_code_to_ascii(NewModifiers(modifiers, code), code)
        next == reader[r].old + 1
    IN  /\ reader[r].pc = "take"
        /\ head' = IF next = KBD_BUFFER_SIZE THEN 0 ELSE next
        /\ modifiers' = NewModifiers(modifiers, code)
        /\ reader' = [reader EXCEPT ![r].pc = "inner", ![r].old = 0,
                                    ![r].i = IF ch = NONE THEN @ ELSE @ + 1,
                                    ![r].left = IF ch = NONE THEN @ ELSE (@ - 1) % WORD]
        /\ taken' = Append(taken, code)
        /\ UNCHANGED <<hardware, buffer, tail, count, isr, stored, overlapped>>

\* the rest of the loop's body: count is not tested before the next code
take_code(r) ==
    LET code == buffer[reader[r].old]
        ch == kbd_scan_code_to_ascii(NewModifiers(modifiers, code), code)
        next == reader[r].old + 1
    IN  /\ reader[r].pc = "take"
        /\ head' = IF next = KBD_BUFFER_SIZE THEN 0 ELSE next
        /\ modifiers' = NewModifiers(modifiers, code)
        /\ reader' = [reader EXCEPT ![r].pc = "inner", ![r].old = 0,
                                    ![r].i = IF ch = NONE THEN @ ELSE @ + 1,
                                    ![r].left = IF ch = NONE THEN @ ELSE (@ - 1) % WORD]
        /\ taken' = Append(taken, code)
        /\ UNCHANGED <<hardware, buffer, tail, count, isr, stored, overlapped>>

-----------------------------------------------------------------------------
\* kbd_init; the buffer is static and starts as zeros
Init ==
    /\ port = NONE /\ irq = FALSE /\ down = {}
    /\ buffer = [i \in 0 .. (KBD_BUFFER_SIZE - 1) |-> Zero]
    /\ head = 0 /\ tail = 0 /\ count = 0
    /\ modifiers = {}
    /\ isr = Returned
    /\ reader = [r \in Readers |-> NoCall]
    /\ stored = <<>> /\ taken = <<>> /\ overlapped = FALSE

Handler == \/ keyboard_handle_interrupt
           \/ advance_tail \/ store_scan_code \/ increment_count \/ wrap_tail

ReadStep(r) == outer_loop(r) \/ inner_loop(r) \/ load_head(r) \/ take_code(r)

Next == \/ \E k \in Keys : Type(k)
        \/ Handler
        \/ \E r \in Readers : kbd_read(r) \/ ReadStep(r)

Spec == Init /\ [][Next]_vars

\* The handler and every process run again and again; nobody has to type or read.
FairSpec == Spec /\ WF_vars(Handler) /\ \A r \in Readers : WF_vars(ReadStep(r))

-----------------------------------------------------------------------------
(***************************************************************************)
(* Properties.                                                             *)
(***************************************************************************)
Slots == 0 .. (KBD_BUFFER_SIZE - 1)

\* The variables keep their types; head and tail stay in the buffer.
TypeOK ==
    /\ port \in Codes \cup {NONE} /\ irq \in BOOLEAN /\ down \subseteq Keys
    /\ buffer \in [Slots -> Codes \cup {Zero}]
    /\ head \in Slots /\ tail \in 0 .. KBD_BUFFER_SIZE /\ count \in 0 .. KBD_BUFFER_SIZE
    /\ modifiers \subseteq {"lshift", "rshift", "capslock"}
    /\ isr \in [todo : SUBSET {"advance", "store", "count", "wrap"}, slot : Slots]
    /\ reader \in [Readers -> [pc : {"idle", "outer", "inner", "load", "take"},
                              left : 0 .. (WORD - 1), i : Nat,
                              requested : 0 .. MAX_READ, old : Slots]]
    /\ overlapped \in BOOLEAN

\* Unless a reader looks at a torn tail or two readers take codes at once, the
\* readers get the codes in the order of typing: none lost, doubled or made up.
FIFO == ~overlapped => IsPrefix(taken, stored)

\* Unless they overlap so, and when nobody is in the middle of a change, the slots
\* between head and tail are the codes that are stored and not taken.  The one
\* exception: a buffer filled up before anything was read looks empty.
Distance == (tail - head) % KBD_BUFFER_SIZE
FilledUnread == Len(stored) = KBD_BUFFER_SIZE /\ taken = <<>>
VisibleUnread ==
    (~overlapped /\ isr = Returned /\ ~FilledUnread) =>
        /\ Distance = Len(stored) - Len(taken)
        /\ \A i \in 0 .. (Distance - 1) :
              buffer[(head + i) % KBD_BUFFER_SIZE] = stored[Len(taken) + i + 1]

\* Unless a held key sent its code again, is_lshift_down and is_rshift_down say
\* whether the key was down at the code taken last, and is_caps_lock_pressed
\* whether caps lock has been released an odd number of times.
Repeated(k) ==
    \E i, j \in 1 .. Len(taken) :
        /\ i < j /\ taken[i] = [key |-> k, break |-> FALSE] /\ taken[j] = taken[i]
        /\ \A m \in (i + 1) .. (j - 1) : taken[m].key # k
DownAtLast(k) ==
    \E i \in 1 .. Len(taken) :
        /\ taken[i] = [key |-> k, break |-> FALSE]
        /\ \A m \in (i + 1) .. Len(taken) : taken[m].key # k
ModifiersTracked ==
    ~overlapped =>
        /\ \A k \in Keys \cap {"lshift", "rshift"} :
              ~Repeated(k) => (k \in modifiers <=> DownAtLast(k))
        /\ "capslock" \in modifiers <=>
              Cardinality({i \in 1 .. Len(taken) :
                             taken[i] = [key |-> "capslock", break |-> TRUE]}) % 2 = 1

\* A code that is stored while a reader waits is taken, or the reader has got all
\* it asked for; unless readers overlap or the buffer was filled unread.
Delivered ==
    \A r \in Readers, n \in 1 .. KBD_BUFFER_SIZE :
        (Len(stored) >= n /\ reader[r].pc # "idle" /\ reader[r].i < reader[r].requested)
        ~> (\/ Len(taken) >= n \/ reader[r].i >= reader[r].requested
            \/ overlapped \/ FilledUnread)

\* What the design says: new input is discarded when the buffer is full, that is,
\* when it holds KBD_BUFFER_SIZE codes that nobody has taken.
DiscardOnlyWhenFull ==
    [][(irq /\ ~irq' /\ isr' = Returned) =>
       Len(stored) - Len(taken) >= KBD_BUFFER_SIZE]_vars
=============================================================================

--------------------------- MODULE KeyboardProofs ---------------------------
(***************************************************************************)
(* Proofs about Keyboard, for every size of the buffer, every number of    *)
(* readers and every set of keys: types, the order in which codes are      *)
(* delivered, what the buffer holds, and the shift and caps lock state.    *)
(*                                                                         *)
(* The argument rests on what keyboard.c makes of count: it is never       *)
(* decremented, so the n-th code that is stored goes to slot n - 1, and    *)
(* none is ever overwritten.                                               *)
(***************************************************************************)
EXTENDS Keyboard, FiniteSetTheorems, TLAPS

\* Where the slots wrap around.
Wrapped(n) == IF n = KBD_BUFFER_SIZE THEN 0 ELSE n

\* How far the handler can be: C leaves the order of the first two stores open.
Phases == {{}, {"advance", "store", "count", "wrap"}, {"store", "count", "wrap"},
           {"advance", "count", "wrap"}, {"count", "wrap"}, {"wrap"}}

HandlerOK ==
    /\ isr.todo \in Phases
    /\ isr.todo = {} => isr = Returned
    /\ irq => port # NONE
    /\ "store" \in isr.todo => port # NONE /\ ~irq

\* The n-th code is in slot n - 1; tail and count keep up with it when the handler has
\* done its part.
BufferOK ==
    /\ stored \in Seq(Codes) /\ Len(stored) <= KBD_BUFFER_SIZE
    /\ \A i \in 1 .. Len(stored) : buffer[i - 1] = stored[i]
    /\ isr.todo = {} => count = Len(stored) /\ tail = Wrapped(Len(stored))
    /\ isr.todo # {} =>
          /\ Len(stored) = IF "store" \in isr.todo THEN isr.slot ELSE isr.slot + 1
          /\ count = IF "count" \in isr.todo THEN isr.slot ELSE isr.slot + 1
          /\ tail = IF "advance" \in isr.todo THEN isr.slot ELSE isr.slot + 1

\* The codes a reader that looks at a whole tail may take.
Visible == IF "advance" \in isr.todo THEN isr.slot ELSE Len(stored)

Taking(r) == reader[r].pc \in {"load", "take"}

\* What was taken is what was stored, and the one reader that is taking a code has one
\* to take.
InStep ==
    /\ Len(taken) <= Visible
    /\ \A i \in 1 .. Len(taken) : taken[i] = stored[i]
    /\ head = Wrapped(Len(taken))
    /\ \A r \in Readers : Taking(r) => Len(taken) < Visible
    /\ \A r \in Readers : reader[r].pc = "take" => reader[r].old = head
    /\ \A q, r \in Readers : Taking(q) /\ Taking(r) => q = r

\* What was typed: a key is held down since it was pressed, and is only released then.
Typed == IF port = NONE THEN stored ELSE Append(stored, port)
Press(k) == [key |-> k, break |-> FALSE]
HeldSince(s, k, i, n) == /\ i \in 1 .. n /\ s[i] = Press(k)
                         /\ \A m \in (i + 1) .. n : s[m].key # k
Held(s, k, n) == \E i \in 1 .. n : HeldSince(s, k, i, n)
TypedOK ==
    /\ \A k \in Keys : k \in down => Held(Typed, k, Len(Typed))
    /\ \A i \in 1 .. Len(Typed) : Typed[i].break => Held(Typed, Typed[i].key, i - 1)

Inv == /\ TypeOK /\ taken \in Seq(Codes \cup {Zero})
       /\ HandlerOK /\ BufferOK /\ TypedOK
       /\ ~overlapped => InStep
       /\ ModifiersTracked

-----------------------------------------------------------------------------
\* Sequences.
LEMMA Appended ==
    ASSUME NEW S, NEW s \in Seq(S), NEW e \in S
    PROVE  /\ Append(s, e) \in Seq(S) /\ Len(s) \in Nat
           /\ Len(Append(s, e)) = Len(s) + 1
           /\ \A i \in 1 .. Len(s) : Append(s, e)[i] = s[i]
           /\ Append(s, e)[Len(s) + 1] = e
  OBVIOUS

\* The positions wrap at the end of the buffer, which has a slot at least.
LEMMA Sizes == /\ KBD_BUFFER_SIZE \in Nat /\ KBD_BUFFER_SIZE > 0
               /\ \A n \in 0 .. KBD_BUFFER_SIZE : Wrapped(n) \in Slots
               /\ Returned.todo = {} /\ Returned.slot = 0
  BY SizeAssumption DEF Wrapped, Slots, Returned

\* One part of the handler is done.
LEMMA DoneLemma ==
    ASSUME TypeOK, NEW what \in isr.todo, Done(what)
    PROVE  /\ isr'.todo = isr.todo \ {what}
           /\ isr'.todo # {} => isr'.slot = isr.slot
           /\ isr'.todo = {} => isr' = Returned
           /\ isr' \in [todo : SUBSET {"advance", "store", "count", "wrap"}, slot : Slots]
<1>1. isr \in [todo : SUBSET {"advance", "store", "count", "wrap"}, slot : Slots]
  BY DEF TypeOK
<1>2. CASE isr.todo = {what}
  BY <1>1, <1>2, Sizes DEF Done, Returned, Slots
<1>3. CASE isr.todo # {what}
  <2>1. isr' = [isr EXCEPT !.todo = @ \ {what}]
    BY <1>3 DEF Done
  <2>2. isr.todo \ {what} # {}
    BY <1>3
  <2> QED
    BY <1>1, <2>1, <2>2
<1> QED
  BY <1>2, <1>3

\* How the parts of the handler follow each other.
LEMMA PhaseLemma ==
    ASSUME NEW todo \in Phases
    PROVE  /\ "advance" \in todo => /\ todo \ {"advance"} \in Phases
                                    /\ "count" \in todo /\ "wrap" \in todo
           /\ "store" \in todo => /\ todo \ {"store"} \in Phases
                                  /\ "count" \in todo /\ "wrap" \in todo
           /\ "count" \in todo /\ todo \cap {"advance", "store"} = {} =>
                  todo = {"count", "wrap"} /\ todo \ {"count"} = {"wrap"}
           /\ {"wrap"} \in Phases /\ {} \in Phases
           /\ {"advance", "store", "count", "wrap"} \in Phases
           /\ todo # {} => "wrap" \in todo
<1>1. "advance" \in todo => todo \ {"advance"} \in {{"store", "count", "wrap"}, {"count", "wrap"}}
  BY DEF Phases
<1>2. "store" \in todo => todo \ {"store"} \in {{"advance", "count", "wrap"}, {"count", "wrap"}}
  BY DEF Phases
<1>3. "count" \in todo /\ todo \cap {"advance", "store"} = {} => todo = {"count", "wrap"}
  BY DEF Phases
<1> QED
  BY <1>1, <1>2, <1>3 DEF Phases

\* At the start nothing is typed, stored or taken.
LEMMA InitKeyboard == Init => Inv
<1> SUFFICES ASSUME Init PROVE Inv
  OBVIOUS
<1>1. TypeOK
  <2>1. buffer \in [Slots -> Codes \cup {Zero}] /\ 0 \in Slots
    BY Sizes DEF Init, Slots
  <2>2. NoCall \in [pc : {"idle", "outer", "inner", "load", "take"}, left : 0 .. (WORD - 1),
                    i : Nat, requested : 0 .. MAX_READ, old : Slots]
    BY <2>1, SizeAssumption DEF NoCall
  <2>3. /\ port \in Codes \cup {NONE} /\ down \subseteq Keys
        /\ tail \in 0 .. KBD_BUFFER_SIZE /\ count \in 0 .. KBD_BUFFER_SIZE
        /\ modifiers \subseteq {"lshift", "rshift", "capslock"}
    BY Sizes DEF Init
  <2>4. isr \in [todo : SUBSET {"advance", "store", "count", "wrap"}, slot : Slots]
    BY <2>1 DEF Init, Returned
  <2> QED
    BY <2>1, <2>2, <2>3, <2>4 DEF Init, TypeOK
<1>2. stored = <<>> /\ taken = <<>> /\ Len(stored) = 0 /\ Len(taken) = 0 /\ Typed = <<>>
  BY DEF Init, Typed
<1>3. HandlerOK
  <2>1. isr = Returned /\ isr.todo = {} /\ ~irq /\ {} \in Phases
    BY Sizes DEF Init, Phases
  <2> QED
    BY <2>1 DEF HandlerOK
<1>4. BufferOK
  BY <1>2, Sizes DEF Init, BufferOK, Wrapped
<1>5. TypedOK
  BY <1>2 DEF Init, TypedOK
<1>6. InStep
  BY <1>2, Sizes DEF Init, InStep, Visible, Wrapped, Taking, NoCall, Returned
<1>7. ModifiersTracked
  <2>1. {i \in 1 .. Len(taken) : taken[i] = [key |-> "capslock", break |-> TRUE]} = {}
    BY <1>2
  <2>2. Cardinality({}) = 0
    BY FS_EmptySet
  <2> QED
    BY <1>2, <2>1, <2>2 DEF Init, ModifiersTracked, DownAtLast
<1>8. taken \in Seq(Codes \cup {Zero})
  BY <1>2
<1> QED
  BY <1>1, <1>3, <1>4, <1>5, <1>6, <1>7, <1>8 DEF Inv

-----------------------------------------------------------------------------
(***************************************************************************)
(* The keyboard and the handler.                                           *)
(***************************************************************************)

\* A key that is pressed is held down; one that is released was.
LEMMA TypeInv == ASSUME Inv, NEW k \in Keys, Type(k) PROVE Inv'
<1> USE DEF Inv
<1>1. /\ port = NONE /\ irq' = TRUE
      /\ UNCHANGED <<buffer, head, tail, count, modifiers, isr, reader, stored, taken, overlapped>>
  BY DEF Type, kbd_buffer
<1>2. PICK break \in BOOLEAN : /\ break => k \in down
                               /\ port' = [key |-> k, break |-> break]
                               /\ down' = IF break THEN down \ {k} ELSE down \cup {k}
  BY DEF Type
<1>3. port' \in Codes /\ port' # NONE /\ down' \subseteq Keys
  BY <1>2, KeysAssumption DEF Codes, TypeOK
<1>4. TypeOK'
  BY <1>1, <1>3 DEF TypeOK
<1>5. HandlerOK'
  BY <1>1, <1>3 DEF HandlerOK
<1>6. BufferOK'
  BY <1>1 DEF BufferOK
<1>7. ~overlapped' => InStep'
  BY <1>1 DEF InStep, Visible, Taking
<1>8. ModifiersTracked'
  BY <1>1 DEF ModifiersTracked, Repeated, DownAtLast
<1>9. TypedOK'
  <2> DEFINE n == Len(stored)
  <2>1. /\ Typed = stored /\ Typed' = Append(stored, port') /\ stored \in Seq(Codes)
    BY <1>1, <1>3 DEF Typed, BufferOK
  <2>2. /\ n \in Nat /\ Len(Typed') = n + 1 /\ Typed'[n + 1] = port'
        /\ \A i \in 1 .. n : Typed'[i] = stored[i]
    BY <1>3, <2>1, Appended
  <2>3. ASSUME NEW j \in Keys, j \in down', j # k PROVE Held(Typed, j, Len(Typed))'
    <3>1. j \in down
      BY <1>2, <2>3
    <3>2. PICK i \in 1 .. n : HeldSince(stored, j, i, n)
      BY <2>1, <3>1 DEF TypedOK, Held
    <3>3. HeldSince(Typed', j, i, n + 1)
      BY <1>2, <2>2, <2>3, <3>2 DEF HeldSince
    <3> QED
      BY <2>2, <3>3 DEF Held, HeldSince
  <2>4. ASSUME k \in down' PROVE Held(Typed, k, Len(Typed))'
    <3>1. port' = Press(k)
      BY <1>2, <2>4 DEF Press
    <3>2. HeldSince(Typed', k, n + 1, n + 1)
      BY <2>2, <3>1 DEF HeldSince
    <3> QED
      BY <2>2, <3>2 DEF Held, HeldSince
  <2>5. ASSUME NEW i \in 1 .. Len(Typed'), Typed'[i].break
        PROVE  Held(Typed', Typed'[i].key, i - 1)
    <3>1. CASE i = n + 1
      <4>1. k \in down /\ Typed'[i].key = k
        BY <1>2, <2>2, <2>5, <3>1
      <4>2. PICK m \in 1 .. n : HeldSince(stored, k, m, n)
        BY <2>1, <4>1 DEF TypedOK, Held
      <4>3. HeldSince(Typed', k, m, n)
        BY <2>2, <4>2 DEF HeldSince
      <4> QED
        BY <2>2, <3>1, <4>1, <4>3 DEF Held, HeldSince
    <3>2. CASE i # n + 1
      <4>1. i \in 1 .. n /\ Typed'[i] = stored[i]
        BY <2>2, <3>2
      <4>2. PICK m \in 1 .. (i - 1) : HeldSince(stored, stored[i].key, m, i - 1)
        BY <2>1, <2>5, <4>1 DEF TypedOK, Held
      <4>3. HeldSince(Typed', stored[i].key, m, i - 1)
        BY <2>2, <4>1, <4>2 DEF HeldSince
      <4> QED
        BY <4>1, <4>3 DEF Held, HeldSince
    <3> QED
      BY <3>1, <3>2
  <2> QED
    BY <2>3, <2>4, <2>5 DEF TypedOK
<1>10. (taken \in Seq(Codes \cup {Zero}))'
  BY <1>1
<1> QED
  BY <1>4, <1>5, <1>6, <1>7, <1>8, <1>9, <1>10

\* Nothing is typed or taken.
LEMMA SameHistory ==
    ASSUME Inv, UNCHANGED <<port, down, modifiers, stored, taken, overlapped>>
    PROVE  TypedOK' /\ ModifiersTracked' /\ (taken \in Seq(Codes \cup {Zero}))'
<1>1. Typed' = Typed
  BY DEF Typed
<1>2. TypedOK'
  BY <1>1 DEF Inv, TypedOK
<1>3. ModifiersTracked'
  BY DEF Inv, ModifiersTracked, Repeated, DownAtLast
<1> QED
  BY <1>2, <1>3 DEF Inv

LEMMA VisibleNat == Inv => Visible \in Nat /\ isr.slot \in Nat /\ Len(stored) \in Nat
  BY Sizes DEF Inv, TypeOK, Visible, BufferOK, Slots

\* The handler is entered; when count is at the limit it returns at once.
LEMMA HandleInv == ASSUME Inv, keyboard_handle_interrupt PROVE Inv'
<1> USE DEF Inv
<1> DEFINE all == {"advance", "store", "count", "wrap"}
<1>1. /\ irq /\ isr = Returned /\ irq' = FALSE
      /\ isr' = IF count < KBD_BUFFER_SIZE THEN [todo |-> all, slot |-> tail] ELSE Returned
      /\ UNCHANGED <<port, down, buffer, head, tail, count, modifiers, reader, stored, taken,
                     overlapped>>
  BY DEF keyboard_handle_interrupt, kbd_buffer
<1>2. isr.todo = {} /\ count = Len(stored) /\ tail = Wrapped(Len(stored)) /\ Len(stored) \in Nat
  BY <1>1, Sizes DEF BufferOK
<1>3. /\ TypedOK' /\ ModifiersTracked' /\ (taken \in Seq(Codes \cup {Zero}))'
  BY <1>1, SameHistory
<1>4. CASE count < KBD_BUFFER_SIZE
  <2>1. isr'.todo = all /\ isr'.slot = tail /\ tail = Len(stored) /\ tail \in Slots
    BY <1>1, <1>2, <1>4, Sizes DEF Wrapped, Slots
  <2>2. TypeOK'
    BY <1>1, <1>4, <2>1 DEF TypeOK
  <2>3. HandlerOK'
    <3>1. all \in Phases /\ all # {}
      BY DEF Phases
    <3>2. port # NONE
      BY <1>1 DEF HandlerOK
    <3> QED
      BY <1>1, <2>1, <3>1, <3>2 DEF HandlerOK
  <2>4. BufferOK'
    BY <1>1, <1>2, <2>1 DEF BufferOK
  <2>5. Visible' = Visible
    BY <1>1, <1>2, <2>1 DEF Visible
  <2>6. ~overlapped' => InStep'
    BY <1>1, <2>5 DEF InStep, Taking
  <2> QED
    BY <1>3, <2>2, <2>3, <2>4, <2>6
<1>5. CASE ~(count < KBD_BUFFER_SIZE)
  <2>1. isr' = isr
    BY <1>1, <1>5
  <2>2. TypeOK'
    BY <1>1, <2>1 DEF TypeOK
  <2>3. HandlerOK'
    BY <1>1, <1>2, <2>1 DEF HandlerOK
  <2>4. BufferOK' /\ (~overlapped' => InStep')
    BY <1>1, <2>1 DEF BufferOK, InStep, Visible, Taking
  <2> QED
    BY <1>3, <2>2, <2>3, <2>4
<1> QED
  BY <1>4, <1>5

\* What a part of the handler that does not touch the codes leaves alone.
LEMMA PartLemma ==
    ASSUME Inv, UNCHANGED <<hardware, buffer, head, modifiers, reader, stored, taken, overlapped>>,
           Visible' \in Nat, Visible' >= Visible
    PROVE  /\ TypedOK' /\ ModifiersTracked' /\ (taken \in Seq(Codes \cup {Zero}))'
           /\ ~overlapped' => InStep'
<1>1. TypedOK' /\ ModifiersTracked' /\ (taken \in Seq(Codes \cup {Zero}))'
  BY SameHistory DEF hardware
<1>2. Visible \in Nat /\ Len(taken) \in Nat
  BY VisibleNat DEF Inv
<1>3. ~overlapped' => InStep'
  BY <1>2 DEF Inv, InStep, Taking
<1> QED
  BY <1>1, <1>3

LEMMA advance_tailInv == ASSUME Inv, advance_tail PROVE Inv'
<1> USE DEF Inv
<1>1. /\ "advance" \in isr.todo /\ tail' = isr.slot + 1 /\ Done("advance")
      /\ UNCHANGED <<hardware, buffer, head, modifiers, reader, stored, taken, overlapped>>
      /\ count' = count
  BY DEF advance_tail
<1>2. /\ isr'.todo = isr.todo \ {"advance"} /\ isr.todo # {} /\ isr'.todo # {}
      /\ isr'.todo \in Phases
  BY <1>1, DoneLemma, PhaseLemma DEF HandlerOK
<1>3. isr'.slot = isr.slot /\ isr.slot \in Slots
  BY <1>1, <1>2, DoneLemma DEF TypeOK
<1>4. /\ "advance" \notin isr'.todo
      /\ "store" \in isr'.todo <=> "store" \in isr.todo
      /\ "count" \in isr'.todo <=> "count" \in isr.todo
  BY <1>2
<1>5. TypeOK'
  <2>1. tail' \in 0 .. KBD_BUFFER_SIZE
    <3>1. isr.slot \in 0 .. (KBD_BUFFER_SIZE - 1) /\ tail' = isr.slot + 1
      BY <1>1, <1>3 DEF Slots
    <3> HIDE DEF Inv
    <3> QED
      BY <3>1, Sizes
  <2>2. isr' \in [todo : SUBSET {"advance", "store", "count", "wrap"}, slot : Slots]
    BY <1>1, DoneLemma
  <2> QED
    BY <1>1, <2>1, <2>2 DEF TypeOK, hardware
<1>6. HandlerOK'
  BY <1>1, <1>2, <1>4 DEF HandlerOK, hardware
<1>7. BufferOK'
  BY <1>1, <1>2, <1>3, <1>4 DEF BufferOK
<1>8. Visible' \in Nat /\ Visible' >= Visible
  <2>1. Visible = isr.slot /\ Visible' = Len(stored)
    BY <1>1, <1>4 DEF Visible
  <2> QED
    BY <1>2, <2>1, VisibleNat DEF BufferOK
<1> QED
  BY <1>1, <1>5, <1>6, <1>7, <1>8, PartLemma

LEMMA increment_countInv == ASSUME Inv, increment_count PROVE Inv'
<1> USE DEF Inv
<1>1. /\ "count" \in isr.todo /\ isr.todo \cap {"advance", "store"} = {}
      /\ count' = count + 1 /\ Done("count")
      /\ UNCHANGED <<hardware, buffer, head, modifiers, reader, stored, taken, overlapped>>
      /\ tail' = tail
  BY DEF increment_count
<1>2. /\ isr.todo = {"count", "wrap"} /\ isr'.todo = {"wrap"} /\ isr'.todo \in Phases
  BY <1>1, DoneLemma, PhaseLemma DEF HandlerOK
<1>3. isr'.slot = isr.slot /\ isr.slot \in Slots
  BY <1>1, <1>2, DoneLemma DEF TypeOK
<1>4. count = isr.slot
  BY <1>2 DEF BufferOK
<1>5. TypeOK'
  <2>1. count' \in 0 .. KBD_BUFFER_SIZE
    BY <1>1, <1>3, <1>4, Sizes DEF Slots
  <2> QED
    BY <1>1, <2>1, DoneLemma DEF TypeOK, hardware
<1>6. HandlerOK'
  BY <1>1, <1>2 DEF HandlerOK, hardware
<1>7. BufferOK'
  BY <1>1, <1>2, <1>3, <1>4 DEF BufferOK
<1>8. Visible' \in Nat /\ Visible' >= Visible
  BY <1>1, <1>2 DEF Visible, BufferOK
<1> QED
  BY <1>1, <1>5, <1>6, <1>7, <1>8, PartLemma

LEMMA wrap_tailInv == ASSUME Inv, wrap_tail PROVE Inv'
<1> USE DEF Inv
<1>1. /\ isr.todo = {"wrap"} /\ Done("wrap")
      /\ tail' = IF tail = KBD_BUFFER_SIZE THEN 0 ELSE tail
      /\ UNCHANGED <<hardware, buffer, head, modifiers, reader, stored, taken, overlapped>>
      /\ count' = count
  BY DEF wrap_tail
<1>2. isr'.todo = {} /\ isr' = Returned /\ {} \in Phases
  BY <1>1, DoneLemma, PhaseLemma DEF HandlerOK
<1>3. count = Len(stored) /\ tail = Len(stored)
  BY <1>1 DEF BufferOK
<1>4. TypeOK'
  <2>1. tail' \in 0 .. KBD_BUFFER_SIZE /\ "wrap" \in isr.todo
    BY <1>1, Sizes DEF TypeOK
  <2> QED
    BY <1>1, <2>1, DoneLemma DEF TypeOK, hardware
<1>5. HandlerOK'
  BY <1>1, <1>2 DEF HandlerOK, hardware
<1>6. BufferOK'
  BY <1>1, <1>2, <1>3 DEF BufferOK, Wrapped
<1>7. Visible' \in Nat /\ Visible' >= Visible
  BY <1>1, <1>2 DEF Visible, BufferOK
<1> QED
  BY <1>1, <1>4, <1>5, <1>6, <1>7, PartLemma

\* The code goes behind the codes that are stored, and the port is free again.
LEMMA store_scan_codeInv == ASSUME Inv, store_scan_code PROVE Inv'
<1> USE DEF Inv
<1> DEFINE n == Len(stored)
<1>1. /\ "store" \in isr.todo /\ Done("store") /\ port' = NONE
      /\ buffer' = [buffer EXCEPT ![isr.slot] = port]
      /\ stored' = Append(stored, port)
      /\ UNCHANGED <<irq, down, head, tail, count, modifiers, reader, taken, overlapped>>
  BY DEF store_scan_code
<1>2. /\ isr'.todo = isr.todo \ {"store"} /\ isr.todo # {} /\ isr'.todo # {}
      /\ isr'.todo \in Phases
  BY <1>1, DoneLemma, PhaseLemma DEF HandlerOK
<1>3. isr'.slot = isr.slot /\ isr.slot \in Slots /\ n = isr.slot
  BY <1>1, <1>2, DoneLemma DEF TypeOK, BufferOK
<1>4. /\ "store" \notin isr'.todo
      /\ "advance" \in isr'.todo <=> "advance" \in isr.todo
      /\ "count" \in isr'.todo <=> "count" \in isr.todo
  BY <1>2
<1>5. port \in Codes /\ port # NONE /\ ~irq
  BY <1>1 DEF HandlerOK, TypeOK
<1>6. /\ stored' \in Seq(Codes) /\ n \in Nat /\ Len(stored') = n + 1
      /\ \A i \in 1 .. n : stored'[i] = stored[i]
      /\ stored'[n + 1] = port
  BY <1>1, <1>5, Appended DEF BufferOK
<1>7. TypeOK'
  BY <1>1, <1>3, <1>5, DoneLemma DEF TypeOK
<1>8. HandlerOK'
  BY <1>1, <1>2, <1>4, <1>5 DEF HandlerOK
<1>9. BufferOK'
  <2>1. buffer \in [Slots -> Codes \cup {Zero}]
    BY DEF TypeOK
  <2>2. \A i \in 1 .. (n + 1) : buffer'[i - 1] = stored'[i]
    BY <1>1, <1>3, <1>6, <2>1, Sizes DEF BufferOK, Slots
  <2>3. n + 1 <= KBD_BUFFER_SIZE
    BY <1>3, Sizes DEF Slots
  <2> QED
    BY <1>1, <1>2, <1>3, <1>4, <1>6, <2>2, <2>3 DEF BufferOK
<1>10. Typed' = Typed
  BY <1>1, <1>5 DEF Typed
<1>11. TypedOK'
  BY <1>1, <1>10 DEF TypedOK
<1>12. ModifiersTracked' /\ (taken \in Seq(Codes \cup {Zero}))'
  BY <1>1 DEF ModifiersTracked, Repeated, DownAtLast
<1>13. Visible \in Nat /\ Visible' \in Nat /\ Visible <= Visible' /\ Visible <= n
  <2>1. /\ Visible = IF "advance" \in isr.todo THEN isr.slot ELSE n
        /\ Visible' = IF "advance" \in isr.todo THEN isr.slot ELSE n + 1
    BY <1>3, <1>4, <1>6 DEF Visible
  <2> QED
    BY <1>3, <1>6, <2>1
<1>14. ~overlapped' => InStep'
  BY <1>1, <1>6, <1>13 DEF InStep, Taking
<1> QED
  BY <1>7, <1>8, <1>9, <1>11, <1>12, <1>14

-----------------------------------------------------------------------------
(***************************************************************************)
(* The readers.                                                            *)
(***************************************************************************)
ReadCalls == [pc : {"idle", "outer", "inner", "load", "take"}, left : 0 .. (WORD - 1),
              i : Nat, requested : 0 .. MAX_READ, old : Slots]

\* A step of a reader that takes nothing.
LEMMA LookLemma ==
    ASSUME Inv, UNCHANGED <<hardware, kbd_buffer, modifiers, isr, stored, taken>>,
           reader' \in [Readers -> ReadCalls], overlapped' \in BOOLEAN,
           ~overlapped' => ~overlapped,
           ~overlapped' => /\ \A r \in Readers : Taking(r)' => Len(taken) < Visible
                           /\ \A r \in Readers : reader'[r].pc = "take" => reader'[r].old = head
                           /\ \A q, r \in Readers : Taking(q)' /\ Taking(r)' => q = r
    PROVE  Inv'
<1> USE DEF Inv
<1>1. UNCHANGED <<port, irq, down, buffer, head, tail, count>>
  BY DEF hardware, kbd_buffer
<1>2. TypeOK'
  BY <1>1 DEF TypeOK, ReadCalls
<1>3. HandlerOK' /\ BufferOK'
  BY <1>1 DEF HandlerOK, BufferOK
<1>4. Typed' = Typed
  BY <1>1 DEF Typed
<1>5. TypedOK'
  BY <1>1, <1>4 DEF TypedOK
<1>6. ModifiersTracked'
  BY <1>1 DEF ModifiersTracked, Repeated, DownAtLast
<1>7. Visible' = Visible
  BY DEF Visible
<1>8. ~overlapped' => InStep'
  BY <1>1, <1>7 DEF InStep
<1> QED
  BY <1>2, <1>3, <1>5, <1>6, <1>8

LEMMA EnterInv == ASSUME Inv, NEW r \in Readers, kbd_read(r) \/ outer_loop(r) PROVE Inv'
<1>1. reader \in [Readers -> ReadCalls] /\ overlapped \in BOOLEAN
  BY DEF Inv, TypeOK, ReadCalls
<1>2. UNCHANGED <<hardware, kbd_buffer, modifiers, isr, stored, taken, overlapped>>
  BY DEF kbd_read, outer_loop
<1>3. PICK call \in ReadCalls : /\ reader' = [reader EXCEPT ![r] = call]
                                /\ call.pc \notin {"load", "take"}
  <2>1. CASE kbd_read(r)
    <3>1. PICK n \in 0 .. MAX_READ :
             reader' = [reader EXCEPT ![r] = [NoCall EXCEPT !.pc = "outer", !.left = n,
                                                            !.requested = n]]
      BY <2>1 DEF kbd_read
    <3>2. NoCall \in ReadCalls /\ n \in 0 .. (WORD - 1)
      BY Sizes, SizeAssumption DEF ReadCalls, Slots, NoCall
    <3> DEFINE call == [NoCall EXCEPT !.pc = "outer", !.left = n, !.requested = n]
    <3>3. call \in ReadCalls /\ call.pc = "outer"
      BY <3>2 DEF ReadCalls
    <3> QED
      BY <3>1, <3>3
  <2>2. CASE outer_loop(r) /\ Goto(r, "inner")
    <3> DEFINE call == [reader[r] EXCEPT !.pc = "inner"]
    <3>1. reader' = [reader EXCEPT ![r] = call]
      BY <1>1, <2>2 DEF Goto
    <3>2. call \in ReadCalls /\ call.pc = "inner"
      BY <1>1 DEF ReadCalls
    <3> QED
      BY <3>1, <3>2
  <2>3. CASE reader' = [reader EXCEPT ![r] = NoCall]
    <3>1. NoCall \in ReadCalls /\ NoCall.pc = "idle"
      BY Sizes, SizeAssumption DEF ReadCalls, Slots, NoCall
    <3> QED
      BY <2>3, <3>1
  <2> QED
    BY <2>1, <2>2, <2>3 DEF outer_loop
<1>4. reader' \in [Readers -> ReadCalls] /\ reader'[r] = call
      /\ \A q \in Readers : q # r => reader'[q] = reader[q]
  BY <1>1, <1>3
<1>5. \A q \in Readers : Taking(q)' => q # r /\ Taking(q)
  BY <1>3, <1>4 DEF Taking
<1>6. \A q \in Readers : reader'[q].pc = "take" => q # r
  BY <1>3, <1>4
<1>7. ASSUME ~overlapped PROVE InStep
  BY <1>7 DEF Inv
<1>8. ASSUME ~overlapped
      PROVE  /\ \A q \in Readers : Taking(q)' => Len(taken) < Visible
             /\ \A q \in Readers : reader'[q].pc = "take" => reader'[q].old = head
             /\ \A p, q \in Readers : Taking(p)' /\ Taking(q)' => p = q
  BY <1>4, <1>5, <1>6, <1>7, <1>8 DEF InStep
<1> QED
  BY <1>1, <1>2, <1>4, <1>8, LookLemma

\* A reader that finds head # tail, and the tail whole, has a code to take.
LEMMA SeesCode ==
    ASSUME Inv, InStep, head # tail, ~TailTorn PROVE Len(taken) < Visible
<1> USE DEF Inv
<1>1. /\ KBD_BUFFER_SIZE \in Nat /\ KBD_BUFFER_SIZE > 0
      /\ Len(taken) \in Nat /\ Len(stored) \in Nat /\ isr.slot \in Nat /\ Visible \in Nat
      /\ Len(taken) <= Visible /\ Len(stored) <= KBD_BUFFER_SIZE
      /\ isr.slot < KBD_BUFFER_SIZE
  <2>1. isr.slot \in Slots
    BY DEF TypeOK
  <2>2. Len(taken) \in Nat /\ Len(taken) <= Visible /\ Len(stored) <= KBD_BUFFER_SIZE
    BY DEF BufferOK, InStep
  <2>3. isr.slot < KBD_BUFFER_SIZE
    <3> HIDE DEF Inv
    <3> QED
      BY <2>1, Sizes DEF Slots
  <2> QED
    BY <2>2, <2>3, Sizes, VisibleNat
<1>2. head = Wrapped(Len(taken))
  BY DEF InStep
<1>3. CASE isr.todo = {}
  <2>1. tail = Wrapped(Len(stored)) /\ Visible = Len(stored)
    BY <1>3 DEF BufferOK, Visible
  <2> QED
    BY <1>1, <1>2, <2>1 DEF Wrapped
<1>4. CASE isr.todo # {}
  <2>1. tail = Visible /\ Visible # KBD_BUFFER_SIZE
    BY <1>1, <1>4 DEF BufferOK, Visible, TailTorn
  <2>2. Visible <= KBD_BUFFER_SIZE
    BY <1>1 DEF Visible
  <2> QED
    BY <1>1, <1>2, <2>1, <2>2 DEF Wrapped
<1> QED
  BY <1>3, <1>4

LEMMA inner_loopInv == ASSUME Inv, NEW r \in Readers, inner_loop(r) PROVE Inv'
<1> DEFINE to == IF head # tail THEN "load" ELSE "outer"
<1> DEFINE call == [reader[r] EXCEPT !.pc = to]
<1>1. reader \in [Readers -> ReadCalls] /\ overlapped \in BOOLEAN
  BY DEF Inv, TypeOK, ReadCalls
<1>2. /\ UNCHANGED <<hardware, kbd_buffer, modifiers, isr, stored, taken>>
      /\ reader' = [reader EXCEPT ![r] = call]
      /\ overlapped' = (overlapped \/ TailTorn \/ OtherTakes(r))
  BY <1>1 DEF inner_loop, Goto
<1>3. call \in ReadCalls /\ call.pc = to /\ to \in {"load", "outer"}
  BY <1>1 DEF ReadCalls
<1>4. to = "load" => head # tail
  OBVIOUS
<1> HIDE DEF to, call
<1>5. /\ reader' \in [Readers -> ReadCalls] /\ reader'[r] = call
      /\ \A q \in Readers : q # r => reader'[q] = reader[q]
  BY <1>1, <1>2, <1>3
<1>6. overlapped' \in BOOLEAN
  BY <1>2
<1>7. ASSUME ~overlapped'
      PROVE  /\ ~overlapped
             /\ \A q \in Readers : Taking(q)' => Len(taken) < Visible
             /\ \A q \in Readers : reader'[q].pc = "take" => reader'[q].old = head
             /\ \A p, q \in Readers : Taking(p)' /\ Taking(q)' => p = q
  <2>1. ~overlapped /\ ~TailTorn /\ ~OtherTakes(r)
    BY <1>2, <1>7
  <2>2. InStep
    BY <2>1 DEF Inv
  <2>3. \A q \in Readers : Taking(q)' => q = r /\ to = "load"
    BY <1>3, <1>5, <2>1 DEF Taking, OtherTakes
  <2>4. to = "load" => Len(taken) < Visible
    BY <1>4, <2>1, <2>2, SeesCode
  <2>5. \A q \in Readers : reader'[q].pc # "take"
    BY <1>3, <1>5, <2>3 DEF Taking
  <2> QED
    BY <2>1, <2>3, <2>4, <2>5
<1> QED
  BY <1>2, <1>5, <1>6, <1>7, LookLemma

LEMMA load_headInv == ASSUME Inv, NEW r \in Readers, load_head(r) PROVE Inv'
<1> DEFINE call == [reader[r] EXCEPT !.pc = "take", !.old = head]
<1>1. reader \in [Readers -> ReadCalls] /\ overlapped \in BOOLEAN /\ head \in Slots
  BY DEF Inv, TypeOK, ReadCalls
<1>2. /\ UNCHANGED <<hardware, kbd_buffer, modifiers, isr, stored, taken, overlapped>>
      /\ reader' = [reader EXCEPT ![r] = call]
      /\ reader[r].pc = "load"
  BY <1>1 DEF load_head
<1>3. call \in ReadCalls /\ call.pc = "take" /\ call.old = head
  BY <1>1 DEF ReadCalls
<1> HIDE DEF call
<1>4. /\ reader' \in [Readers -> ReadCalls] /\ reader'[r] = call
      /\ \A q \in Readers : q # r => reader'[q] = reader[q]
  BY <1>1, <1>2, <1>3
<1>5. \A q \in Readers : Taking(q)' => Taking(q)
  BY <1>2, <1>4 DEF Taking
<1>6. ASSUME ~overlapped
      PROVE  /\ \A q \in Readers : Taking(q)' => Len(taken) < Visible
             /\ \A q \in Readers : reader'[q].pc = "take" => reader'[q].old = head
             /\ \A p, q \in Readers : Taking(p)' /\ Taking(q)' => p = q
  BY <1>3, <1>4, <1>5, <1>6 DEF Inv, InStep
<1> QED
  BY <1>1, <1>2, <1>4, <1>6, LookLemma

\* A code is a key, pressed or released.
LEMMA CodeLemma ==
    ASSUME NEW code \in Codes \cup {Zero}
    PROVE  /\ code.break \in BOOLEAN
           /\ \A k, b : code = [key |-> k, break |-> b] <=> code.key = k /\ code.break = b
<1>1. code.break \in BOOLEAN
  <2>1. CASE code \in Codes
    BY <2>1, Zenon DEF Codes
  <2>2. CASE code = Zero
    <3>1. code.break = FALSE
      BY <2>2 DEF Zero
    <3> QED
      BY <3>1, Zenon
  <2> QED
    BY <2>1, <2>2
<1>2. code = [key |-> code.key, break |-> code.break]
  BY DEF Codes, Zero
<1>3. ASSUME NEW k, NEW b
      PROVE  code = [key |-> k, break |-> b] <=> code.key = k /\ code.break = b
  <2>1. ASSUME code = [key |-> k, break |-> b] PROVE code.key = k /\ code.break = b
    BY <2>1
  <2>2. ASSUME code.key = k, code.break = b PROVE code = [key |-> k, break |-> b]
    BY <1>2, <2>2
  <2> QED
    BY <2>1, <2>2
<1> QED
  BY <1>1, <1>3

\* A shift key toggles its flag when pressed and when released, caps lock when released.
LEMMA ToggleLemma ==
    ASSUME NEW mods, NEW code \in Codes \cup {Zero}
    PROVE  /\ mods \subseteq {"lshift", "rshift", "capslock"} =>
                  NewModifiers(mods, code) \subseteq {"lshift", "rshift", "capslock"}
           /\ \A k \in {"lshift", "rshift"} :
                  k \in NewModifiers(mods, code) <=>
                      (k \in mods /\ code.key # k) \/ (k \notin mods /\ code.key = k)
           /\ "capslock" \in NewModifiers(mods, code) <=>
                  IF code = [key |-> "capslock", break |-> TRUE]
                  THEN "capslock" \notin mods ELSE "capslock" \in mods
<1>1. code.break \in BOOLEAN
      /\ code = [key |-> "capslock", break |-> TRUE] <=>
             code.key = "capslock" /\ code.break = TRUE
  BY CodeLemma
<1>2. Toggles(code) \subseteq {"lshift", "rshift", "capslock"}
  BY DEF Toggles
<1>3. \A k \in {"lshift", "rshift"} : k \in Toggles(code) <=> code.key = k
  BY <1>1 DEF Toggles
<1>4. "capslock" \in Toggles(code) <=> code = [key |-> "capslock", break |-> TRUE]
  BY <1>1 DEF Toggles
<1> QED
  BY <1>2, <1>3, <1>4 DEF NewModifiers

\* The pressed state of a shift key follows the codes that are taken, as long as the keys
\* are released only when they were pressed.
LEMMA ShiftLemma ==
    ASSUME Inv, NEW code \in Codes, taken' = Append(taken, code),
           modifiers' = NewModifiers(modifiers, code),
           \A k \in Keys \cap {"lshift", "rshift"} :
               ~Repeated(k) => (k \in modifiers <=> DownAtLast(k)),
           code.break => Held(taken, code.key, Len(taken)),
           NEW k \in Keys \cap {"lshift", "rshift"}, ~Repeated(k)'
    PROVE  k \in modifiers' <=> DownAtLast(k)'
<1> DEFINE n == Len(taken)
<1>1. /\ n \in Nat /\ Len(taken') = n + 1 /\ taken'[n + 1] = code
      /\ \A i \in 1 .. n : taken'[i] = taken[i]
  BY Appended DEF Inv
<1>2. code.break \in BOOLEAN /\ \A b : code = [key |-> k, break |-> b] <=> code.key = k /\ code.break = b
  BY CodeLemma
<1>3. ~Repeated(k)
  <2> SUFFICES ASSUME Repeated(k) PROVE FALSE
    OBVIOUS
  <2>1. PICK i \in 1 .. n, j \in 1 .. n :
           /\ i < j /\ taken[i] = [key |-> k, break |-> FALSE] /\ taken[j] = taken[i]
           /\ \A m \in (i + 1) .. (j - 1) : taken[m].key # k
    BY DEF Repeated
  <2>2. /\ i \in 1 .. (n + 1) /\ j \in 1 .. (n + 1)
        /\ taken'[i] = [key |-> k, break |-> FALSE] /\ taken'[j] = taken'[i]
        /\ \A m \in (i + 1) .. (j - 1) : taken'[m].key # k
    BY <1>1, <2>1
  <2> QED
    BY <1>1, <2>1, <2>2 DEF Repeated
<1>4. k \in modifiers <=> DownAtLast(k)
  BY <1>3
<1>5. k \in modifiers' <=> (k \in modifiers /\ code.key # k) \/ (k \notin modifiers /\ code.key = k)
  BY ToggleLemma
<1>6. CASE code.key # k
  <2>1. ASSUME DownAtLast(k) PROVE DownAtLast(k)'
    <3>1. PICK i \in 1 .. n : /\ taken[i] = [key |-> k, break |-> FALSE]
                              /\ \A m \in (i + 1) .. n : taken[m].key # k
      BY <2>1 DEF DownAtLast
    <3>2. /\ i \in 1 .. (n + 1) /\ taken'[i] = [key |-> k, break |-> FALSE]
          /\ \A m \in (i + 1) .. (n + 1) : taken'[m].key # k
      BY <1>1, <1>6, <3>1
    <3> QED
      BY <1>1, <3>2 DEF DownAtLast
  <2>2. ASSUME DownAtLast(k)' PROVE DownAtLast(k)
    <3>1. PICK i \in 1 .. (n + 1) : /\ taken'[i] = [key |-> k, break |-> FALSE]
                                    /\ \A m \in (i + 1) .. (n + 1) : taken'[m].key # k
      BY <1>1, <2>2 DEF DownAtLast
    <3>2. i # n + 1
      BY <1>1, <1>2, <1>6, <3>1
    <3>3. /\ i \in 1 .. n /\ taken[i] = [key |-> k, break |-> FALSE]
          /\ \A m \in (i + 1) .. n : taken[m].key # k
      BY <1>1, <3>1, <3>2
    <3> QED
      BY <3>3 DEF DownAtLast
  <2> QED
    BY <1>4, <1>5, <1>6, <2>1, <2>2
<1>7. CASE code.key = k /\ code.break
  <2>1. DownAtLast(k)
    BY <1>7 DEF Held, HeldSince, Press, DownAtLast
  <2>2. ~DownAtLast(k)'
    <3> SUFFICES ASSUME DownAtLast(k)' PROVE FALSE
      OBVIOUS
    <3>1. PICK i \in 1 .. (n + 1) : /\ taken'[i] = [key |-> k, break |-> FALSE]
                                    /\ \A m \in (i + 1) .. (n + 1) : taken'[m].key # k
      BY <1>1 DEF DownAtLast
    <3>2. i # n + 1
      BY <1>1, <1>2, <1>7, <3>1
    <3> QED
      BY <1>1, <1>7, <3>1, <3>2
  <2> QED
    BY <1>4, <1>5, <1>7, <2>1, <2>2
<1>8. CASE code.key = k /\ ~code.break
  <2>1. code = [key |-> k, break |-> FALSE]
    BY <1>2, <1>8
  <2>2. ~DownAtLast(k)
    <3> SUFFICES ASSUME DownAtLast(k) PROVE FALSE
      OBVIOUS
    <3>1. PICK i \in 1 .. n : /\ taken[i] = [key |-> k, break |-> FALSE]
                              /\ \A m \in (i + 1) .. n : taken[m].key # k
      BY DEF DownAtLast
    <3>2. /\ i \in 1 .. (n + 1) /\ n + 1 \in 1 .. (n + 1) /\ i < n + 1
          /\ taken'[i] = [key |-> k, break |-> FALSE] /\ taken'[n + 1] = taken'[i]
          /\ \A m \in (i + 1) .. ((n + 1) - 1) : taken'[m].key # k
      BY <1>1, <2>1, <3>1
    <3> QED
      BY <1>1, <3>2 DEF Repeated
  <2>3. DownAtLast(k)'
    <3>1. /\ n + 1 \in 1 .. (n + 1) /\ taken'[n + 1] = [key |-> k, break |-> FALSE]
          /\ \A m \in ((n + 1) + 1) .. (n + 1) : taken'[m].key # k
      BY <1>1, <2>1
    <3> QED
      BY <1>1, <3>1 DEF DownAtLast
  <2> QED
    BY <1>4, <1>5, <1>8, <2>2, <2>3
<1> QED
  BY <1>2, <1>6, <1>7, <1>8

\* The state of caps lock is the parity of its releases.
CapsReleases == {i \in 1 .. Len(taken) : taken[i] = [key |-> "capslock", break |-> TRUE]}

LEMMA CapsLemma ==
    ASSUME Inv, NEW code \in Codes \cup {Zero}, taken' = Append(taken, code),
           modifiers' = NewModifiers(modifiers, code),
           "capslock" \in modifiers <=> Cardinality(CapsReleases) % 2 = 1
    PROVE  "capslock" \in modifiers' <=> Cardinality(CapsReleases') % 2 = 1
<1> DEFINE n == Len(taken)
<1>1. /\ n \in Nat /\ Len(taken') = n + 1 /\ taken'[n + 1] = code
      /\ \A i \in 1 .. n : taken'[i] = taken[i]
  BY Appended DEF Inv
<1>2. IsFiniteSet(CapsReleases) /\ n + 1 \notin CapsReleases
  <2>1. IsFiniteSet(1 .. n)
    BY <1>1, FS_Interval
  <2>2. CapsReleases \subseteq 1 .. n
    BY DEF CapsReleases
  <2>3. IsFiniteSet(CapsReleases)
    BY <2>1, <2>2, FS_Subset
  <2>4. n + 1 \notin 1 .. n
    BY <1>1
  <2> QED
    BY <2>2, <2>3, <2>4
<1>3. CASE code = [key |-> "capslock", break |-> TRUE]
  <2>1. CapsReleases' = CapsReleases \cup {n + 1}
    BY <1>1, <1>3 DEF CapsReleases
  <2>2. Cardinality(CapsReleases') = Cardinality(CapsReleases) + 1
    BY <1>2, <2>1, FS_AddElement
  <2>3. Cardinality(CapsReleases) \in Nat
    BY <1>2, FS_CardinalityType
  <2>4. Cardinality(CapsReleases') % 2 = 1 <=> ~(Cardinality(CapsReleases) % 2 = 1)
    BY <2>2, <2>3
  <2> QED
    BY <1>3, <2>4, ToggleLemma
<1>4. CASE code # [key |-> "capslock", break |-> TRUE]
  <2>1. CapsReleases' = CapsReleases
    BY <1>1, <1>4 DEF CapsReleases
  <2> QED
    BY <1>4, <2>1, ToggleLemma
<1> QED
  BY <1>3, <1>4

\* A reader takes a code.
LEMMA take_codeInv == ASSUME Inv, NEW r \in Readers, take_code(r) PROVE Inv'
<1> DEFINE old == reader[r].old
<1> DEFINE code == buffer[old]
<1> DEFINE ch == kbd_scan_code_to_ascii(NewModifiers(modifiers, code), code)
<1> DEFINE n == Len(taken)
<1>1. /\ reader \in [Readers -> ReadCalls] /\ overlapped \in BOOLEAN /\ head \in Slots
      /\ old \in Slots /\ code \in Codes \cup {Zero}
  <2>1. reader \in [Readers -> ReadCalls]
    BY DEF Inv, TypeOK, ReadCalls
  <2>2. old \in Slots
    BY <2>1 DEF ReadCalls
  <2> QED
    BY <2>1, <2>2 DEF Inv, TypeOK
<1>2. /\ reader[r].pc = "take"
      /\ head' = Wrapped(old + 1)
      /\ modifiers' = NewModifiers(modifiers, code)
      /\ taken' = Append(taken, code)
      /\ UNCHANGED <<hardware, buffer, tail, count, isr, stored, overlapped>>
      /\ UNCHANGED <<port, irq, down>>
  BY DEF take_code, Wrapped, hardware
<1>3. /\ n \in Nat /\ taken' \in Seq(Codes \cup {Zero}) /\ Len(taken') = n + 1
      /\ taken'[n + 1] = code /\ \A i \in 1 .. n : taken'[i] = taken[i]
  BY <1>1, <1>2, Appended DEF Inv
<1>4. /\ reader' \in [Readers -> ReadCalls] /\ reader'[r].pc = "inner"
      /\ \A q \in Readers : q # r => reader'[q] = reader[q]
  <2> DEFINE i == IF ch = NONE THEN reader[r].i ELSE reader[r].i + 1
  <2> DEFINE left == IF ch = NONE THEN reader[r].left ELSE (reader[r].left - 1) % WORD
  <2> DEFINE call == [reader[r] EXCEPT !.pc = "inner", !.old = 0, !.i = i, !.left = left]
  <2>1. reader' = [reader EXCEPT ![r] = call]
    BY <1>1 DEF take_code
  <2>2. i \in Nat
    BY <1>1 DEF ReadCalls
  <2>3. left \in 0 .. (WORD - 1)
    <3>1. WORD \in Nat /\ WORD > 0 /\ reader[r].left \in 0 .. (WORD - 1)
      BY <1>1, SizeAssumption DEF ReadCalls
    <3>2. reader[r].left - 1 \in Int
      BY <3>1
    <3>3. \A a \in Int : a % WORD \in 0 .. (WORD - 1)
      BY <3>1
    <3> QED
      BY <3>1, <3>2, <3>3
  <2> HIDE DEF i, left
  <2>4. 0 \in Slots
    BY Sizes DEF Slots
  <2>5. call \in ReadCalls /\ call.pc = "inner"
    BY <1>1, <2>2, <2>3, <2>4 DEF ReadCalls
  <2> HIDE DEF call
  <2> QED
    BY <1>1, <2>1, <2>5
<1>5. TypeOK'
  <2> HIDE DEF code, ch
  <2>1. head' \in Slots
    BY <1>1, <1>2, Sizes DEF Slots
  <2>2. modifiers' \subseteq {"lshift", "rshift", "capslock"}
    BY <1>1, <1>2, ToggleLemma DEF Inv, TypeOK
  <2> QED
    BY <1>2, <1>4, <2>1, <2>2 DEF Inv, TypeOK, ReadCalls
<1>6. HandlerOK' /\ BufferOK'
  BY <1>2 DEF Inv, HandlerOK, BufferOK
<1>7. TypedOK'
  <2>1. Typed' = Typed
    BY <1>2 DEF Typed
  <2> QED
    BY <1>2, <2>1 DEF Inv, TypedOK
<1> HIDE DEF code, ch
<1>8. ASSUME ~overlapped PROVE InStep' /\ code = stored[n + 1] /\ n < Len(stored) /\ InStep
  <2>1. InStep /\ Taking(r)
    BY <1>2, <1>8 DEF Inv, Taking
  <2>2. /\ n < Visible /\ old = head /\ head = Wrapped(n)
        /\ \A q \in Readers : q # r => ~Taking(q)
    BY <1>2, <2>1 DEF InStep
  <2>3. /\ Visible \in Nat /\ Visible <= Len(stored) /\ Len(stored) \in Nat
        /\ Len(stored) <= KBD_BUFFER_SIZE
    BY VisibleNat DEF Inv, BufferOK, Visible
  <2>4. n < KBD_BUFFER_SIZE /\ old = n
    BY <1>3, <2>2, <2>3, Sizes DEF Wrapped
  <2>5. n + 1 \in 1 .. Len(stored)
    BY <1>3, <2>2, <2>3
  <2>6. code = stored[n + 1]
    <3>1. \A i \in 1 .. Len(stored) : buffer[i - 1] = stored[i]
      BY DEF Inv, BufferOK
    <3>2. (n + 1) - 1 = n
      BY <1>3
    <3> QED
      BY <2>4, <2>5, <3>1, <3>2 DEF code
  <2>7. Visible' = Visible
    BY <1>2 DEF Visible
  <2>8. \A i \in 1 .. (n + 1) : taken'[i] = stored[i]
    BY <1>3, <2>1, <2>6 DEF InStep
  <2>9. \A q \in Readers : ~Taking(q)'
    BY <1>4, <2>2 DEF Taking
  <2>10. \A q \in Readers : reader'[q].pc # "take"
    BY <2>9 DEF Taking
  <2>11. InStep'
    BY <1>2, <1>3, <2>2, <2>3, <2>4, <2>7, <2>8, <2>9, <2>10 DEF InStep
  <2> QED
    BY <1>3, <2>1, <2>2, <2>3, <2>6, <2>11
<1>9. ModifiersTracked'
  <2> SUFFICES ASSUME ~overlapped'
               PROVE  /\ \A k \in Keys \cap {"lshift", "rshift"} :
                             ~Repeated(k)' => (k \in modifiers' <=> DownAtLast(k)')
                      /\ "capslock" \in modifiers' <=> Cardinality(CapsReleases') % 2 = 1
    BY DEF ModifiersTracked, CapsReleases
  <2>1. ~overlapped
    BY <1>2
  <2>2. /\ \A k \in Keys \cap {"lshift", "rshift"} :
               ~Repeated(k) => (k \in modifiers <=> DownAtLast(k))
        /\ "capslock" \in modifiers <=> Cardinality(CapsReleases) % 2 = 1
    BY <2>1 DEF Inv, ModifiersTracked, CapsReleases
  <2>3. /\ code = stored[n + 1] /\ n + 1 \in 1 .. Len(stored) /\ Len(stored) \in Nat
        /\ \A i \in 1 .. n : taken[i] = stored[i]
    BY <1>3, <1>8, <2>1, VisibleNat DEF InStep
  <2>4. code \in Codes
    BY <2>3 DEF Inv, BufferOK
  <2>5. ASSUME code.break PROVE Held(taken, code.key, n)
    <3>1. /\ n + 1 \in 1 .. Len(Typed)
          /\ \A i \in 1 .. (n + 1) : Typed[i] = stored[i]
      <4>1. CASE port = NONE
        BY <2>3, <4>1 DEF Typed
      <4>2. CASE port # NONE
        <5>1. port \in Codes /\ stored \in Seq(Codes)
          BY <4>2 DEF Inv, TypeOK, BufferOK
        <5>2. /\ Len(Typed) = Len(stored) + 1
              /\ \A i \in 1 .. Len(stored) : Typed[i] = stored[i]
          BY <4>2, <5>1, Appended DEF Typed
        <5> QED
          BY <1>3, <2>3, <5>2
      <4> QED
        BY <4>1, <4>2
    <3>2. Typed[n + 1] = code
      BY <1>3, <2>3, <3>1
    <3>3. Held(Typed, code.key, (n + 1) - 1)
      BY <2>5, <3>1, <3>2 DEF Inv, TypedOK
    <3>4. PICK m \in 1 .. n : HeldSince(Typed, code.key, m, n)
      BY <1>3, <3>3 DEF Held
    <3>5. HeldSince(taken, code.key, m, n)
      BY <1>3, <2>3, <3>1, <3>4 DEF HeldSince
    <3> QED
      BY <3>5 DEF Held
  <2>6. ASSUME NEW k \in Keys \cap {"lshift", "rshift"}, ~Repeated(k)'
        PROVE  k \in modifiers' <=> DownAtLast(k)'
    BY <1>2, <2>2, <2>4, <2>5, <2>6, ShiftLemma
  <2>7. "capslock" \in modifiers' <=> Cardinality(CapsReleases') % 2 = 1
    BY <1>1, <1>2, <2>2, <2>4, CapsLemma
  <2> QED
    BY <2>6, <2>7
<1> QED
  BY <1>2, <1>3, <1>5, <1>6, <1>7, <1>8, <1>9 DEF Inv

-----------------------------------------------------------------------------
\* A step, or a stutter, preserves the invariant.
LEMMA NextKeyboard == Inv /\ [Next]_vars => Inv'
<1> SUFFICES ASSUME Inv, [Next]_vars PROVE Inv'
  OBVIOUS
<1>1. CASE UNCHANGED vars
  <2>1. UNCHANGED <<hardware, kbd_buffer, modifiers, isr, stored, taken, reader, overlapped>>
    BY <1>1 DEF vars, hardware, kbd_buffer
  <2>2. reader \in [Readers -> ReadCalls] /\ overlapped \in BOOLEAN
    BY DEF Inv, TypeOK, ReadCalls
  <2>3. ~overlapped => /\ \A r \in Readers : Taking(r) => Len(taken) < Visible
                       /\ \A r \in Readers : reader[r].pc = "take" => reader[r].old = head
                       /\ \A q, r \in Readers : Taking(q) /\ Taking(r) => q = r
    BY DEF Inv, InStep
  <2>4. \A r \in Readers : Taking(r)' <=> Taking(r)
    BY <2>1 DEF Taking
  <2> QED
    BY <2>1, <2>2, <2>3, <2>4, LookLemma
<1>2. CASE \E k \in Keys : Type(k)
  BY <1>2, TypeInv
<1>3. CASE Handler
  BY <1>3, HandleInv, advance_tailInv, store_scan_codeInv, increment_countInv, wrap_tailInv
     DEF Handler
<1>4. CASE \E r \in Readers : kbd_read(r) \/ ReadStep(r)
  BY <1>4, EnterInv, inner_loopInv, load_headInv, take_codeInv DEF ReadStep
<1> QED
  BY <1>1, <1>2, <1>3, <1>4 DEF Next

\* The invariant of the keyboard driver.
THEOREM KeyboardInvariance == Spec => []Inv
  BY InitKeyboard, NextKeyboard, PTL DEF Spec

\* The variables of the driver keep their types: whatever the timer suspends where, head and
\* tail stay in the buffer and no slot behind it is written.
THEOREM TypeCorrect == Spec => []TypeOK
<1>1. Inv => TypeOK
  BY DEF Inv
<1> QED
  BY <1>1, KeyboardInvariance, PTL

\* For any number of readers and any size of the buffer: as long as no reader looks at a torn
\* tail and no two of them take codes at once, the codes come in the order of typing.
THEOREM CodesInOrder == Spec => []FIFO
<1>1. Inv => FIFO
  <2> SUFFICES ASSUME Inv, ~overlapped PROVE IsPrefix(taken, stored)
    BY DEF FIFO
  <2> DEFINE n == Len(taken)
  <2>1. /\ InStep /\ n \in Nat /\ Len(stored) \in Nat
        /\ Visible \in Nat /\ Visible <= Len(stored)
    BY VisibleNat DEF Inv, BufferOK, Visible
  <2>2. n <= Len(stored) /\ \A i \in 1 .. n : taken[i] = stored[i]
    BY <2>1 DEF InStep
  <2>3. SubSeq(taken, 1, n) = SubSeq(stored, 1, n)
    BY <2>1, <2>2 DEF Inv, BufferOK
  <2> QED
    BY <2>2, <2>3 DEF IsPrefix
<1> QED
  BY <1>1, KeyboardInvariance, PTL

\* is_lshift_down, is_rshift_down and is_caps_lock_pressed follow the codes that are taken,
\* under the same conditions.
THEOREM ModifiersRight == Spec => []ModifiersTracked
<1>1. Inv => ModifiersTracked
  BY DEF Inv
<1> QED
  BY <1>1, KeyboardInvariance, PTL

\* Remainders of the distances in the buffer.
LEMMA Remainder ==
    ASSUME NEW b \in Nat, b > 0, NEW a \in 0 .. (b - 1)
    PROVE  a % b = a /\ (a > 0 => (0 - a) % b = b - a)
<1>1. a % b = a
  OBVIOUS
<1>2. ASSUME a > 0 PROVE (0 - a) % b = b - a
  BY <1>2
<1> QED
  BY <1>1, <1>2

\* Under the same conditions, and when the handler has returned, the slots from head to tail
\* hold exactly the codes that are stored and not taken; a buffer that is filled before the
\* first code is taken is the only one that does not.
THEOREM UnreadVisible == Spec => []VisibleUnread
<1>1. Inv => VisibleUnread
  <2> DEFINE n == Len(stored)
  <2> DEFINE t == Len(taken)
  <2> DEFINE B == KBD_BUFFER_SIZE
  <2> SUFFICES ASSUME Inv, ~overlapped, isr = Returned, ~FilledUnread
               PROVE  /\ Distance = n - t
                      /\ \A i \in 0 .. (Distance - 1) : buffer[(head + i) % B] = stored[t + i + 1]
    BY DEF VisibleUnread
  <2>1. isr.todo = {}
    BY Sizes
  <2>2. /\ n \in Nat /\ t \in Nat /\ B \in Nat /\ B > 0 /\ n <= B
        /\ \A i \in 1 .. n : buffer[i - 1] = stored[i]
        /\ tail = Wrapped(n) /\ Visible = n
    BY <2>1, Sizes DEF Inv, BufferOK, Visible
  <2>3. t <= n /\ head = Wrapped(t)
    BY <2>2 DEF Inv, InStep
  <2>4. t = 0 => taken = <<>>
    BY DEF Inv
  <2>5. n = B => t # 0
    BY <2>4 DEF FilledUnread
  <2>6. Distance = n - t
    <3>1. CASE n < B
      <4>1. tail - head = n - t /\ n - t \in 0 .. (B - 1)
        BY <2>2, <2>3, <3>1 DEF Wrapped
      <4> QED
        BY <2>2, <4>1, Remainder DEF Distance
    <3>2. CASE n = B /\ t < B
      <4>1. tail - head = 0 - t /\ t \in 0 .. (B - 1) /\ t > 0
        BY <2>2, <2>3, <2>5, <3>2 DEF Wrapped
      <4> QED
        BY <2>2, <3>2, <4>1, Remainder DEF Distance
    <3>3. CASE n = B /\ t = B
      <4>1. tail - head = 0 /\ 0 \in 0 .. (B - 1)
        BY <2>2, <2>3, <3>3 DEF Wrapped
      <4> QED
        BY <2>2, <3>3, <4>1, Remainder DEF Distance
    <3> QED
      BY <2>2, <2>3, <3>1, <3>2, <3>3
  <2>7. ASSUME NEW i \in 0 .. (Distance - 1) PROVE buffer[(head + i) % B] = stored[t + i + 1]
    <3>1. head + i = t + i /\ t + i \in 0 .. (B - 1) /\ t + i + 1 \in 1 .. n
      BY <2>2, <2>3, <2>6, <2>7 DEF Wrapped
    <3>2. (head + i) % B = t + i
      BY <2>2, <3>1, Remainder
    <3>3. (t + i + 1) - 1 = t + i
      BY <3>1
    <3> QED
      BY <2>2, <3>1, <3>2, <3>3
  <2> QED
    BY <2>6, <2>7
<1> QED
  BY <1>1, KeyboardInvariance, PTL
=============================================================================

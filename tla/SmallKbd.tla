------------------------------ MODULE SmallKbd ------------------------------
(***************************************************************************)
(* The keyboard driver cut down to what one laptop needs                   *)
(* (3-atkbd/atkbd.c), and cut down again (3-atkbd/micro/atkbd.c): bytes    *)
(* translated to set 1, a prefix, one table of keys, and a port that       *)
(* comes and goes while the user types.                                    *)
(***************************************************************************)
EXTENDS Integers, Sequences, FiniteSets

CONSTANTS
    Drivers,   \* subset of {"full", "micro"}
    Keys,      \* the keys on it, as keycodes: a subset of AllKeys
    MaxBytes,  \* bound: how many bytes wait in the controller
    MaxStrokes \* bound: how often a key or the port is touched

\* KEY_A, KEY_F7, KEY_UP, and KEY_PAUSE, that is not in the table.
AllKeys == {30, 65, 103, 119}

VARIABLES
    driver,
    conn,       \* where atkbd_connect and atkbd_disconnect are
    bound,      \* serio->drv
    irq,        \* the byte atkbd_interrupt is working on, or -1
    weirdkey,
    down,       \* the keycodes the input layer holds for down
    held, wire, \* the keys held, and the bytes on their way
    missed,     \* held since before the driver listened
    torn,       \* history: a port was let go in the middle of a sequence
    strokes

vars == <<driver, conn, bound, irq, weirdkey, down, held, wire, missed, torn, strokes>>

(***************************************************************************)
(* The tables                                                              *)
(***************************************************************************)

atkbd_keycode ==
    <<0, 67, 65, 63, 61, 59, 60, 88, 0, 68, 66, 64, 62, 15, 41, 117, 0, 56, 42, 93, 29, 16, 2, 0,
      0, 0, 44, 31, 30, 17, 3, 0, 0, 46, 45, 32, 18, 5, 4, 95, 0, 57, 47, 33, 20, 19, 6, 183,
      0, 49, 48, 35, 34, 21, 7, 184, 0, 0, 50, 36, 22, 8, 9, 185, 0, 51, 37, 23, 24, 11, 10, 0,
      0, 52, 53, 38, 39, 25, 12, 0, 0, 89, 40, 0, 26, 13, 0, 0, 58, 54, 28, 27, 0, 43, 0, 85,
      0, 86, 91, 90, 92, 0, 14, 94, 0, 79, 124, 75, 71, 121, 0, 0, 82, 83, 80, 76, 77, 72, 1, 69,
      87, 78, 81, 74, 55, 73, 70, 99, 0, 0, 0, 0, 0, 0, 0, 0, 0, 0, 0, 0, 0, 0, 0, 0,
      217, 100, 255, 0, 97, 165, 0, 0, 156, 0, 0, 0, 0, 0, 0, 125, 173, 114, 0, 113, 0, 0, 0, 126,
      128, 0, 0, 140, 0, 0, 0, 127, 159, 0, 115, 0, 164, 0, 0, 116, 158, 0, 172, 166, 0, 0, 0, 142,
      157, 0, 0, 0, 0, 0, 0, 0, 155, 0, 98, 0, 0, 163, 0, 0, 226, 0, 0, 0, 0, 0, 0, 0,
      0, 255, 96, 0, 0, 0, 143, 0, 0, 0, 0, 0, 0, 0, 0, 0, 0, 107, 0, 105, 102, 0, 0, 112,
      110, 111, 108, 112, 106, 103, 0, 119, 0, 118, 109, 0, 99, 104, 119, 0>>

atkbd_unxlate_table ==
    <<0, 118, 22, 30, 38, 37, 46, 54, 61, 62, 70, 69, 78, 85, 102, 13, 21, 29, 36, 45, 44, 53, 60, 67,
      68, 77, 84, 91, 90, 20, 28, 27, 35, 43, 52, 51, 59, 66, 75, 76, 82, 14, 18, 93, 26, 34, 33, 42,
      50, 49, 58, 65, 73, 74, 89, 124, 17, 41, 88, 5, 6, 4, 12, 3, 11, 2, 10, 1, 9, 119, 126, 108,
      117, 125, 123, 107, 115, 116, 121, 105, 114, 122, 112, 113, 127, 96, 97, 120, 7, 15, 23, 31, 39, 47, 55, 63,
      71, 79, 86, 94, 8, 16, 24, 32, 40, 48, 56, 64, 72, 80, 87, 111, 19, 25, 57, 81, 83, 92, 95, 98,
      99, 100, 101, 103, 104, 106, 109, 110>>

atkbd_my_keycodes ==
    <<0, 1, 2, 3, 4, 5, 6, 7, 8, 9, 10, 11, 12, 13, 14, 15, 16, 17, 18, 19, 20, 21, 22, 23,
      24, 25, 26, 27, 28, 29, 30, 31, 32, 33, 34, 35, 36, 37, 38, 39, 40, 41, 42, 43, 44, 45, 46, 47,
      48, 49, 50, 51, 52, 53, 54, 55, 56, 57, 58, 59, 60, 61, 62, 63, 64, 65, 66, 67, 68, 69, 70, 71,
      72, 73, 74, 75, 76, 77, 78, 79, 80, 81, 82, 83, 99, 0, 86, 87, 88, 117, 0, 0, 95, 183, 184, 185,
      0, 0, 0, 0, 0, 0, 0, 0, 0, 0, 0, 0, 0, 0, 0, 0, 93, 0, 0, 89, 0, 0, 85, 91,
      90, 92, 0, 94, 0, 124, 121, 0, 0, 0, 0, 0, 0, 0, 0, 0, 0, 0, 0, 0, 0, 0, 0, 0,
      165, 0, 0, 0, 0, 0, 0, 0, 0, 163, 0, 0, 96, 97, 0, 0, 113, 140, 164, 0, 166, 0, 0, 0,
      0, 0, 255, 0, 0, 0, 114, 0, 115, 0, 172, 0, 0, 98, 255, 99, 100, 0, 0, 0, 0, 0, 0, 0,
      0, 0, 0, 0, 0, 119, 119, 102, 103, 104, 0, 105, 112, 106, 118, 107, 108, 109, 110, 111, 0, 0, 0, 0,
      0, 0, 0, 125, 126, 127, 116, 142, 0, 0, 0, 143, 0, 217, 156, 173, 128, 159, 158, 157, 155, 226, 0, 112,
      0, 0, 0, 0, 0, 0, 0, 0, 0, 0, 0, 0, 0, 0, 0, 0>>

\* atkbd_connect fills in the keycode of a code, prefixed codes from 128 on.
FullKeycode(i) ==
    atkbd_keycode[atkbd_unxlate_table[(i % 128) + 1] + (IF i >= 128 THEN 128 ELSE 0) + 1]

Keycode(i) == IF driver = "micro" THEN atkbd_my_keycodes[i + 1] ELSE FullKeycode(i)

(***************************************************************************)
(* The keyboard                                                            *)
(***************************************************************************)

Code(k) == CASE k = 30 -> 30 [] k = 65 -> 65 [] k = 103 -> 72

Make(k) == CASE k = 119 -> <<225, 29, 69, 225, 157, 197>>
             [] k = 103 -> <<224, Code(k)>> [] k \in {30, 65} -> <<Code(k)>>
Break(k) == IF k = 103 THEN <<224, Code(k) + 128>> ELSE <<Code(k) + 128>>

Send(bytes) ==
    /\ strokes < MaxStrokes /\ strokes' = strokes + 1
    /\ Len(wire) + Len(bytes) <= MaxBytes
    /\ wire' = wire \o bytes

Press(k) ==
    /\ Send(Make(k))
    /\ held' = IF k = 119 THEN held ELSE held \cup {k}
    /\ missed' = missed \ {k}
    /\ UNCHANGED <<driver, conn, bound, irq, weirdkey, down, torn>>

Unpress(k) ==
    /\ k \in held /\ Send(Break(k))
    /\ held' = held \ {k} /\ missed' = missed \ {k}
    /\ UNCHANGED <<driver, conn, bound, irq, weirdkey, down, torn>>

(***************************************************************************)
(* atkbd_interrupt                                                         *)
(***************************************************************************)

\* serio_interrupt: with no driver the byte is dropped; else its lock is held
\* to the end of the handler.
Receive ==
    /\ wire # <<>> /\ irq = -1 /\ wire' = Tail(wire)
    /\ irq' = IF bound THEN Head(wire) ELSE -1
    /\ torn' = (torn \/ ~bound)
    /\ missed' = IF bound THEN missed ELSE held
    /\ UNCHANGED <<driver, conn, bound, weirdkey, down, held, strokes>>

\* The input layer takes no events of a device without keys.
Event(code, value) ==
    IF conn # "registered" THEN {} ELSE
    IF value THEN down \cup {Keycode(code)} ELSE down \ {Keycode(code)}

\* A variant that does not clear weirdkey.
InterruptSticky ==
    /\ irq # -1 /\ irq' = -1
    /\ LET code == (irq % 128) + (IF weirdkey THEN 128 ELSE 0)
       IN  IF irq = 224 THEN weirdkey' = TRUE /\ UNCHANGED down
           ELSE UNCHANGED weirdkey /\ down' = Event(code, irq < 128)
    /\ missed' = IF conn = "registered" THEN missed ELSE held
    /\ torn' = (torn \/ conn # "registered")
    /\ UNCHANGED <<driver, conn, bound, held, wire, strokes>>

Interrupt ==
    /\ irq # -1 /\ irq' = -1
    /\ LET code == (irq % 128) + (IF weirdkey THEN 128 ELSE 0)
       IN  IF irq = 224 THEN weirdkey' = TRUE /\ UNCHANGED down
           ELSE weirdkey' = FALSE /\ down' = Event(code, irq < 128)
    /\ missed' = IF conn = "registered" THEN missed ELSE held
    /\ torn' = (torn \/ conn # "registered")
    /\ UNCHANGED <<driver, conn, bound, held, wire, strokes>>

(***************************************************************************)
(* atkbd_connect and atkbd_disconnect                                      *)
(***************************************************************************)

\* kzalloc, and the port is opened; the keys are not set yet.
Connect ==
    /\ conn = "none" /\ strokes < MaxStrokes /\ strokes' = strokes + 1
    /\ conn' = "opened" /\ bound' = TRUE /\ weirdkey' = FALSE /\ down' = {}
    /\ torn' = (wire # <<>> \/ irq # -1) /\ missed' = held
    /\ UNCHANGED <<driver, irq, held, wire>>

ConnectRegister ==
    /\ conn = "opened" /\ conn' = "registered"
    /\ UNCHANGED <<driver, bound, irq, weirdkey, down, held, wire, missed, torn, strokes>>

\* serio_close clears serio->drv under the lock; micro without it.
Close ==
    /\ conn = "registered" /\ strokes < MaxStrokes /\ strokes' = strokes + 1
    /\ driver = "full" => irq = -1
    /\ bound' = FALSE /\ conn' = "closed"
    /\ UNCHANGED <<driver, irq, weirdkey, down, held, wire, missed, torn>>

\* input_unregister_device and kfree
Free ==
    /\ conn = "closed" /\ conn' = "none" /\ down' = {}
    /\ UNCHANGED <<driver, bound, irq, weirdkey, held, wire, missed, torn, strokes>>

(***************************************************************************)
(* Specification                                                           *)
(***************************************************************************)

Init ==
    /\ driver \in Drivers /\ conn = "none" /\ bound = FALSE /\ irq = -1
    /\ weirdkey = FALSE /\ down = {} /\ held = {} /\ wire = <<>>
    /\ missed = {} /\ torn = FALSE /\ strokes = 0

Next ==
    \/ \E k \in Keys : Press(k) \/ Unpress(k)
    \/ Receive \/ Interrupt \/ Connect \/ ConnectRegister \/ Close \/ Free

Spec == Init /\ [][Next]_vars

(***************************************************************************)
(* Properties                                                              *)
(***************************************************************************)

\* The table of micro/atkbd.c is the composition of the two of atkbd.c.
TablesAgree == \A i \in 0 .. 255 : atkbd_my_keycodes[i + 1] = FullKeycode(i)

\* Once every byte is taken, exactly the keys held are down, prefix or not,
\* also after a pause key, of which the driver knows nothing; unless a byte of
\* the sequence went by before the driver listened.
KeysAgree ==
    wire = <<>> /\ irq = -1 /\ conn = "registered" /\ ~torn => down = held \ missed

\* The handler of atkbd.c finds its device and its struct: disconnect waits
\* for it in serio_close before it frees them.
HandlerHasDevice == driver = "full" /\ irq # -1 => conn \notin {"closed", "none"}

=============================================================================

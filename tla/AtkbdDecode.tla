---------------------------- MODULE AtkbdDecode ----------------------------
(***************************************************************************)
(* The bytes a PS/2 keyboard sends and the keys the keyboard driver        *)
(* (atkbd-new.c) makes of them, one byte per atkbd_interrupt: scan code    *)
(* sets 2 and 3, and set 2 translated to set 1 by the controller, where    *)
(* the break code of the left shift is also the answer to a self test.     *)
(***************************************************************************)
EXTENDS Integers, Sequences, FiniteSets, SequencesExt

CONSTANTS
    Encodings,  \* what the keyboard may speak
    Keys,       \* the keys on it
    MaxBytes,   \* bound: how many bytes wait in the controller
    MaxStrokes  \* bound: how often something is done to the keyboard

DecodeAssumption ==
    /\ Encodings \subseteq {"translated", "set2", "set3"}
    /\ Keys \subseteq {"a", "shift", "up", "f7", "pause", "hanja"}
    /\ MaxBytes \in Nat /\ MaxStrokes \in Nat

VARIABLES
    encoding,
    held, wire,             \* the keys held down, and the bytes on their way
    emul, release, xl,      \* the decoder's memory: emul, release, xl_bit
    enabled,                \* bytes are decoded; not from a self test to the reconnect
    down,                   \* dev->key: the keys the input layer holds for down
    lost, missed,           \* what is held or down through a replug or a reconnect
    fresh,                  \* plugged in and not set up: "no", "plain", "shift" (held then)
    pulled,                 \* a plug was pulled with bytes unsent
    torn,                   \* a reconnect came between a release prefix and its code
    acks,                   \* commands the driver has sent and the keyboard not answered
    strokes

vars == <<encoding, held, wire, emul, release, xl, enabled, down, lost, missed, fresh,
          pulled, torn, acks, strokes>>

driver == <<emul, release, xl, enabled, down>>

(***************************************************************************)
(* The keyboard                                                            *)
(***************************************************************************)

BAT == 170  ERR == 255  ACK == 250  NAK == 254
HANJA == 241  HANGEUL == 242
EMUL0 == 224  EMUL1 == 225  RELEASE == 240

\* The make sequence of a key: its prefix and its code.
Make(k) ==
    CASE encoding = "translated" ->
           (CASE k = "a" -> <<30>> [] k = "shift" -> <<42>> [] k = "f7" -> <<65>>
              [] k = "up" -> <<EMUL0, 72>> [] k = "hanja" -> <<HANJA>>
              [] k = "pause" -> <<EMUL1, 29, 69, EMUL1, 157, 197>>)
      [] encoding = "set2" ->
           (CASE k = "a" -> <<28>> [] k = "shift" -> <<18>> [] k = "f7" -> <<131>>
              [] k = "up" -> <<EMUL0, 117>> [] k = "hanja" -> <<HANJA>>
              [] k = "pause" -> <<EMUL1, 20, 119, EMUL1, RELEASE, 20, RELEASE, 119>>)
      [] encoding = "set3" ->
           (CASE k = "a" -> <<28>> [] k = "shift" -> <<18>> [] k = "f7" -> <<55>>
              [] k = "up" -> <<99>> [] k = "pause" -> <<98>> [] k = "hanja" -> <<HANJA>>)

\* Pause (but in set 3) and the Korean keys send nothing when they go up.
MakeOnly(k) == k = "hanja" \/ (k = "pause" /\ encoding # "set3")

Break(k) ==
    LET m == Make(k)
        code == m[Len(m)]
        prefix == Front(m)
    IN  CASE MakeOnly(k) -> <<>>
          [] ~MakeOnly(k) /\ encoding = "translated" -> Append(prefix, code + 128)
          [] OTHER -> prefix \o <<RELEASE, code>>

Send(bytes) ==
    /\ Len(wire) + Len(bytes) <= MaxBytes
    /\ strokes < MaxStrokes
    /\ wire' = wire \o bytes /\ strokes' = strokes + 1

\* A key goes down, or repeats.
Press(k) ==
    /\ Send(Make(k))
    /\ held' = IF MakeOnly(k) THEN held ELSE held \cup {k}
    /\ lost' = lost \ {k} /\ missed' = missed \ {k}
    /\ UNCHANGED <<encoding, driver, fresh, pulled, torn, acks>>

Unpress(k) ==
    /\ k \in held /\ Send(Break(k))
    /\ held' = held \ {k} /\ missed' = missed \ {k}
    /\ UNCHANGED <<encoding, driver, lost, fresh, pulled, torn, acks>>

\* Too many keys at once, or an answer to a command the driver has not sent.
Stray(b) ==
    /\ Send(<<b>>)
    /\ UNCHANGED <<encoding, held, driver, lost, missed, fresh, pulled, torn, acks>>

\* It is pulled out, and plugged in again with no key held. What it had not
\* sent is gone; a self test follows.
Replug ==
    /\ enabled /\ strokes < MaxStrokes /\ acks = 0
    /\ \E n \in 0 .. Len(wire) :
        /\ n < MaxBytes
        /\ wire' = Append(SubSeq(wire, 1, n), BAT)
        /\ pulled' = (pulled \/ n < Len(wire))
    /\ strokes' = strokes + 1
    /\ fresh' = IF encoding = "translated" /\ "shift" \in held \cup lost THEN "shift" ELSE "plain"
    /\ lost' = (lost \cup (held \ missed)) \ (IF encoding = "translated" THEN {"shift"} ELSE {})
    /\ held' = {} /\ missed' = {}
    /\ UNCHANGED <<encoding, driver, torn, acks>>

(***************************************************************************)
(* atkbd_interrupt                                                         *)
(***************************************************************************)

XlTable == {BAT, ERR, ACK, NAK, HANJA, HANGEUL}

NeedXlate(b) == b \notin {EMUL0, EMUL1} /\ (b \in XlTable => b \in xl)

\* A make code that would end in one of them announces a break code.
XlBit(b) ==
    LET t == {x \in XlTable : x % 128 = b % 128}
    IN  IF b >= 128 THEN xl \ t ELSE xl \cup t

CompatScancode(code) ==
    LET e0 == emul = 1
    IN  IF encoding = "set3" THEN code + (IF e0 /\ code < 256 THEN 256 ELSE 0)
        ELSE (code % 128) + (IF e0 THEN 128 ELSE 0) + (IF code >= 128 THEN 256 ELSE 0)

\* atkbd->keycode: the keys of atkbd_set2_keycode, atkbd_set3_keycode and
\* atkbd_unxlate_table; every other scan code is no key of this keyboard.
Keycode ==
    CASE encoding = "translated" -> [c \in {30, 42, 65, 200, 197, 369} |->
           CASE c = 30 -> "a" [] c = 42 -> "shift" [] c = 65 -> "f7" [] c = 200 -> "up"
             [] c = 197 -> "pause" [] c = 369 -> "hanja"]
      [] encoding = "set2" -> [c \in {28, 18, 259, 245, 247, 369} |->
           CASE c = 28 -> "a" [] c = 18 -> "shift" [] c = 259 -> "f7" [] c = 245 -> "up"
             [] c = 247 -> "pause" [] c = 369 -> "hanja"]
      [] encoding = "set3" -> [c \in {28, 18, 55, 99, 98, 241} |->
           CASE c = 28 -> "a" [] c = 18 -> "shift" [] c = 55 -> "f7" [] c = 99 -> "up"
             [] c = 98 -> "pause" [] c = 241 -> "hanja"]

\* force_release_mask
ForceRelease(k) == k = "hanja"

Reported(code, up) ==
    IF code \notin DOMAIN Keycode THEN down
    ELSE LET k == Keycode[code]
         IN  IF up \/ ForceRelease(k) THEN down \ {k} ELSE down \cup {k}

\* A variant that leaves release as it is.
ReportNoReset(code, up) == down' = Reported(code, up) /\ release' = up

\* A complete scan code: the key goes up or down, and down again at once.
Report(code, up) == down' = Reported(code, up) /\ release' = FALSE

\* What is left of the byte once the controller's translation is undone.
Code(b) == IF encoding = "translated" /\ (emul # 0 \/ NeedXlate(b)) THEN b % 128 ELSE b
Releases(b) == IF encoding = "translated" /\ (emul # 0 \/ NeedXlate(b)) THEN b >= 128
               ELSE release

Decode(b) ==
    LET code == Code(b)
        up == Releases(b)
    IN  /\ xl' = IF encoding = "translated" /\ emul = 0 THEN XlBit(b) ELSE xl
        /\ \/ /\ code = BAT /\ enabled' = FALSE /\ release' = up
              /\ UNCHANGED <<emul, down>>
           \/ /\ code \in {EMUL0, EMUL1} /\ release' = up
              /\ emul' = (IF code = EMUL0 THEN 1 ELSE 2)
              /\ UNCHANGED <<enabled, down>>
           \/ /\ code = RELEASE /\ release' = TRUE
              /\ UNCHANGED <<emul, enabled, down>>
           \/ /\ code \in {ACK, NAK, ERR} /\ release' = up
              /\ UNCHANGED <<emul, enabled, down>>
           \/ /\ code \notin {BAT, EMUL0, EMUL1, RELEASE, ACK, NAK, ERR}
              /\ emul' = IF emul = 0 THEN 0 ELSE emul - 1
              /\ IF emul = 2 THEN down' = down /\ release' = up
                             ELSE Report(CompatScancode(code), up)
              /\ UNCHANGED enabled

\* libps2 takes the answer to a command before the driver sees it.
Interrupt ==
    /\ wire # <<>>
    /\ wire' = Tail(wire)
    /\ IF wire[1] = ACK /\ acks > 0
       THEN acks' = acks - 1 /\ UNCHANGED driver
       ELSE /\ UNCHANGED acks
            /\ IF enabled THEN Decode(wire[1]) ELSE UNCHANGED driver
    /\ UNCHANGED <<encoding, held, lost, missed, fresh, pulled, torn, strokes>>

\* The driver sets the LEDs: the keyboard answers after what it has sent.
Command ==
    /\ enabled /\ acks = 0 /\ fresh = "no"
    /\ Send(<<ACK>>) /\ acks' = 1
    /\ UNCHANGED <<encoding, held, driver, lost, missed, fresh, pulled, torn>>

\* Resume, or somebody writes "reconnect" to drvctl.
AskReconnect ==
    /\ enabled /\ strokes < MaxStrokes
    /\ enabled' = FALSE /\ strokes' = strokes + 1
    /\ UNCHANGED <<encoding, held, wire, emul, release, xl, down, lost, missed, fresh, pulled,
                   torn, acks>>

\* atkbd_reconnect: the keyboard is told to stop, which empties it, and to go
\* on. Of the decoder's memory, release is left as it was.
Reconnect ==
    /\ ~enabled
    /\ enabled' = TRUE /\ emul' = 0 /\ xl' = {}
    /\ wire' = <<>> /\ acks' = 0 /\ fresh' = "no"
    /\ lost' = down \ held /\ missed' = held \ down /\ torn' = (torn \/ release)
    /\ UNCHANGED <<encoding, held, release, down, pulled, strokes>>

(***************************************************************************)
(* Specification                                                           *)
(***************************************************************************)

Init ==
    /\ encoding \in Encodings
    /\ held = {} /\ wire = <<>>
    /\ emul = 0 /\ release = FALSE /\ xl = {} /\ enabled = TRUE
    /\ down = {} /\ lost = {} /\ missed = {}
    /\ fresh = "no" /\ pulled = FALSE /\ torn = FALSE /\ acks = 0 /\ strokes = 0

Next ==
    \/ \E k \in Keys : Press(k) \/ Unpress(k)
    \/ \E b \in {NAK, ERR} : Stray(b)
    \/ Replug \/ Command \/ AskReconnect \/ Reconnect \/ Interrupt

Spec == Init /\ [][Next]_vars

(***************************************************************************)
(* Properties                                                              *)
(***************************************************************************)

Quiet == wire = <<>> /\ enabled /\ ~pulled

\* The decoder inverts the encoding: once every byte is taken, the input layer
\* holds for down the keys that are, however sequences, answers, strays,
\* replugs and reconnects followed one another, and no half sequence is
\* remembered. A reconnect in the middle of a release is left to MidwayIsReset.
KeysAgree ==
    Quiet /\ ~torn =>
        /\ down = (held \ missed) \cup lost
        /\ emul = 0 /\ ~release

\* A keyboard plugged in is noticed and set up, unless its self test looks
\* like the end of the shift key held when the old one was pulled out.
PlugIsNoticed == Quiet => fresh # "plain"

\* "Reset our state machine in case reconnect happened in the middle of
\* multi-byte scancode" (atkbd-new.c:1265): a key pressed after a reconnect is
\* down.
MidwayIsReset == Quiet => held \ missed \subseteq down

=============================================================================

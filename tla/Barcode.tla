------------------------------- MODULE Barcode -------------------------------
(***************************************************************************)
(* The key reader: a barcode or NFC reader types a code and Return, a user *)
(* at the keyboard types what they like.  A reader is [buffer, armed]: the *)
(* characters so far, and whether the timer that drops them is running.    *)
(***************************************************************************)
EXTENDS Naturals, Sequences

CONSTANTS
    Word,        \* the letters and digits
    Punctuation  \* accepted too, key codes 58 to 64, but no part of a code

Accepted == Word \cup Punctuation

\* A character is none of the keys that are told by their names.
ASSUME KeyAssumption == Accepted \cap {"Shift", "Return", "Other"} = {}

\* "Other": a key that is neither accepted nor Shift nor Return.
Key == Accepted \cup {"Shift", "Return", "Other"}

Idle == [buffer |-> <<>>, armed |-> FALSE]

\* buffer.match(/\w{length}/): anywhere in the buffer.
IsFull(r, length) ==
    \E i \in 1 .. Len(r.buffer) : i + length - 1 <= Len(r.buffer)
        /\ \A j \in i .. i + length - 1 : r.buffer[j] \in Word

HandsOver(r, k, length) == k = "Return" /\ IsFull(r, length)

\* Mutant: Return leaves the characters for the next reading.
KeyReadKeeping(r, k) ==
    IF k \in Accepted THEN [buffer |-> Append(r.buffer, k), armed |-> TRUE] ELSE r

\* An accepted key starts the timer anew.
KeyRead(r, k) ==
    CASE k \in Accepted -> [buffer |-> Append(r.buffer, k), armed |-> TRUE]
      [] k = "Shift"    -> r
      [] OTHER          -> [r EXCEPT !.buffer = <<>>]

\* No key for 50 ms.
TimedOut(r) == Idle

=============================================================================

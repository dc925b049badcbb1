--------------------------- MODULE MCSegmentation ---------------------------
(***************************************************************************)
(* Segmentation with limits of a few units: message m1 is any short text,  *)
(* m2 one of three long ones of other kinds.                               *)
(***************************************************************************)
EXTENDS Segmentation

TextsOver(chars, n) == UNION {[1..k -> chars] : k \in 0..n}

ShortTexts ==
    TextsOver({"plain", "ext"}, 5) \cup TextsOver({"wide", "astral"}, 5)
    \cup {[i \in 1..k |-> "byte"] : k \in 1..9}

LongTexts ==
    {<<"ext", "plain", "ext", "plain">>, <<"wide", "plain", "astral", "wide">>, <<"byte", "byte", "byte", "byte">>}

MCTexts == [m1 : ShortTexts, m2 : LongTexts]

MCRefs == [m1 |-> 7, m2 |-> 260]

\* The limits of message.go and udh16_unpacked.go fill the 140 octets of a short message:
\* a header of 6 or 7 octets, fill bits and packed septets included.
Fits(octets, header, bits) == header * 8 + bits <= octets * 8

ASSUME LimitsFit ==
    /\ Fits(140, 0, 160 * 7) /\ Fits(140, 6, 1 + 153 * 7) /\ ~Fits(140, 6, 1 + 154 * 7)
    /\ GSM7UDHFillBits(6) = 1 /\ GSM7UDHFillBits(7) = 0 /\ Fits(140, 7, 152 * 7) /\ ~Fits(140, 7, 154 * 7)
    /\ Fits(140, 0, 70 * 16) /\ Fits(140, 6, 67 * 16) /\ ~Fits(140, 6, 68 * 16) /\ Fits(140, 7, 66 * 16)
    /\ Fits(140, 6, 134 * 8) /\ Fits(140, 7, 133 * 8) /\ ~Fits(140, 6, 135 * 8) /\ ~Fits(140, 7, 134 * 8)
=============================================================================

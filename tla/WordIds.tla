------------------------------ MODULE WordIds ------------------------------
(***************************************************************************)
(* The signature of a word that the word table lacks, as                   *)
(* BerkeleySignatureEstimator makes it for English.  The text of a word is *)
(* a sequence of parts, and a signature starts with the part UNK.  A word  *)
(* has what the functions of StringUtil and CharUtil find in it:           *)
(*   text, lowered         itself and its lower-case form                  *)
(*   first                 the class of its first character                *)
(*   caps, lower, digit, dash, len   numbers of characters                 *)
(*   ending                "s" after another letter than s, i and u, "ss"  *)
(*                         after one of these, or one of Endings           *)
(***************************************************************************)
EXTENDS Integers, Sequences

Endings == {"ed", "ing", "ion", "er", "est", "ly", "ity", "y", "al"}

When(condition, part) == IF condition THEN <<part>> ELSE <<>>

(* The first letter of the sentence says nothing if it is the only capital. *)
CaseOf(word, location, knownLower) ==
  IF word.first = "upper"
    THEN IF location = 1 /\ word.caps = 1 THEN <<"INITC">> \o When(knownLower, "KNOWNLC") ELSE <<"CAPS">>
  ELSE IF word.first # "lower" /\ word.caps > 0 THEN <<"CAPS">>
  ELSE When(word.lower > 0, "LC")

EndingOf(word) ==
  IF word.ending \in {"s", "ss"} /\ word.len >= 3 THEN When(word.ending = "s", "s")
  ELSE When(word.ending \in Endings /\ word.len >= 5 /\ word.dash = 0 /\ ~(word.digit > 0 /\ word.caps > 0),
            word.ending)

Signature(word, location, knownLower) ==
  IF word.len = 0 THEN <<"UNK">>
  ELSE <<"UNK">> \o CaseOf(word, location, knownLower) \o When(word.digit > 0, "NUM")
       \o When(word.dash > 0, "DASH") \o EndingOf(word)
=============================================================================

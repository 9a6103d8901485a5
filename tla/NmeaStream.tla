----------------------------- MODULE NmeaStream -----------------------------
(***************************************************************************)
(* A GPS receiver that speaks NMEA 0183 and the parser behind it: each     *)
(* epoch is a GGA and an RMC sentence, characters are damaged or lost, and *)
(* one GpsFix collects what the accepted sentences say.                    *)
(*                                                                         *)
(* A fix holds the epochs its fields were measured in.  The checksum is    *)
(* taken to be perfect: it fits exactly when the characters are those of   *)
(* one sentence, all of them and in place.  Its two digits are one         *)
(* character.                                                              *)
(***************************************************************************)
EXTENDS Naturals

CONSTANTS
  BodyLength,    \* Characters of a sentence between '$' and '*'.
  BufferLength,  \* Characters the parser keeps.
  MaxEpochs,     \* Epochs the receiver reports. Bounds the model.
  MaxFaults      \* Characters damaged or lost. Bounds the model.

VARIABLES
  epoch, sentence, at, usable,  \* What is sent: epoch, type, character, with data or without.
  inSentence, length,           \* The parser; its buffer is the place of its last
  sum, text,                    \* character, and the sentence they are all of.
  outcome, fix,                 \* What parse_byte() returned, and `out'.
  garbled, faults               \* Faults in this epoch, and in all.
sent == <<epoch, sentence, at, usable>>
parser == <<inSentence, length, sum, text>>
vars == <<sent, parser, outcome, fix, garbled, faults>>

NoFix == [position |-> 0, altitude |-> 0, speed |-> 0, valid |-> FALSE, stamp |-> 0]

\* The sentence that is being sent.
Current == [type |-> sentence, epoch |-> epoch, usable |-> usable]
NoText == [type |-> "none", epoch |-> 0, usable |-> FALSE]

\* '$' body '*' checksum CR LF
SentenceLength == BodyLength + 5
Character ==
  CASE at = 1 -> "dollar"
    [] at = BodyLength + 2 -> "star"
    [] at \in {SentenceLength - 1, SentenceLength} -> "end"
    [] OTHER -> "text"

Init ==
  /\ epoch = 1 /\ sentence = "GGA" /\ at = 1 /\ usable \in BOOLEAN
  /\ inSentence = FALSE /\ length = 0 /\ sum = 0 /\ text = NoText
  /\ outcome = "incomplete" /\ fix = NoFix
  /\ garbled = FALSE /\ faults = 0

\* A sentence is of use, reports that there is no solution, or leaves its fields
\* empty for want of one.  What is decoded now is stamped with the present time.
Decode(fields) ==
  \/ /\ outcome' = "none"
     /\ fix' = [f \in DOMAIN fix |-> CASE f = "valid" -> text.usable
                                       [] f = "stamp" -> epoch
                                       [] f \in fields -> text.epoch
                                       [] OTHER -> fix[f]]
  \/ ~text.usable /\ outcome' = "malformed" /\ UNCHANGED fix

DecodeGga == Decode({"position", "altitude"})
DecodeRmc == Decode({"position", "speed"})

\* decode_sentence: the text up to the star must be that of one sentence.
DecodeSentence ==
  IF sum # BodyLength + 3
    THEN outcome' \in {"malformed", "mismatch"} /\ UNCHANGED fix
    ELSE IF text.type = "GGA" THEN DecodeGga ELSE DecodeRmc

NothingDecoded == outcome' = "incomplete" /\ UNCHANGED fix

\* Seeded fault: a sentence is only begun between sentences.
ParseByteDollarOutside(c, place) ==
  CASE c = "dollar" /\ ~inSentence ->
         inSentence' = TRUE /\ length' = 0 /\ sum' = 1 /\ UNCHANGED text /\ NothingDecoded
    [] ~inSentence -> NothingDecoded /\ UNCHANGED parser
    [] c = "end" -> inSentence' = FALSE /\ DecodeSentence /\ UNCHANGED <<length, sum, text>>
    [] OTHER -> /\ length' = length + 1 /\ sum' = 0 /\ text' = NoText
                /\ NothingDecoded /\ UNCHANGED inSentence

\* The buffer goes on holding the beginning of one sentence, and nothing else.
Fits(place) == sum # 0 /\ place = sum + 1 /\ (sum = 1 \/ text = Current)

Begin ==
  /\ inSentence' = TRUE /\ length' = 0
  /\ sum' = 1 /\ text' = NoText
  /\ NothingDecoded

End ==
  /\ inSentence' = FALSE
  /\ IF length = 0 THEN NothingDecoded ELSE DecodeSentence
  /\ UNCHANGED <<length, sum, text>>

Overflow ==
  /\ inSentence' = FALSE /\ length' = 0
  /\ outcome' = "malformed"
  /\ UNCHANGED <<sum, text, fix>>

Store(place) ==
  /\ length' = length + 1
  /\ sum' = IF Fits(place) THEN place ELSE 0
  /\ text' = IF Fits(place) THEN Current ELSE NoText
  /\ NothingDecoded /\ UNCHANGED inSentence

\* parse_byte: a character and its place in its sentence, 0 if it is damaged.
ParseByte(c, place) ==
  CASE c = "dollar" -> Begin
    [] c # "dollar" /\ ~inSentence -> NothingDecoded /\ UNCHANGED parser
    [] c = "end" /\ inSentence -> End
    [] OTHER -> IF length >= BufferLength THEN Overflow ELSE Store(place)

Advance ==
  IF at < SentenceLength
    THEN at' = at + 1 /\ UNCHANGED <<epoch, sentence, usable>>
    ELSE /\ at' = 1
         /\ sentence' = IF sentence = "GGA" THEN "RMC" ELSE "GGA"
         /\ epoch' = IF sentence = "GGA" THEN epoch ELSE epoch + 1
         /\ IF sentence = "GGA" THEN UNCHANGED usable ELSE usable' \in BOOLEAN

\* Faults of the epoch begun next are counted anew.
NewEpoch == at = SentenceLength /\ sentence = "RMC"

Deliver ==
  /\ epoch <= MaxEpochs
  /\ ParseByte(Character, at)
  /\ Advance
  /\ garbled' = (garbled /\ ~NewEpoch)
  /\ UNCHANGED faults

Damage ==
  /\ epoch <= MaxEpochs /\ faults < MaxFaults
  /\ \E c \in {"dollar", "star", "text", "end"} : ParseByte(c, 0)
  /\ Advance
  /\ garbled' = ~NewEpoch /\ faults' = faults + 1

LoseCharacter ==
  /\ epoch <= MaxEpochs /\ faults < MaxFaults
  /\ outcome' = "incomplete"
  /\ Advance
  /\ garbled' = ~NewEpoch /\ faults' = faults + 1
  /\ UNCHANGED <<parser, fix>>

Next == Deliver \/ Damage \/ LoseCharacter

Spec == Init /\ [][Next]_vars

-----------------------------------------------------------------------------
\* The fix accumulates a receiver's GGA and RMC: whatever went wrong in the
\* epochs before, an epoch with a solution whose characters arrive as sent leaves
\* a fix that is all of that epoch. And a sentence that is accepted never leaves
\* an older position than altitude or speed, nor one whose stamp is not of its
\* own epoch, before a line loses both its ends and the next its beginning.
PairMakesFix ==
  /\ sentence = "RMC" /\ at = SentenceLength /\ usable /\ ~garbled =>
       fix = [position |-> epoch, altitude |-> epoch, speed |-> epoch,
              valid |-> TRUE, stamp |-> epoch]
  /\ fix.altitude <= fix.position /\ fix.speed <= fix.position
  /\ fix.position <= fix.stamp
  /\ fix.position = fix.stamp \/ faults >= 3

\* Types, and what PairMakesFix rests on.
NmeaTypes ==
  /\ epoch \in Nat \ {0} /\ sentence \in {"GGA", "RMC"}
  /\ at \in 1 .. SentenceLength /\ usable \in BOOLEAN
  /\ inSentence \in BOOLEAN /\ length \in Nat /\ sum \in Nat
  /\ text \in [type : {"GGA", "RMC", "none"}, epoch : Nat, usable : BOOLEAN]
  /\ fix \in [position : Nat, altitude : Nat, speed : Nat, valid : BOOLEAN, stamp : Nat]
  /\ garbled \in BOOLEAN /\ faults \in Nat

\* In an epoch without a fault the parser is where the sender is: it has what was
\* sent of the sentence, and after the first character of its end it has let go.
InPlace ==
  ~garbled =>
    /\ at \in 2 .. SentenceLength - 1 =>
         inSentence /\ length = at - 2 /\ sum = at - 1 /\ (at >= 3 => text = Current)
    /\ at = SentenceLength => ~inSentence

\* What such an epoch has put into the fix so far.
Collected ==
  ~garbled /\ usable =>
    /\ sentence = "RMC" \/ at = SentenceLength =>
         fix.position = epoch /\ fix.altitude = epoch /\ fix.stamp = epoch
    /\ sentence = "RMC" /\ at = SentenceLength => fix.speed = epoch /\ fix.valid

\* Nothing in the fix is newer than the sentence in the buffer, and that one not
\* newer than the epoch.
InOrder ==
  /\ fix.altitude <= fix.position /\ fix.speed <= fix.position
  /\ fix.position <= fix.stamp /\ fix.stamp <= epoch
  /\ sum >= 2 => fix.position <= text.epoch /\ text.epoch <= epoch

\* A sentence is whole in the buffer while its end is under way; it is there still
\* when both characters of it are lost, and behind the next '$' when that is, too.
Overdue ==
  inSentence /\ sum = BodyLength + 3 =>
    \/ /\ text = Current /\ at \in {SentenceLength - 1, SentenceLength}
       /\ at = SentenceLength => faults >= 1
    \/ at = 1 /\ faults >= 2
    \/ faults >= 3

NmeaInv ==
  /\ NmeaTypes /\ InPlace /\ Collected /\ InOrder /\ Overdue
  /\ fix.position = fix.stamp \/ faults >= 3
=============================================================================

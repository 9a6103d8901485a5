---------------------------- MODULE PacketStream ----------------------------
(***************************************************************************)
(* The binary wire protocols of the sensors: a sender's frames arrive byte *)
(* by byte, some bytes are damaged or lost, and a streaming parser finds   *)
(* its way back.  The raw-sample parsers of barometer, radar altimeter,    *)
(* magnetometer and IMU are one machine with different numbers; the UBX    *)
(* parser differs in how it looks for a frame and in what it skips.        *)
(*                                                                         *)
(* The Fletcher checksum is taken to be perfect: it matches exactly when   *)
(* the bytes it covers are those of one frame, in place and undamaged.     *)
(* UBX class and id, which are only compared together, are one byte.       *)
(***************************************************************************)
EXTENDS Naturals

CONSTANTS
  MaxSkip,    \* Longest payload of an unknown message a raw parser skips.
  ByteBase,   \* Weight of a length's high byte.
  MaxFaults   \* Bytes damaged or lost. Bounds the model.

VARIABLES
  format,     \* Which parser is fed.
  frame,      \* The frame being sent: message id, length, position, what was hurt.
  parser,     \* state_, msg_id_, length_, payload_index_ and the checksum.
  result,     \* What parse_byte() said of the last byte.
  ready,      \* Whether the parser was looking for a frame when this one began.
  missed,     \* Whole frames in a row that were not reported, since bytes that are no
              \* start of a frame last made the parser miss one (see Misled).
  faults
vars == <<format, frame, parser, result, ready, missed, faults>>

RawFormats == {"baro", "radalt", "mag", "imu"}
Formats == RawFormats \cup {"ubx"}

\* Byte values that matter: a plain one, ids and lengths, the two sync bytes.
SampleId == 1
UnknownId == 2
Sync1 == 3
Sync2 == 4
Bytes == 0 .. 4

\* Payload lengths the parser of each format takes for a sample.
SampleLengths ==
  [baro |-> {1}, radalt |-> {1}, mag |-> {2}, imu |-> {3}, ubx |-> {1, 2}]

\* A byte with the position it has in its frame, 0 once it is damaged or stands
\* behind a damage the checksum of its frame covers.
Byte(value, place) == [value |-> value, place |-> place]

\* sync1, sync2, id, length, payload, ck_a, ck_b.
FrameLength(f) == 7 + f.length
Fresh(id, length) == [id |-> id, length |-> length, at |-> 1, hurt |-> "none"]
FreshFrames == {Fresh(SampleId, length) : length \in SampleLengths[format]}
                 \cup {Fresh(UnknownId, length) : length \in 0 .. 2}

\* What the sender puts at the next position. Payload and checksum are any bytes, the
\* sync bytes in a row included.
Sent ==
  CASE frame.at = 1 -> {Sync1}
    [] frame.at = 2 -> {Sync2}
    [] frame.at = 3 -> {frame.id}
    [] frame.at = 4 -> {frame.length}
    [] frame.at = 5 -> {0}
    [] OTHER -> Bytes

Cleared == [state |-> "sync1", id |-> 0, length |-> 0, index |-> 0, sum |-> 0]

Init ==
  /\ format \in Formats
  /\ frame \in FreshFrames
  /\ parser = Cleared
  /\ result = "incomplete" /\ ready = TRUE /\ missed = 0 /\ faults = 0

(***************************************************************************)
(* parse_byte, one operator per state.  `sum' is the place in its frame of *)
(* the last byte the checksum covers, as long as it covers nothing else.   *)
(***************************************************************************)
Incomplete(p) == parser' = p /\ result' = "incomplete"
Rejected(why) == parser' = Cleared /\ result' = why
At(state) == parser.state = state

NextSum(b) == IF parser.sum # 0 /\ b.place = parser.sum + 1 THEN b.place ELSE 0

FindSync1(b) ==
  /\ At("sync1")
  /\ Incomplete([parser EXCEPT !.state = IF b.value = Sync1 THEN "sync2" ELSE "sync1"])

\* Both parsers start a checksum at the second sync byte.
StartFrame == [parser EXCEPT !.state = "id", !.sum = 2]

\* Seeded fault: a stray sync byte takes the sync byte behind it along.
RawSync2Forgets(b) ==
  /\ At("sync2")
  /\ Incomplete(IF b.value = Sync2 THEN StartFrame ELSE [parser EXCEPT !.state = "sync1"])

RawSync2(b) ==
  /\ At("sync2")
  /\ Incomplete(CASE b.value = Sync2 -> StartFrame
                  [] b.value = Sync1 -> parser
                  [] OTHER -> [parser EXCEPT !.state = "sync1"])

UbxSync2(b) ==
  /\ At("sync2")
  /\ Incomplete(IF b.value = Sync2 THEN StartFrame ELSE [parser EXCEPT !.state = "sync1"])

TakeId(b) ==
  /\ At("id")
  /\ Incomplete([parser EXCEPT !.state = "length1", !.id = b.value, !.sum = NextSum(b)])

TakeLength1(b) ==
  /\ At("length1")
  /\ Incomplete([parser EXCEPT !.state = "length2", !.length = b.value, !.sum = NextSum(b)])

Length(b) == parser.length + ByteBase * b.value
BeginPayload(b) ==
  Incomplete([parser EXCEPT !.state = IF Length(b) = 0 THEN "checksumA" ELSE "payload",
                            !.length = Length(b), !.index = 0, !.sum = NextSum(b)])

\* Seeded fault: an unknown message is skipped however long it claims to be.
RawLength2Unlimited(b) ==
  /\ At("length2")
  /\ IF parser.id = SampleId /\ Length(b) \notin SampleLengths[format]
       THEN Rejected("incomplete")
       ELSE BeginPayload(b)

RawLength2(b) ==
  /\ At("length2")
  /\ IF \/ parser.id = SampleId /\ Length(b) \notin SampleLengths[format]
        \/ parser.id # SampleId /\ Length(b) > MaxSkip
       THEN Rejected("incomplete")
       ELSE BeginPayload(b)

UbxLength2(b) == At("length2") /\ BeginPayload(b)

TakePayload(b) ==
  /\ At("payload")
  /\ Incomplete([parser EXCEPT !.index = @ + 1, !.sum = NextSum(b),
                               !.state = IF parser.index + 1 >= parser.length
                                           THEN "checksumA" ELSE "payload"])

ChecksumFits(b) == NextSum(b) # 0

CheckA(b) ==
  /\ At("checksumA")
  /\ IF ChecksumFits(b)
       THEN Incomplete([parser EXCEPT !.state = "checksumB", !.sum = NextSum(b)])
       ELSE Rejected("checksumMismatch")

CheckB(b, decoded) ==
  /\ At("checksumB")
  /\ Rejected(IF ~ChecksumFits(b) THEN "checksumMismatch"
              ELSE IF parser.id # SampleId THEN "unsupported" ELSE decoded)

RawParse(b) ==
  \/ FindSync1(b) \/ RawSync2(b) \/ TakeId(b) \/ TakeLength1(b) \/ RawLength2(b)
  \/ TakePayload(b) \/ CheckA(b) \/ CheckB(b, "none")

BaroParse(b) == format = "baro" /\ RawParse(b)
RadaltParse(b) == format = "radalt" /\ RawParse(b)
MagParse(b) == format = "mag" /\ RawParse(b)
ImuParse(b) == format = "imu" /\ RawParse(b)

\* decode_nav_pvt refuses a payload outside the two lengths it knows.
DecodeNavPvt == IF parser.length \in SampleLengths["ubx"] THEN "none" ELSE "malformed"

UbxParse(b) ==
  /\ format = "ubx"
  /\ \/ FindSync1(b) \/ UbxSync2(b) \/ TakeId(b) \/ TakeLength1(b) \/ UbxLength2(b)
     \/ TakePayload(b) \/ CheckA(b) \/ CheckB(b, DecodeNavPvt)

ParseByte(b) == BaroParse(b) \/ RadaltParse(b) \/ MagParse(b) \/ ImuParse(b) \/ UbxParse(b)

(***************************************************************************)
(* The wire.                                                               *)
(***************************************************************************)
\* Where the parser stands when a frame of its own can be recognised.
Hunting == parser.state \in IF format = "ubx" THEN {"sync1"} ELSE {"sync1", "sync2"}

Reported == result' = IF frame.id = SampleId THEN "none" ELSE "unsupported"
\* What a fault now hurts in the frame: its sync bytes, or what they announce. The
\* bytes of a frame that is a "mimic" all arrive as sent.
Hurt == IF frame.at <= 2 /\ frame.hurt # "body" THEN "sync" ELSE "body"
LastByte == frame.at = FrameLength(frame)

\* The frame goes on, or the next one begins.
Advance(hurt) ==
  /\ ready' = IF frame.at = 1 THEN Hunting ELSE ready
  /\ IF LastByte
       THEN frame' \in FreshFrames
       ELSE frame' = [frame EXCEPT !.at = @ + 1, !.hurt = hurt]
  /\ UNCHANGED format

\* A parser that has lost its place takes two bytes in the middle of a frame for the
\* sync bytes of another; or the UBX parser takes the last byte of a frame for a first
\* sync byte, and then the true one behind it for none.
Misled ==
  \/ At("sync2") /\ parser'.state = "id" /\ frame.at # 2
  \/ format = "ubx" /\ LastByte /\ At("sync1") /\ parser'.state = "sync2"

Missed ==
  IF Misled \/ (LastByte /\ Reported) THEN 0
  ELSE IF LastByte /\ frame.hurt = "none" THEN missed + 1 ELSE missed

Deliver ==
  /\ \E value \in Sent : ParseByte(Byte(value, IF frame.hurt = "body" THEN 0 ELSE frame.at))
  /\ Advance(IF Misled /\ frame.hurt = "none" THEN "mimic" ELSE frame.hurt)
  /\ missed' = Missed
  /\ UNCHANGED faults

Damage ==
  /\ faults < MaxFaults
  /\ \E sent \in Sent : \E value \in Bytes \ {sent} : ParseByte(Byte(value, 0))
  /\ Advance(Hurt)
  /\ faults' = faults + 1 /\ missed' = 0

LoseByte ==
  /\ faults < MaxFaults
  /\ Advance(Hurt)
  /\ result' = "incomplete"
  /\ faults' = faults + 1 /\ missed' = 0
  /\ UNCHANGED parser

Next == Deliver \/ Damage \/ LoseByte

Spec == Init /\ [][Next]_vars

-----------------------------------------------------------------------------
Reports == result' \in {"none", "unsupported"}

\* A frame is reported, as a sample or as an unknown message, whenever all its
\* bytes arrive as sent and the parser was looking for a frame when it began, and
\* only at the last byte of a frame that arrives as sent from its id on: nothing
\* is made up of parts, and nothing in front of a frame hides it.
ReportsWholeFrames ==
  Deliver => /\ LastByte /\ frame.hurt = "none" /\ ready => Reports
             /\ Reports => LastByte /\ frame.hurt # "body" /\ Reported

\* Longest payload the parser may believe in, and the frames that can go by
\* before it looks again: those under the payload and its checksum, the one it
\* gives up in, and the one before.
LongestPayload == IF format = "ubx" THEN ByteBase * Sync2 + Sync2 ELSE MaxSkip
MissedAtMost == (LongestPayload + 5) \div 7 + 1

\* kMaxSkipLength: "a corrupt length byte must not park the parser". Of the good
\* frames behind a fault, or behind a frame whose bytes looked like the start of one
\* to a parser that had lost its place, a bounded number goes by before frames are
\* reported again. How often frames can mislead a lost parser one after the other is
\* up to what is in their payloads, and has no bound.
ResyncBounded == missed <= MissedAtMost

(***************************************************************************)
(* What the two rest on.                                                   *)
(***************************************************************************)
Searching == parser.state \in {"sync1", "sync2"}

StreamTypes ==
  /\ format \in Formats
  /\ frame \in [id : {SampleId, UnknownId}, length : 0 .. 3, at : 1 .. 10,
                hurt : {"none", "mimic", "sync", "body"}]
  /\ frame.at <= FrameLength(frame)
  /\ frame.id = SampleId => frame.length \in SampleLengths[format]
  /\ frame.id = UnknownId => frame.length <= 2
  /\ parser \in [state : {"sync1", "sync2", "id", "length1", "length2", "payload",
                         "checksumA", "checksumB"},
                 id : Bytes, length : Nat, index : Nat, sum : Nat]
  /\ parser.state = "length2" => parser.length \in Bytes
  /\ parser.state = "payload" => parser.index < parser.length /\ parser.length <= LongestPayload
  /\ ready \in BOOLEAN /\ missed \in Nat /\ faults \in Nat

\* The checksum covers something only between the sync bytes and the end of what the
\* parser takes for a frame, and then as many bytes as the parser has read of it.
SumIsPlace ==
  /\ Searching => parser.sum = 0
  /\ parser.sum # 0 =>
       parser.sum = CASE parser.state = "id" -> 2
                      [] parser.state = "length1" -> 3
                      [] parser.state = "length2" -> 4
                      [] parser.state = "payload" -> 5 + parser.index
                      [] parser.state = "checksumA" -> 5 + parser.length
                      [] OTHER -> 6 + parser.length

\* A checksum that may still fit is that of the frame being sent, whose id and length
\* the parser then has; or that frame will not make it fit, because it is damaged or
\* has only begun.
SumIsOfFrame ==
  parser.sum >= 3 =>
    \/ frame.hurt = "body" \/ frame.at <= 3
    \/ /\ parser.sum + 1 = frame.at /\ parser.id = frame.id
       /\ parser.sum >= 4 => parser.length = frame.length

\* In a frame that began where the parser was looking for one the parser is where the
\* sender is.
InStep ==
  ready /\ frame.hurt = "none" /\ frame.at >= 2 =>
    /\ parser.state = CASE frame.at = 2 -> "sync2"
                         [] frame.at = 3 -> "id"
                         [] frame.at = 4 -> "length1"
                         [] frame.at = 5 -> "length2"
                         [] frame.at \in 6 .. 5 + frame.length -> "payload"
                         [] frame.at = 6 + frame.length -> "checksumA"
                         [] frame.at = 7 + frame.length -> "checksumB"
    /\ frame.at >= 3 => parser.sum = frame.at - 1
    /\ frame.at \in 6 .. 5 + frame.length => parser.index = frame.at - 6

\* How many bytes the parser may still take for parts of a frame before it looks for
\* one again.
Owed ==
  CASE Searching -> 0
    [] parser.state = "id" -> LongestPayload + 5
    [] parser.state = "length1" -> LongestPayload + 4
    [] parser.state = "length2" -> LongestPayload + 3
    [] parser.state = "payload" -> parser.length - parser.index + 2
    [] parser.state = "checksumA" -> 2
    [] OTHER -> 1

\* Frames are missed while the parser swallows them, which uses up what it owes; in
\* the one where it comes to look again; and not in the next.
Resync ==
  /\ frame.hurt # "none" => missed = 0
  /\ ~Searching /\ frame.hurt = "none" /\ (frame.at = 1 \/ ~ready) =>
       7 * missed + frame.at - 1 + Owed <= LongestPayload + 5
  /\ Searching /\ frame.hurt = "none" /\ ~ready /\ frame.at >= 2 =>
       /\ missed + 1 <= MissedAtMost
       /\ frame.at = 2 => parser.state = "sync1"
  /\ frame.at = 1 /\ ~Hunting => missed + 1 <= MissedAtMost
  /\ missed <= MissedAtMost

StreamInv == StreamTypes /\ SumIsPlace /\ SumIsOfFrame /\ InStep /\ Resync
=============================================================================

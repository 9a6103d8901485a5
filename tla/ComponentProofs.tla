--------------------------- MODULE ComponentProofs ---------------------------
(***************************************************************************)
(* Proofs about the components the bench mounts, but for the watchdog: the *)
(* packet parsers, which this module extends; those that measure time,     *)
(* which are the regulator sequencer, the blocking wait of the UDP bridge  *)
(* and the GPS receiver with its hold-off and its latency line; the life   *)
(* cycle of a shared-memory segment, the I2C TCP bridge, the flight        *)
(* computers, the NMEA parser and the co-simulation hosts.  For any sizes, *)
(* numbers of faults, widths, timeouts, ticks, latencies, processes,       *)
(* transfers, connections, rates, sockets and command lines; what the      *)
(* numbers must allow is an antecedent of the theorems that need it.       *)
(***************************************************************************)
EXTENDS PacketStream, Integers, Sequences, SequenceTheorems, TLAPS

CONSTANTS
  Rails, MaxRails, ConfirmTimeouts, SequencerTicks, Width,  \* RegulatorSequencer
  Timeout, TicksPerMs, MaxDatagrams,                        \* UdpWait
  StepTime, Latencies, HoldOffs, MaxSteppedTime, MaxRuns,   \* GpsReceiver
  Processes, MaxObjects,                                    \* ShmSegment
  MaxTransfers, MaxConnections,                             \* I2cTcpBridge
  MaxEpochs, SamplesPerStep, SocketCapacity, Batch, MaxAttempts,  \* FlightComputer
  BodyLength, BufferLength, NmeaEpochs, NmeaFaults,         \* NmeaStream
  MaxArgs, StopTime                                         \* CosimHost

VARIABLES
  rail_ids, confirm_timeout, index, railElapsed, state, confirmed, silent,
  remaining, queue, arrived, at, blocked, waitResult, packet,
  life, simTime, latency, nedWritten, line, due, platform, cocom, holdOff, previous,
  reacquiredAt, solution, sent, run, tripped,
  name, created, call, held, crashed,
  pendingWrite, waiting, client, given, transfers, connections, requests, responses, open,
  serving, bridgeAt, header, bridgeResult, present, bus,
  program, host, epochs, lostEpochs, lostReturns, pending, bound, gpsSocket, radaltSocket,
  flightAt, left, drained, attempts, probedAt, fixes, returns, before, heard, gone, imuFailed,
  stamped,
  epoch, sentence, nmeaAt, usable, inSentence, nmeaLength, nmeaSum, text, outcome, fix,
  garbled, nmeaFaults,
  hostProgram, args, pass, hostAt, options, names, stage, hostTime, inputs, field, refused, row

Sequencer == INSTANCE RegulatorSequencer WITH
  Timeouts <- ConfirmTimeouts, Ticks <- SequencerTicks, elapsed <- railElapsed

Wait == INSTANCE UdpWait WITH result <- waitResult

Gps == INSTANCE GpsReceiver WITH MaxTime <- MaxSteppedTime, now <- simTime

Segment == INSTANCE ShmSegment

Tcp == INSTANCE I2cTcpBridge WITH at <- bridgeAt, result <- bridgeResult

Flight == INSTANCE FlightComputer WITH at <- flightAt

Nmea == INSTANCE NmeaStream WITH
  MaxEpochs <- NmeaEpochs, MaxFaults <- NmeaFaults,
  at <- nmeaAt, length <- nmeaLength, sum <- nmeaSum, faults <- nmeaFaults

Host == INSTANCE CosimHost WITH program <- hostProgram, at <- hostAt, time <- hostTime

(***************************************************************************)
(* The packet parsers.                                                     *)
(***************************************************************************)
\* What the formats' numbers are: a raw parser skips no less than the frames its own
\* sender makes, as kMaxSkipLength does by far.
PacketBounds == MaxSkip \in Nat /\ MaxSkip >= 3 /\ ByteBase \in Nat

\* parse_byte() is one of the operators for a state, whichever the format.
Decoded == IF format = "ubx" THEN DecodeNavPvt ELSE "none"
LEMMA ParseByState ==
  ASSUME format \in Formats, NEW b, ParseByte(b)
  PROVE  \/ FindSync1(b) \/ TakeId(b) \/ TakeLength1(b) \/ TakePayload(b) \/ CheckA(b)
         \/ CheckB(b, Decoded)
         \/ format # "ubx" /\ (RawSync2(b) \/ RawLength2(b))
         \/ format = "ubx" /\ (UbxSync2(b) \/ UbxLength2(b))
  BY DEF ParseByte, BaroParse, RadaltParse, MagParse, ImuParse, RawParse, UbxParse, Decoded

\* The two bytes of a length.
LEMMA LengthBytes ==
  ASSUME PacketBounds, NEW low \in Bytes, NEW high \in Bytes
  PROVE  /\ low + ByteBase * high \in Nat
         /\ format = "ubx" => low + ByteBase * high <= LongestPayload
         /\ low + ByteBase * 0 = low
<1>1. high \in {0, 1, 2, 3, 4} /\ low \in 0 .. 4
  BY DEF Bytes
<1>2. /\ ByteBase * 0 = 0 /\ ByteBase * 1 = ByteBase /\ ByteBase * 2 = ByteBase + ByteBase
      /\ ByteBase * 3 = ByteBase + ByteBase + ByteBase
      /\ ByteBase * 4 = ByteBase + ByteBase + ByteBase + ByteBase
  BY DEF PacketBounds
<1>3. ByteBase * high \in Nat /\ ByteBase * high <= ByteBase * 4
  BY <1>1, <1>2 DEF PacketBounds
<1>4. format = "ubx" => LongestPayload = ByteBase * 4 + 4
  BY DEF LongestPayload, Sync2
<1>5. low + ByteBase * high \in Nat
  BY <1>1, <1>3
<1>6. ASSUME format = "ubx" PROVE low + ByteBase * high <= LongestPayload
  BY <1>1, <1>2, <1>3, <1>4, <1>6 DEF PacketBounds
<1> QED
  BY <1>1, <1>2, <1>5, <1>6

\* The numbers of the invariants.
LEMMA PacketNumbers ==
  ASSUME PacketBounds, format \in Formats
  PROVE  /\ LongestPayload \in Nat /\ LongestPayload >= 3
         /\ MissedAtMost \in Nat
         /\ \A m \in Nat : 7 * m <= LongestPayload + 5 => m + 1 <= MissedAtMost
<1>1. LongestPayload \in Nat /\ LongestPayload >= 3
  BY DEF PacketBounds, LongestPayload, Sync2
<1>2. ASSUME NEW m \in Nat, 7 * m <= LongestPayload + 5
      PROVE  m <= (LongestPayload + 5) \div 7
  BY <1>1, <1>2
<1>3. (LongestPayload + 5) \div 7 \in Nat
  BY <1>1
<1> QED
  BY <1>1, <1>2, <1>3 DEF MissedAtMost

\* A frame begins as one of those the sender makes, and then goes on byte by byte.
LEMMA Sending ==
  ASSUME StreamTypes, NEW hurt \in {"none", "mimic", "sync", "body"}, Advance(hurt)
  PROVE  /\ format' = format
         /\ frame' \in [id : {SampleId, UnknownId}, length : 0 .. 3, at : 1 .. 10,
                        hurt : {"none", "mimic", "sync", "body"}]
         /\ frame'.at <= FrameLength(frame')
         /\ frame'.id = SampleId => frame'.length \in SampleLengths[format]
         /\ frame'.id = UnknownId => frame'.length <= 2
         /\ LastByte => frame'.at = 1 /\ frame'.hurt = "none"
         /\ ~LastByte => /\ frame'.at = frame.at + 1 /\ frame'.hurt = hurt
                         /\ frame'.id = frame.id /\ frame'.length = frame.length
         /\ ready' = (IF frame.at = 1 THEN Hunting ELSE ready)
         /\ ready' \in BOOLEAN
         /\ FrameLength(frame) = 7 + frame.length /\ frame.at \in Nat /\ frame.length \in 0 .. 3
<1> USE DEF StreamTypes
<1>1. FrameLength(frame) = 7 + frame.length /\ frame.at \in Nat /\ frame.length \in 0 .. 3
  BY DEF FrameLength
<1>2. /\ format' = format /\ ready' = (IF frame.at = 1 THEN Hunting ELSE ready)
      /\ ready' \in BOOLEAN
  <2>1. format' = format /\ ready' = (IF frame.at = 1 THEN Hunting ELSE ready)
    BY DEF Advance
  <2>2. Hunting \in BOOLEAN
    BY DEF Hunting
  <2>3. ready \in BOOLEAN
    OBVIOUS
  <2> QED
    BY <2>1, <2>2, <2>3
<1>3. CASE LastByte
  <2>1. frame' \in FreshFrames
    BY <1>3 DEF Advance
  <2>2. PICK id \in {SampleId, UnknownId}, length \in 0 .. 3 :
          /\ frame' = Fresh(id, length)
          /\ id = SampleId => length \in SampleLengths[format]
          /\ id = UnknownId => length <= 2
    <3>1. CASE \E length \in SampleLengths[format] : frame' = Fresh(SampleId, length)
      <4>1. SampleLengths[format] \in SUBSET (0 .. 3)
        BY DEF SampleLengths, Formats, RawFormats
      <4> QED
        BY <3>1, <4>1 DEF SampleId, UnknownId
    <3>2. CASE \E length \in 0 .. 2 : frame' = Fresh(UnknownId, length)
      BY <3>2 DEF SampleId, UnknownId
    <3> QED
      BY <2>1, <3>1, <3>2 DEF FreshFrames
  <2> QED
    BY <1>1, <1>2, <1>3, <2>2 DEF Fresh, FrameLength
<1>4. CASE ~LastByte
  <2>1. frame' = [frame EXCEPT !.at = @ + 1, !.hurt = hurt]
    BY <1>4 DEF Advance
  <2>2. frame.at < FrameLength(frame)
    BY <1>1, <1>4 DEF LastByte
  <2>3. /\ frame'.at = frame.at + 1 /\ frame'.hurt = hurt
        /\ frame'.id = frame.id /\ frame'.length = frame.length
        /\ frame' = [id |-> frame'.id, length |-> frame'.length, at |-> frame'.at,
                     hurt |-> frame'.hurt]
    BY <2>1
  <2>4. frame'.at \in 1 .. 10 /\ frame'.at <= 7 + frame'.length
    BY <1>1, <2>2, <2>3
  <2> QED
    BY <1>1, <1>2, <1>4, <2>3, <2>4 DEF FrameLength
<1> QED
  BY <1>3, <1>4

WireBytes == [value : Bytes, place : Nat]

\* NextSum counts a byte the checksum goes on to cover, and nothing else.
LEMMA Summing ==
  ASSUME StreamTypes, NEW b \in WireBytes
  PROVE  /\ NextSum(b) \in Nat /\ parser.sum \in Nat
         /\ NextSum(b) # 0 => /\ parser.sum # 0 /\ NextSum(b) = parser.sum + 1
                              /\ b.place = NextSum(b)
  BY DEF StreamTypes, NextSum, WireBytes

\* What one byte does to the parser: its fields stay typed, and the checksum covers as
\* many bytes as its state says.
ParserTypes(p) ==
  /\ p \in [state : {"sync1", "sync2", "id", "length1", "length2", "payload",
                     "checksumA", "checksumB"},
             id : Bytes, length : Nat, index : Nat, sum : Nat]
  /\ p.state = "length2" => p.length \in Bytes
  /\ p.state = "payload" => p.index < p.length /\ p.length <= LongestPayload

LEMMA LengthRead ==
  ASSUME PacketBounds, StreamTypes, SumIsPlace, NEW b \in WireBytes,
         \/ format # "ubx" /\ RawLength2(b)
         \/ format = "ubx" /\ UbxLength2(b)
  PROVE  /\ ~Searching /\ At("length2") /\ Length(b) \in Nat
         /\ \/ parser' = Cleared /\ result' = "incomplete"
               /\ format # "ubx"
               /\ \/ parser.id = SampleId /\ Length(b) \notin SampleLengths[format]
                  \/ parser.id # SampleId /\ Length(b) > MaxSkip
            \/ BeginPayload(b) /\ Length(b) <= LongestPayload
<1>1. At("length2") /\ parser.length \in Bytes /\ b.value \in Bytes
  BY DEF RawLength2, UbxLength2, At, StreamTypes, WireBytes
<1>2. Length(b) \in Nat /\ (format = "ubx" => Length(b) <= LongestPayload)
  <2>1. /\ parser.length + ByteBase * b.value \in Nat
        /\ format = "ubx" => parser.length + ByteBase * b.value <= LongestPayload
    BY <1>1, LengthBytes
  <2> QED
    BY <2>1 DEF Length
<1>3. ~Searching
  BY <1>1 DEF At, Searching
<1>4. CASE format # "ubx" /\ RawLength2(b)
  <2>1. CASE \/ parser.id = SampleId /\ Length(b) \notin SampleLengths[format]
             \/ parser.id # SampleId /\ Length(b) > MaxSkip
    BY <1>1, <1>2, <1>3, <1>4, <2>1 DEF RawLength2, Rejected
  <2>2. CASE ~(\/ parser.id = SampleId /\ Length(b) \notin SampleLengths[format]
               \/ parser.id # SampleId /\ Length(b) > MaxSkip)
    <3>1. BeginPayload(b)
      BY <1>4, <2>2 DEF RawLength2
    <3>2. LongestPayload = MaxSkip /\ MaxSkip \in Nat /\ MaxSkip >= 3
      BY <1>4 DEF LongestPayload, PacketBounds
    <3>3. Length(b) \in SampleLengths[format] => Length(b) <= 3
      BY DEF SampleLengths, StreamTypes, Formats, RawFormats
    <3>4. Length(b) <= LongestPayload
      BY <1>2, <2>2, <3>2, <3>3
    <3> QED
      BY <1>1, <1>2, <1>3, <3>1, <3>4
  <2> QED
    BY <2>1, <2>2
<1>5. CASE format = "ubx" /\ UbxLength2(b)
  BY <1>1, <1>2, <1>3, <1>5 DEF UbxLength2
<1> QED
  BY <1>4, <1>5

LEMMA ParserStep ==
  ASSUME PacketBounds, StreamTypes, SumIsPlace, NEW b \in WireBytes, ParseByte(b), format' = format
  PROVE  ParserTypes(parser)' /\ SumIsPlace'
<1> DEFINE States == {"sync1", "sync2", "id", "length1", "length2", "payload",
                      "checksumA", "checksumB"}
           Records == [state : States, id : Bytes, length : Nat, index : Nat, sum : Nat]
<1>1. /\ parser \in Records /\ parser.state \in States /\ parser.id \in Bytes
      /\ parser.length \in Nat /\ parser.index \in Nat /\ parser.sum \in Nat
      /\ format \in Formats /\ LongestPayload \in Nat
      /\ DOMAIN parser = {"state", "id", "length", "index", "sum"}
  BY PacketNumbers DEF StreamTypes
<1>2. /\ b.value \in Bytes /\ NextSum(b) \in Nat
      /\ NextSum(b) # 0 => parser.sum # 0 /\ NextSum(b) = parser.sum + 1
  BY Summing DEF WireBytes
<1>3. LongestPayload' = LongestPayload
  BY DEF LongestPayload
<1> USE DEF Searching
<1>4. ASSUME parser' = Cleared PROVE ParserTypes(parser)' /\ SumIsPlace'
  BY <1>4 DEF Cleared, ParserTypes, SumIsPlace, Bytes
<1>5. CASE FindSync1(b)
  <2>1. /\ parser' = [parser EXCEPT !.state = IF b.value = Sync1 THEN "sync2" ELSE "sync1"]
        /\ parser.state = "sync1" /\ parser.sum = 0
    BY <1>5 DEF FindSync1, Incomplete, At, SumIsPlace
  <2> QED
    BY <1>1, <2>1 DEF ParserTypes, SumIsPlace
<1>6. CASE (format # "ubx" /\ RawSync2(b)) \/ (format = "ubx" /\ UbxSync2(b))
  <2>1. /\ parser' \in {StartFrame, parser, [parser EXCEPT !.state = "sync1"]}
        /\ parser.state = "sync2" /\ parser.sum = 0
    BY <1>6 DEF RawSync2, UbxSync2, Incomplete, At, SumIsPlace, Sync1, Sync2
  <2>2. CASE parser' = StartFrame
    BY <1>1, <2>2 DEF StartFrame, ParserTypes, SumIsPlace
  <2>3. CASE parser' = parser
    BY <1>1, <2>1, <2>3 DEF ParserTypes, SumIsPlace
  <2>4. CASE parser' = [parser EXCEPT !.state = "sync1"]
    BY <1>1, <2>1, <2>4 DEF ParserTypes, SumIsPlace
  <2> QED
    BY <2>1, <2>2, <2>3, <2>4
<1>7. CASE TakeId(b)
  <2>1. /\ parser' = [parser EXCEPT !.state = "length1", !.id = b.value, !.sum = NextSum(b)]
        /\ parser.state = "id"
    BY <1>7 DEF TakeId, Incomplete, At
  <2>2. NextSum(b) # 0 => NextSum(b) = 3
    BY <1>2, <2>1 DEF SumIsPlace
  <2> QED
    BY <1>1, <1>2, <2>1, <2>2 DEF ParserTypes, SumIsPlace
<1>8. CASE TakeLength1(b)
  <2>1. /\ parser' = [parser EXCEPT !.state = "length2", !.length = b.value, !.sum = NextSum(b)]
        /\ parser.state = "length1" /\ b.value \in Nat
    BY <1>2, <1>8 DEF TakeLength1, Incomplete, At, Bytes
  <2>2. NextSum(b) # 0 => NextSum(b) = 4
    BY <1>2, <2>1 DEF SumIsPlace
  <2> QED
    BY <1>1, <1>2, <2>1, <2>2 DEF ParserTypes, SumIsPlace
<1>9. CASE (format # "ubx" /\ RawLength2(b)) \/ (format = "ubx" /\ UbxLength2(b))
  <2>1. /\ At("length2") /\ Length(b) \in Nat
        /\ parser' = Cleared \/ (BeginPayload(b) /\ Length(b) <= LongestPayload)
    BY <1>9, LengthRead
  <2>2. CASE BeginPayload(b) /\ Length(b) <= LongestPayload
    <3>1. /\ parser' = [parser EXCEPT
                          !.state = IF Length(b) = 0 THEN "checksumA" ELSE "payload",
                          !.length = Length(b), !.index = 0, !.sum = NextSum(b)]
      BY <2>2 DEF BeginPayload, Incomplete
    <3>2. NextSum(b) # 0 => NextSum(b) = 5
      BY <1>2, <2>1 DEF SumIsPlace, At
    <3>3. /\ parser'.state = (IF Length(b) = 0 THEN "checksumA" ELSE "payload")
          /\ parser'.length = Length(b) /\ parser'.index = 0 /\ parser'.sum = NextSum(b)
          /\ parser'.id = parser.id /\ parser' \in Records
      BY <1>1, <1>2, <2>1, <3>1
    <3>4. ParserTypes(parser)'
      BY <1>3, <2>1, <2>2, <3>3 DEF ParserTypes
    <3>5. SumIsPlace'
      BY <2>1, <3>2, <3>3 DEF SumIsPlace
    <3> QED
      BY <3>4, <3>5
  <2> QED
    BY <1>4, <2>1, <2>2
<1>10. CASE TakePayload(b)
  <2>1. /\ parser' = [parser EXCEPT !.index = @ + 1, !.sum = NextSum(b),
                               !.state = IF parser.index + 1 >= parser.length
                                           THEN "checksumA" ELSE "payload"]
        /\ parser.state = "payload" /\ parser.index < parser.length
        /\ parser.length <= LongestPayload
    BY <1>10 DEF TakePayload, Incomplete, At, StreamTypes
  <2>2. NextSum(b) # 0 => NextSum(b) = 6 + parser.index
    BY <1>1, <1>2, <2>1 DEF SumIsPlace
  <2>3. /\ parser'.state = (IF parser.index + 1 >= parser.length THEN "checksumA" ELSE "payload")
        /\ parser'.length = parser.length /\ parser'.index = parser.index + 1
        /\ parser'.sum = NextSum(b) /\ parser'.id = parser.id /\ parser' \in Records
    <3>1. parser.index + 1 \in Nat
      BY <1>1
    <3>2. (IF parser.index + 1 >= parser.length THEN "checksumA" ELSE "payload") \in States
      OBVIOUS
    <3> DEFINE next == IF parser.index + 1 >= parser.length THEN "checksumA" ELSE "payload"
               count == parser.index + 1
    <3>3. parser' = [parser EXCEPT !.index = count, !.sum = NextSum(b), !.state = next]
      BY <2>1
    <3>4. next \in States /\ count \in Nat
      BY <3>1, <3>2
    <3> HIDE DEF next, count
    <3>5. /\ parser'.state = next /\ parser'.length = parser.length /\ parser'.index = count
          /\ parser'.sum = NextSum(b) /\ parser'.id = parser.id /\ parser' \in Records
      BY <1>1, <1>2, <3>3, <3>4
    <3> QED
      BY <3>5 DEF next, count
  <2>4. ParserTypes(parser)'
    BY <1>1, <1>3, <2>1, <2>3 DEF ParserTypes
  <2>5. SumIsPlace'
    BY <1>1, <2>1, <2>2, <2>3 DEF SumIsPlace
  <2> QED
    BY <2>4, <2>5
<1>11. CASE CheckA(b)
  <2>1. /\ parser.state = "checksumA"
        /\ parser' = Cleared \/ parser' = [parser EXCEPT !.state = "checksumB", !.sum = NextSum(b)]
    BY <1>11 DEF CheckA, Incomplete, Rejected, At
  <2>2. CASE parser' = [parser EXCEPT !.state = "checksumB", !.sum = NextSum(b)]
    <3>1. NextSum(b) # 0 => NextSum(b) = 6 + parser.length
      BY <1>1, <1>2, <2>1 DEF SumIsPlace
    <3> QED
      BY <1>1, <1>2, <2>2, <3>1 DEF ParserTypes, SumIsPlace
  <2> QED
    BY <1>4, <2>1, <2>2
<1>12. CASE CheckB(b, Decoded)
  BY <1>4, <1>12 DEF CheckB, Rejected
<1> QED
  BY <1>1, <1>5, <1>6, <1>7, <1>8, <1>9, <1>10, <1>11, <1>12, ParseByState

\* What is sent at each position.
LEMMA SentBytes ==
  ASSUME StreamTypes, NEW value \in Sent
  PROVE  /\ value \in Bytes
         /\ frame.at = 1 => value = Sync1
         /\ frame.at = 2 => value = Sync2
         /\ frame.at = 3 => value = frame.id
         /\ frame.at = 4 => value = frame.length
         /\ frame.at = 5 => value = 0
<1> USE DEF StreamTypes, Bytes, SampleId, UnknownId, Sync1, Sync2
<1>1. frame.length \in 0 .. 3 /\ FrameLength(frame) >= 7 /\ frame.id \in {1, 2}
      /\ frame.at \in 1 .. 10
  BY DEF FrameLength
<1>2. CASE frame.at = 1
  BY <1>1, <1>2 DEF Sent, LastByte
<1>3. CASE frame.at = 2
  BY <1>1, <1>3 DEF Sent, LastByte
<1>4. CASE frame.at = 3
  BY <1>1, <1>4 DEF Sent, LastByte
<1>5. CASE frame.at = 4
  BY <1>1, <1>5 DEF Sent, LastByte
<1>6. CASE frame.at = 5
  BY <1>1, <1>6 DEF Sent, LastByte
<1>7. CASE frame.at > 5
  BY <1>1, <1>7 DEF Sent, LastByte
<1> QED
  BY <1>1, <1>2, <1>3, <1>4, <1>5, <1>6, <1>7

\* A byte that arrives has the place it was sent at, or none.
LEMMA Arriving ==
  ASSUME StreamTypes, Deliver
  PROVE  \E value \in Sent, b \in WireBytes :
           /\ ParseByte(b) /\ b.value = value
           /\ b.place = (IF frame.hurt = "body" THEN 0 ELSE frame.at)
<1>1. PICK value \in Sent : ParseByte(Byte(value, IF frame.hurt = "body" THEN 0 ELSE frame.at))
  BY DEF Deliver
<1> DEFINE place == IF frame.hurt = "body" THEN 0 ELSE frame.at
<1>2. place \in Nat /\ value \in Bytes
  BY SentBytes DEF StreamTypes
<1>3. Byte(value, place) \in WireBytes /\ Byte(value, place).value = value
      /\ Byte(value, place).place = place
  BY <1>2 DEF Byte, WireBytes
<1> QED
  BY <1>1, <1>3

\* It takes the frame on as it was, or as one that misled the parser.
LEMMA GoingOn ==
  ASSUME StreamTypes, Deliver
  PROVE  \E hurt \in {"none", "mimic", "sync", "body"} :
           /\ Advance(hurt)
           /\ IF Misled /\ frame.hurt = "none" THEN hurt = "mimic" ELSE hurt = frame.hurt
<1>1. frame.hurt \in {"none", "mimic", "sync", "body"}
  BY DEF StreamTypes
<1> QED
  BY <1>1 DEF Deliver

LEMMA Spoiling ==
  ASSUME StreamTypes, Damage
  PROVE  \E b \in WireBytes : ParseByte(b) /\ b.place = 0
<1>1. PICK right \in Sent : \E value \in Bytes \ {right} : ParseByte(Byte(value, 0))
  BY DEF Damage
<1>2. PICK value \in Bytes : ParseByte(Byte(value, 0))
  BY <1>1
<1>3. Byte(value, 0) \in WireBytes /\ Byte(value, 0).place = 0
  BY DEF Byte, WireBytes
<1> QED
  BY <1>2, <1>3

\* The bytes the checksum covers are id, length and payload of one frame.
LEMMA Covered ==
  ASSUME PacketBounds, StreamTypes, SumIsPlace, NEW b \in WireBytes, ParseByte(b),
         parser'.sum >= 3
  PROVE  /\ parser'.sum = parser.sum + 1 /\ parser'.sum = b.place
         /\ parser'.id = IF parser'.sum = 3 THEN b.value ELSE parser.id
         /\ parser'.length = IF parser'.sum = 4 THEN b.value
                             ELSE IF parser'.sum = 5 THEN parser.length + ByteBase * b.value
                             ELSE parser.length
<1>1. /\ parser.id \in Bytes /\ parser.length \in Nat /\ parser.index \in Nat
      /\ parser.sum \in Nat /\ format \in Formats
      /\ DOMAIN parser = {"state", "id", "length", "index", "sum"}
  BY DEF StreamTypes
<1>2. /\ b.value \in Bytes /\ NextSum(b) \in Nat
      /\ NextSum(b) # 0 => /\ parser.sum # 0 /\ NextSum(b) = parser.sum + 1
                           /\ b.place = NextSum(b)
  BY Summing DEF WireBytes
<1>3. parser' # Cleared
  BY DEF Cleared
<1>4. CASE FindSync1(b)
  <2>1. parser'.sum = parser.sum /\ parser.sum = 0
    BY <1>1, <1>4 DEF FindSync1, Incomplete, At, SumIsPlace, Searching
  <2> QED
    BY <2>1
<1>5. CASE (format # "ubx" /\ RawSync2(b)) \/ (format = "ubx" /\ UbxSync2(b))
  <2>1. /\ parser' \in {StartFrame, parser, [parser EXCEPT !.state = "sync1"]}
        /\ parser.sum = 0
    BY <1>5 DEF RawSync2, UbxSync2, Incomplete, At, SumIsPlace, Sync1, Sync2, Searching
  <2>2. parser'.sum \in {0, 2}
    BY <1>1, <2>1 DEF StartFrame
  <2> QED
    BY <2>2
<1>6. CASE TakeId(b)
  <2>1. /\ parser' = [parser EXCEPT !.state = "length1", !.id = b.value, !.sum = NextSum(b)]
        /\ parser.state = "id"
    BY <1>6 DEF TakeId, Incomplete, At
  <2>2. /\ parser'.sum = NextSum(b) /\ parser'.id = b.value /\ parser'.length = parser.length
    BY <1>1, <2>1
  <2>3. NextSum(b) # 0
    BY <2>2
  <2>4. NextSum(b) = 3
    BY <1>2, <2>1, <2>3 DEF SumIsPlace
  <2> QED
    BY <1>2, <2>2, <2>3, <2>4
<1>7. CASE TakeLength1(b)
  <2>1. /\ parser' = [parser EXCEPT !.state = "length2", !.length = b.value, !.sum = NextSum(b)]
        /\ parser.state = "length1"
    BY <1>7 DEF TakeLength1, Incomplete, At
  <2>2. /\ parser'.sum = NextSum(b) /\ parser'.id = parser.id /\ parser'.length = b.value
    BY <1>1, <2>1
  <2>3. NextSum(b) # 0
    BY <2>2
  <2>4. NextSum(b) = 4
    BY <1>2, <2>1, <2>3 DEF SumIsPlace
  <2> QED
    BY <1>2, <2>2, <2>3, <2>4
<1>8. CASE (format # "ubx" /\ RawLength2(b)) \/ (format = "ubx" /\ UbxLength2(b))
  <2>1. At("length2") /\ BeginPayload(b)
    BY <1>3, <1>8, LengthRead
  <2>2. /\ parser'.sum = NextSum(b) /\ parser'.id = parser.id /\ parser'.length = Length(b)
    BY <1>1, <2>1 DEF BeginPayload, Incomplete
  <2>3. NextSum(b) # 0
    BY <2>2
  <2>4. NextSum(b) = 5
    BY <1>2, <2>1, <2>3 DEF SumIsPlace, At
  <2> QED
    BY <1>2, <2>2, <2>3, <2>4 DEF Length
<1>9. CASE TakePayload(b)
  <2>1. /\ parser'.sum = NextSum(b) /\ parser'.id = parser.id /\ parser'.length = parser.length
        /\ parser.state = "payload"
    BY <1>1, <1>9 DEF TakePayload, Incomplete, At
  <2>2. NextSum(b) # 0
    BY <2>1
  <2>3. NextSum(b) = 6 + parser.index
    BY <1>1, <1>2, <2>1, <2>2 DEF SumIsPlace
  <2>4. NextSum(b) > 5
    BY <1>1, <2>3
  <2> QED
    BY <1>2, <2>1, <2>2, <2>4
<1>10. CASE CheckA(b)
  <2>1. parser' = [parser EXCEPT !.state = "checksumB", !.sum = NextSum(b)]
        /\ parser.state = "checksumA"
    BY <1>3, <1>10 DEF CheckA, Incomplete, Rejected, At
  <2>2. /\ parser'.sum = NextSum(b) /\ parser'.id = parser.id /\ parser'.length = parser.length
    BY <1>1, <2>1
  <2>3. NextSum(b) # 0
    BY <2>2
  <2>4. NextSum(b) = 6 + parser.length
    BY <1>1, <1>2, <2>1, <2>3 DEF SumIsPlace
  <2>5. NextSum(b) > 5
    BY <1>1, <2>4
  <2> QED
    BY <1>2, <2>2, <2>3, <2>5
<1>11. CASE CheckB(b, Decoded)
  BY <1>3, <1>11 DEF CheckB, Rejected
<1> QED
  BY <1>1, <1>4, <1>5, <1>6, <1>7, <1>8, <1>9, <1>10, <1>11, ParseByState

LEMMA SumKept ==
  ASSUME PacketBounds, StreamTypes, SumIsPlace, SumIsOfFrame, Next
  PROVE  SumIsOfFrame'
<1> SUFFICES ASSUME parser'.sum >= 3 PROVE SumIsOfFrame'
  BY DEF SumIsOfFrame
<1>1. CASE Deliver
  <2>1. PICK value \in Sent, b \in WireBytes :
          /\ ParseByte(b) /\ b.value = value
          /\ b.place = (IF frame.hurt = "body" THEN 0 ELSE frame.at)
    BY <1>1, Arriving
  <2>2. /\ parser'.sum = parser.sum + 1 /\ parser'.sum = b.place
        /\ parser'.id = IF parser'.sum = 3 THEN value ELSE parser.id
        /\ parser'.length = IF parser'.sum = 4 THEN value
                            ELSE IF parser'.sum = 5 THEN parser.length + ByteBase * value
                            ELSE parser.length
    BY <2>1, Covered
  <2>3. frame.hurt # "body" /\ parser'.sum = frame.at
    BY <2>1, <2>2
  <2>4. PICK hurt \in {"none", "mimic", "sync", "body"} : Advance(hurt)
    BY <1>1, GoingOn
  <2>5. /\ LastByte => frame'.at = 1
        /\ ~LastByte => /\ frame'.at = frame.at + 1
                        /\ frame'.id = frame.id /\ frame'.length = frame.length
    BY <2>4, Sending
  <2>6. parser.sum \in Nat /\ parser.length \in Nat /\ frame.at \in Nat
    BY DEF StreamTypes
  <2>7. CASE LastByte
    BY <2>5, <2>7 DEF SumIsOfFrame
  <2>8. CASE ~LastByte
    <3>1. parser'.sum + 1 = frame'.at
      BY <2>3, <2>5, <2>8
    <3>2. CASE parser'.sum = 3
      <4>1. parser'.id = frame.id
        BY <2>2, <2>3, <3>2, SentBytes
      <4> QED
        BY <2>5, <2>8, <3>1, <3>2, <4>1 DEF SumIsOfFrame
    <3>3. CASE parser'.sum >= 4
      <4>1. parser.sum >= 3 /\ frame.at > 3
        BY <2>2, <2>3, <2>6, <3>3
      <4>2. parser.id = frame.id /\ (parser.sum >= 4 => parser.length = frame.length)
        BY <2>3, <2>6, <4>1 DEF SumIsOfFrame
      <4>3. parser'.id = frame.id
        BY <2>2, <3>3, <4>2
      <4>4. CASE parser'.sum = 4
        BY <2>2, <2>3, <2>5, <2>8, <3>1, <4>3, <4>4, SentBytes DEF SumIsOfFrame
      <4>5. CASE parser'.sum = 5
        <5>1. value = 0 /\ parser.length = frame.length
          BY <2>2, <2>3, <2>6, <4>2, <4>5, SentBytes
        <5>2. parser.length + ByteBase * 0 = parser.length
          BY <2>6 DEF PacketBounds
        <5> QED
          BY <2>2, <2>5, <2>8, <3>1, <4>3, <4>5, <5>1, <5>2 DEF SumIsOfFrame
      <4>6. CASE parser'.sum > 5
        <5>1. parser.length = frame.length
          BY <2>2, <2>6, <4>2, <4>6
        <5> QED
          BY <2>2, <2>5, <2>8, <3>1, <4>3, <4>6, <5>1 DEF SumIsOfFrame
      <4>7. parser'.sum = 4 \/ parser'.sum = 5 \/ parser'.sum > 5
        BY <2>2, <2>6, <3>3
      <4> QED
        BY <4>4, <4>5, <4>6, <4>7
    <3> QED
      BY <2>2, <2>6, <3>2, <3>3
  <2> QED
    BY <2>7, <2>8
<1>2. CASE Damage
  <2>1. PICK b \in WireBytes : ParseByte(b) /\ b.place = 0
    BY <1>2, Spoiling
  <2> QED
    BY <2>1, Covered
<1>3. CASE LoseByte
  <2>1. Advance(Hurt) /\ Hurt \in {"none", "mimic", "sync", "body"} /\ parser' = parser
    BY <1>3 DEF LoseByte, Hurt
  <2>2. /\ LastByte => frame'.at = 1
        /\ ~LastByte => frame'.at = frame.at + 1 /\ frame'.hurt = Hurt
        /\ frame.at \in Nat
    BY <2>1, Sending
  <2>3. frame'.at <= 3 \/ frame'.hurt = "body"
    BY <2>2 DEF Hurt
  <2> QED
    BY <2>3 DEF SumIsOfFrame
<1> QED
  BY <1>1, <1>2, <1>3 DEF Next

\* The last byte of a frame and the parser's verdict.
LEMMA Verdicts ==
  ASSUME PacketBounds, StreamTypes, SumIsPlace, NEW b \in WireBytes, ParseByte(b), Reports
  PROVE  /\ parser.state = "checksumB" /\ NextSum(b) = 7 + parser.length /\ b.place = NextSum(b)
         /\ parser.sum = 6 + parser.length
         /\ result' = IF parser.id = SampleId THEN "none" ELSE "unsupported"
<1>1. /\ format \in Formats /\ parser.length \in Nat /\ parser.sum \in Nat
  BY DEF StreamTypes
<1>2. Decoded \in {"none", "malformed"}
  BY DEF Decoded, DecodeNavPvt
<1>3. CASE FindSync1(b) \/ (format # "ubx" /\ RawSync2(b)) \/ (format = "ubx" /\ UbxSync2(b))
  BY <1>3 DEF FindSync1, RawSync2, UbxSync2, Incomplete, Reports
<1>4. CASE TakeId(b) \/ TakeLength1(b) \/ TakePayload(b)
  BY <1>4 DEF TakeId, TakeLength1, TakePayload, Incomplete, Reports
<1>5. CASE (format # "ubx" /\ RawLength2(b)) \/ (format = "ubx" /\ UbxLength2(b))
  BY <1>5, LengthRead DEF BeginPayload, Incomplete, Reports
<1>6. CASE CheckA(b)
  BY <1>6 DEF CheckA, Incomplete, Rejected, Reports
<1>7. CASE CheckB(b, Decoded)
  <2>1. /\ parser.state = "checksumB"
        /\ result' = IF ~ChecksumFits(b) THEN "checksumMismatch"
                     ELSE IF parser.id # SampleId THEN "unsupported" ELSE Decoded
    BY <1>7 DEF CheckB, Rejected, At
  <2>4. ChecksumFits(b)
    BY <2>1 DEF Reports
  <2>5. result' = IF parser.id = SampleId THEN "none" ELSE "unsupported"
    BY <1>2, <2>1, <2>4 DEF Reports
  <2>6. NextSum(b) # 0
    BY <2>4 DEF ChecksumFits
  <2>7. /\ parser.sum # 0 /\ NextSum(b) = parser.sum + 1 /\ b.place = NextSum(b)
    BY <2>6, Summing
  <2>8. parser.sum = 6 + parser.length
    BY <2>1, <2>7 DEF SumIsPlace
  <2> QED
    BY <1>1, <2>1, <2>5, <2>7, <2>8
<1> QED
  BY <1>1, <1>3, <1>4, <1>5, <1>6, <1>7, ParseByState

\* In step with the sender, the parser knows the frame at its last byte.
LEMMA Recognised ==
  ASSUME PacketBounds, StreamTypes, SumIsPlace, SumIsOfFrame, InStep, Deliver,
         LastByte, frame.hurt = "none", ready
  PROVE  Reports /\ Reported
<1>1. PICK value \in Sent, b \in WireBytes : ParseByte(b) /\ b.value = value /\ b.place = frame.at
  <2>1. frame.hurt # "body"
    OBVIOUS
  <2> QED
    BY <2>1, Arriving
<1>2. /\ frame.at = 7 + frame.length /\ frame.length \in 0 .. 3 /\ parser.sum \in Nat
      /\ format \in Formats /\ frame.at \in Nat /\ parser.length \in Nat
      /\ frame.id = SampleId => frame.length \in SampleLengths[format]
  BY DEF StreamTypes, LastByte, FrameLength
<1>3. /\ parser.state = "checksumB" /\ parser.sum = frame.at - 1
  <2>1. /\ parser.state = CASE frame.at = 2 -> "sync2"
                         [] frame.at = 3 -> "id"
                         [] frame.at = 4 -> "length1"
                         [] frame.at = 5 -> "length2"
                         [] frame.at \in 6 .. 5 + frame.length -> "payload"
                         [] frame.at = 6 + frame.length -> "checksumA"
                         [] frame.at = 7 + frame.length -> "checksumB"
        /\ parser.sum = frame.at - 1
    BY <1>2 DEF InStep
  <2>2. /\ frame.at # 2 /\ frame.at # 3 /\ frame.at # 4 /\ frame.at # 5
        /\ frame.at \notin 6 .. 5 + frame.length /\ frame.at # 6 + frame.length
    BY <1>2
  <2> QED
    BY <1>2, <2>1, <2>2
<1>4. /\ parser.sum >= 4 /\ parser.sum + 1 = frame.at /\ frame.at > 3
  BY <1>2, <1>3
<1>5. parser.id = frame.id /\ parser.length = frame.length
  BY <1>2, <1>4 DEF SumIsOfFrame
<1>6. ChecksumFits(b) /\ ChecksumFits(b) \in BOOLEAN
  BY <1>1, <1>2, <1>4 DEF ChecksumFits, NextSum
<1>7. CheckB(b, Decoded)
  BY <1>1, <1>2, <1>3, ParseByState
     DEF FindSync1, RawSync2, UbxSync2, TakeId, TakeLength1, RawLength2, UbxLength2,
         TakePayload, CheckA, At
<1>8. parser.id = SampleId => Decoded = "none"
  BY <1>2, <1>5 DEF Decoded, DecodeNavPvt
<1>9. result' = IF parser.id # SampleId THEN "unsupported" ELSE "none"
  <2>1. CASE parser.id # SampleId
    BY <1>6, <1>7, <2>1 DEF CheckB, Rejected
  <2>2. CASE parser.id = SampleId
    BY <1>6, <1>7, <1>8, <2>2 DEF CheckB, Rejected
  <2> QED
    BY <2>1, <2>2
<1> QED
  BY <1>5, <1>9 DEF Reports, Reported

\* What is reported is a frame, at its last byte.
LEMMA NothingMadeUp ==
  ASSUME PacketBounds, StreamTypes, SumIsPlace, SumIsOfFrame, Deliver, Reports
  PROVE  LastByte /\ frame.hurt # "body" /\ Reported
<1>1. PICK value \in Sent, b \in WireBytes :
        /\ ParseByte(b) /\ b.value = value
        /\ b.place = (IF frame.hurt = "body" THEN 0 ELSE frame.at)
  BY Arriving
<1>2. /\ parser.state = "checksumB" /\ b.place = 7 + parser.length
      /\ parser.sum = 6 + parser.length
      /\ result' = IF parser.id = SampleId THEN "none" ELSE "unsupported"
  BY <1>1, Verdicts
<1>3. parser.length \in Nat /\ frame.length \in Nat /\ frame.at \in Nat
  BY DEF StreamTypes
<1>4. frame.hurt # "body" /\ frame.at = 7 + parser.length
  BY <1>1, <1>2, <1>3
<1>5. parser.id = frame.id /\ parser.length = frame.length
  BY <1>2, <1>3, <1>4 DEF SumIsOfFrame
<1> QED
  BY <1>2, <1>4, <1>5 DEF LastByte, FrameLength, Reported

\* A parser in step stays in step.
LEMMA StepsAlong ==
  ASSUME PacketBounds, StreamTypes, SumIsPlace, SumIsOfFrame, InStep, NEW b \in WireBytes,
         ParseByte(b), b.value \in Sent, b.place = frame.at, frame.hurt = "none",
         ~LastByte, frame.at >= 2, ready
  PROVE  /\ parser'.sum = frame.at
         /\ parser'.state = IF frame.at = 2 THEN "id"
                            ELSE IF frame.at = 3 THEN "length1"
                            ELSE IF frame.at = 4 THEN "length2"
                            ELSE IF frame.at < 5 + frame.length THEN "payload"
                            ELSE IF frame.at = 5 + frame.length THEN "checksumA"
                            ELSE "checksumB"
         /\ frame.at \in 5 .. 4 + frame.length => parser'.index = frame.at - 5
<1>1. /\ frame.at \in Nat /\ frame.length \in 0 .. 3 /\ frame.at <= 6 + frame.length
      /\ parser.sum \in Nat /\ parser.index \in Nat /\ parser.length \in Nat
      /\ format \in Formats
      /\ DOMAIN parser = {"state", "id", "length", "index", "sum"}
      /\ frame.id \in {SampleId, UnknownId}
      /\ frame.id = SampleId => frame.length \in SampleLengths[format]
      /\ frame.id = UnknownId => frame.length <= 2
  BY DEF StreamTypes, LastByte, FrameLength
<1>2. /\ frame.at >= 3 => parser.sum = frame.at - 1
      /\ frame.at \in 6 .. 5 + frame.length => parser.index = frame.at - 6
  BY DEF InStep
<1>3. parser.sum # 0 => NextSum(b) = IF frame.at = parser.sum + 1 THEN frame.at ELSE 0
  BY <1>1 DEF NextSum
<1>4. frame.at >= 3 => NextSum(b) = frame.at
  BY <1>1, <1>2, <1>3
<1>5. frame.at >= 4 => parser.id = frame.id
  BY <1>1, <1>2 DEF SumIsOfFrame
<1>6. frame.at >= 5 => parser.length = frame.length
  BY <1>1, <1>2 DEF SumIsOfFrame
<1>7. CASE frame.at = 2
  <2>1. parser.state = "sync2"
    BY <1>1, <1>7 DEF InStep
  <2>4. b.value = Sync2
    BY <1>7, SentBytes
  <2>2. parser' = StartFrame
    <3>1. (format # "ubx" /\ RawSync2(b)) \/ (format = "ubx" /\ UbxSync2(b))
      BY <1>1, <2>1, ParseByState
         DEF FindSync1, TakeId, TakeLength1, RawLength2, UbxLength2,
             TakePayload, CheckA, CheckB, At
    <3>2. CASE format # "ubx" /\ RawSync2(b)
      BY <2>4, <3>2 DEF RawSync2, Incomplete, Sync1, Sync2
    <3>3. CASE format = "ubx" /\ UbxSync2(b)
      BY <2>4, <3>3 DEF UbxSync2, Incomplete
    <3> QED
      BY <3>1, <3>2, <3>3
  <2>3. parser'.state = "id" /\ parser'.sum = 2
    BY <1>1, <2>2 DEF StartFrame
  <2> QED
    BY <1>7, <2>3
<1>8. CASE frame.at = 3
  <2>1. parser.state = "id"
    BY <1>1, <1>8 DEF InStep
  <2>2. TakeId(b)
    BY <1>1, <2>1, ParseByState
       DEF FindSync1, RawSync2, UbxSync2, TakeLength1, RawLength2, UbxLength2,
           TakePayload, CheckA, CheckB, At
  <2>3. parser'.state = "length1" /\ parser'.sum = NextSum(b)
    BY <1>1, <2>2 DEF TakeId, Incomplete
  <2> QED
    BY <1>4, <1>8, <2>3
<1>9. CASE frame.at = 4
  <2>1. parser.state = "length1"
    BY <1>1, <1>9 DEF InStep
  <2>2. TakeLength1(b)
    BY <1>1, <2>1, ParseByState
       DEF FindSync1, RawSync2, UbxSync2, TakeId, RawLength2, UbxLength2,
           TakePayload, CheckA, CheckB, At
  <2>3. parser'.state = "length2" /\ parser'.sum = NextSum(b)
    BY <1>1, <2>2 DEF TakeLength1, Incomplete
  <2> QED
    BY <1>4, <1>9, <2>3
<1>10. CASE frame.at = 5
  <2>1. parser.state = "length2" /\ b.value = 0
    <3>1. parser.state = "length2"
      BY <1>1, <1>10 DEF InStep
    <3> QED
      BY <1>10, <3>1, SentBytes
  <2>2. (format # "ubx" /\ RawLength2(b)) \/ (format = "ubx" /\ UbxLength2(b))
    BY <1>1, <2>1, ParseByState
       DEF FindSync1, RawSync2, UbxSync2, TakeId, TakeLength1, TakePayload, CheckA, CheckB, At
  <2>3. Length(b) = frame.length
    <3>1. frame.length + ByteBase * 0 = frame.length
      BY <1>1 DEF PacketBounds
    <3> QED
      BY <1>6, <1>10, <2>1, <3>1 DEF Length
  <2>4. /\ ~(parser.id = SampleId /\ Length(b) \notin SampleLengths[format])
        /\ ~(parser.id # SampleId /\ Length(b) > MaxSkip)
    BY <1>1, <1>5, <1>10, <2>3 DEF PacketBounds
  <2>5. BeginPayload(b)
    BY <2>2, <2>4, LengthRead
  <2>6. /\ parser'.state = (IF frame.length = 0 THEN "checksumA" ELSE "payload")
        /\ parser'.index = 0 /\ parser'.sum = NextSum(b)
    BY <1>1, <2>3, <2>5 DEF BeginPayload, Incomplete
  <2> QED
    BY <1>1, <1>4, <1>10, <2>6
<1>11. CASE frame.at \in 6 .. 5 + frame.length
  <2>1. parser.state = "payload"
    BY <1>1, <1>11 DEF InStep
  <2>2. TakePayload(b)
    BY <1>1, <2>1, ParseByState
       DEF FindSync1, RawSync2, UbxSync2, TakeId, TakeLength1, RawLength2, UbxLength2,
           CheckA, CheckB, At
  <2>3. /\ parser'.state = (IF parser.index + 1 >= parser.length THEN "checksumA" ELSE "payload")
        /\ parser'.sum = NextSum(b) /\ parser'.index = parser.index + 1
    BY <1>1, <2>2 DEF TakePayload, Incomplete
  <2>4. parser.index = frame.at - 6 /\ parser.length = frame.length /\ frame.at >= 6
    BY <1>1, <1>2, <1>6, <1>11
  <2>5. /\ parser'.index = frame.at - 5 /\ frame.at > 5
        /\ (parser.index + 1 >= parser.length) = (frame.at >= 5 + frame.length)
        /\ frame.at <= 5 + frame.length
    BY <1>1, <1>11, <2>3, <2>4
  <2>6. parser'.state = IF frame.at >= 5 + frame.length THEN "checksumA" ELSE "payload"
    BY <2>3, <2>5
  <2>7. CASE frame.at >= 5 + frame.length
    BY <1>1, <1>4, <2>3, <2>5, <2>6, <2>7
  <2>8. CASE frame.at < 5 + frame.length
    BY <1>1, <1>4, <2>3, <2>5, <2>6, <2>8
  <2> QED
    BY <1>1, <2>7, <2>8
<1>12. CASE frame.at = 6 + frame.length
  <2>1. frame.at >= 6 /\ frame.at \notin 6 .. 5 + frame.length
    BY <1>1, <1>12
  <2>2. parser.state = "checksumA"
    BY <1>1, <1>12, <2>1 DEF InStep
  <2>3. CheckA(b)
    BY <1>1, <2>2, ParseByState
       DEF FindSync1, RawSync2, UbxSync2, TakeId, TakeLength1, RawLength2, UbxLength2,
           TakePayload, CheckB, At
  <2>4. NextSum(b) # 0
    BY <1>1, <1>4, <2>1
  <2>5. parser'.state = "checksumB" /\ parser'.sum = NextSum(b)
    BY <1>1, <2>3, <2>4 DEF CheckA, ChecksumFits, Incomplete
  <2> QED
    BY <1>1, <1>4, <1>12, <2>1, <2>5
<1>13. \/ frame.at = 2 \/ frame.at = 3 \/ frame.at = 4 \/ frame.at = 5
       \/ frame.at \in 6 .. 5 + frame.length \/ frame.at = 6 + frame.length
  BY <1>1
<1> QED
  BY <1>7, <1>8, <1>9, <1>10, <1>11, <1>12, <1>13

\* How the parser looks for a frame.
LEMMA Looking ==
  ASSUME StreamTypes, NEW b \in WireBytes, ParseByte(b), Searching
  PROVE  /\ b.value # Sync2 => Searching'
         /\ parser.state = "sync1" => parser' = [parser EXCEPT !.state =
              IF b.value = Sync1 THEN "sync2" ELSE "sync1"]
         /\ parser.state = "sync2" /\ b.value = Sync2 => parser'.state = "id"
         /\ parser.state = "sync2" /\ b.value = Sync1 =>
              parser'.state = IF format = "ubx" THEN "sync1" ELSE "sync2"
         /\ parser.state = "sync2" /\ b.value # Sync2 /\ format = "ubx" => parser'.state = "sync1"
<1>1. /\ format \in Formats /\ b.value \in Bytes
      /\ DOMAIN parser = {"state", "id", "length", "index", "sum"}
  BY DEF StreamTypes, WireBytes
<1>2. CASE parser.state = "sync1"
  <2>1. FindSync1(b)
    BY <1>1, <1>2, ParseByState
       DEF RawSync2, UbxSync2, TakeId, TakeLength1, RawLength2, UbxLength2, TakePayload,
           CheckA, CheckB, At
  <2> QED
    BY <1>1, <1>2, <2>1 DEF FindSync1, Incomplete, Searching
<1>3. CASE parser.state = "sync2"
  <2>1. (format # "ubx" /\ RawSync2(b)) \/ (format = "ubx" /\ UbxSync2(b))
    BY <1>1, <1>3, ParseByState
       DEF FindSync1, TakeId, TakeLength1, RawLength2, UbxLength2, TakePayload,
           CheckA, CheckB, At
  <2>2. CASE format # "ubx" /\ RawSync2(b)
    BY <1>1, <1>3, <2>2
       DEF RawSync2, Incomplete, Searching, StartFrame, Sync1, Sync2
  <2>3. CASE format = "ubx" /\ UbxSync2(b)
    BY <1>1, <1>3, <2>3
       DEF UbxSync2, Incomplete, Searching, StartFrame, Sync1, Sync2
  <2> QED
    BY <2>1, <2>2, <2>3
<1> QED
  BY <1>2, <1>3 DEF Searching

\* In step from the first byte on.
LEMMA InStepKept ==
  ASSUME PacketBounds, StreamTypes, SumIsPlace, SumIsOfFrame, InStep, Next
  PROVE  InStep'
<1> SUFFICES ASSUME ready', frame'.hurt = "none", frame'.at >= 2 PROVE InStep'
  BY DEF InStep
<1>1. frame.at \in Nat /\ frame.at >= 1 /\ frame.length \in 0 .. 3 /\ ready \in BOOLEAN
  BY DEF StreamTypes
<1>2. CASE Deliver
  <2>1. PICK value \in Sent, b \in WireBytes :
          /\ ParseByte(b) /\ b.value = value
          /\ b.place = (IF frame.hurt = "body" THEN 0 ELSE frame.at)
    BY <1>2, Arriving
  <2>2. PICK hurt \in {"none", "mimic", "sync", "body"} :
          Advance(hurt) /\ (hurt = "none" => frame.hurt = "none")
    BY <1>2, GoingOn
  <2>3. /\ LastByte => frame'.at = 1
        /\ ~LastByte => /\ frame'.at = frame.at + 1 /\ frame'.hurt = hurt
                        /\ frame'.id = frame.id /\ frame'.length = frame.length
        /\ ready' = (IF frame.at = 1 THEN Hunting ELSE ready)
    BY <2>2, Sending
  <2>4. /\ ~LastByte /\ frame'.at = frame.at + 1 /\ frame.hurt = "none"
        /\ frame'.length = frame.length /\ b.place = frame.at /\ b.value \in Sent
    BY <2>1, <2>2, <2>3
  <2>5. CASE frame.at = 1
    <3>1. b.value = Sync1 /\ b.value # Sync2
      BY <2>4, <2>5, SentBytes DEF Sync1, Sync2
    <3>2. /\ parser.state \in {"sync1", "sync2"}
          /\ parser.state = "sync2" => format # "ubx"
      BY <2>3, <2>5 DEF Hunting
    <3>3. DOMAIN parser = {"state", "id", "length", "index", "sum"}
      BY DEF StreamTypes
    <3>4. parser'.state = "sync2"
      BY <2>1, <3>1, <3>2, <3>3, Looking DEF Searching
    <3>5. frame'.at = 2
      BY <2>4, <2>5
    <3>6. frame'.at \notin 6 .. 5 + frame'.length
      BY <1>1, <2>4, <3>5
    <3>7. frame'.at # 6 + frame'.length /\ frame'.at # 7 + frame'.length
      BY <1>1, <2>4, <3>5
    <3> QED
      BY <3>4, <3>5, <3>6, <3>7 DEF InStep
  <2>6. CASE frame.at >= 2
    <3>1. ready /\ frame.at <= 6 + frame.length
      <4>1. frame.at <= FrameLength(frame) /\ frame.at # FrameLength(frame)
        BY <2>4 DEF StreamTypes, LastByte
      <4> QED
        <5>1. frame.at <= 7 + frame.length /\ frame.at # 7 + frame.length
          BY <4>1 DEF FrameLength
        <5>2. frame.at <= 6 + frame.length
          BY <1>1, <5>1
        <5>3. ready' = ready
          <6>1. frame.at # 1
            BY <1>1, <2>6
          <6> QED
            BY <2>2, <6>1 DEF Advance
        <5>4. ready
          BY <5>3
        <5> QED
          BY <5>2, <5>4
    <3>2. /\ parser'.sum = frame.at
          /\ parser'.state = IF frame.at = 2 THEN "id"
                             ELSE IF frame.at = 3 THEN "length1"
                             ELSE IF frame.at = 4 THEN "length2"
                             ELSE IF frame.at < 5 + frame.length THEN "payload"
                             ELSE IF frame.at = 5 + frame.length THEN "checksumA"
                             ELSE "checksumB"
          /\ frame.at \in 5 .. 4 + frame.length => parser'.index = frame.at - 5
      BY <2>1, <2>4, <2>6, <3>1, StepsAlong
    <3>3. parser'.sum = frame'.at - 1
      BY <1>1, <2>4, <3>2
    <3>4. frame'.at \in 6 .. 5 + frame'.length => parser'.index = frame'.at - 6
      BY <1>1, <2>4, <3>2
    <3>5. parser'.state = CASE frame'.at = 2 -> "sync2"
                         [] frame'.at = 3 -> "id"
                         [] frame'.at = 4 -> "length1"
                         [] frame'.at = 5 -> "length2"
                         [] frame'.at \in 6 .. 5 + frame'.length -> "payload"
                         [] frame'.at = 6 + frame'.length -> "checksumA"
                         [] frame'.at = 7 + frame'.length -> "checksumB"
      <4>1. CASE frame.at \in {2, 3, 4}
        BY <1>1, <2>4, <3>2, <4>1
      <4>2. CASE frame.at \in 5 .. 4 + frame.length
        BY <1>1, <2>4, <3>2, <4>2
      <4>3. CASE frame.at = 5 + frame.length
        BY <1>1, <2>4, <3>2, <4>3
      <4>4. CASE frame.at = 6 + frame.length
        BY <1>1, <2>4, <3>2, <4>4
      <4>5. frame.at <= 6 + frame.length
        BY <3>1
      <4>6. frame.at \in {2, 3, 4} \/ frame.at \in 5 .. 4 + frame.length
            \/ frame.at = 5 + frame.length \/ frame.at = 6 + frame.length
        BY <1>1, <2>6, <4>5
      <4> QED
        BY <4>1, <4>2, <4>3, <4>4, <4>6
    <3> QED
      BY <3>3, <3>4, <3>5 DEF InStep
  <2> QED
    BY <1>1, <2>5, <2>6
<1>3. CASE Damage \/ LoseByte
  <2>1. Advance(Hurt) /\ Hurt \in {"sync", "body"}
    BY <1>3 DEF Damage, LoseByte, Hurt
  <2>2. (LastByte => frame'.at = 1) /\ (~LastByte => frame'.hurt = Hurt)
    BY <2>1, Sending
  <2> QED
    BY <2>1, <2>2
<1> QED
  BY <1>2, <1>3 DEF Next

\* What the parser owes shrinks with every byte until it looks for a frame again.
LEMMA Paying ==
  ASSUME PacketBounds, StreamTypes, SumIsPlace, NEW b \in WireBytes, ParseByte(b),
         format' = format
  PROVE  /\ Owed \in 0 .. LongestPayload + 5 /\ Owed' \in 0 .. LongestPayload + 5
         /\ ~Searching => /\ Owed >= 1
                          /\ Searching' => parser'.state = "sync1"
                          /\ ~Searching' => Owed' <= Owed - 1
<1>1. /\ LongestPayload \in Nat /\ LongestPayload' = LongestPayload
      /\ format \in Formats /\ parser.length \in Nat /\ parser.index \in Nat
      /\ DOMAIN parser = {"state", "id", "length", "index", "sum"}
      /\ parser.state \in {"sync1", "sync2", "id", "length1", "length2", "payload",
                           "checksumA", "checksumB"}
      /\ parser.state = "payload" => parser.index < parser.length
                                     /\ parser.length <= LongestPayload
  <2>1. LongestPayload \in Nat
    BY PacketNumbers DEF StreamTypes
  <2>2. LongestPayload' = LongestPayload
    BY DEF LongestPayload
  <2> QED
    BY <2>1, <2>2 DEF StreamTypes
<1>2. ParserTypes(parser)'
  BY ParserStep
<1>3. /\ parser'.length \in Nat /\ parser'.index \in Nat
      /\ parser'.state \in {"sync1", "sync2", "id", "length1", "length2", "payload",
                           "checksumA", "checksumB"}
      /\ parser'.state = "payload" => parser'.index < parser'.length
                                     /\ parser'.length <= LongestPayload
  BY <1>1, <1>2 DEF ParserTypes
<1>4. Owed \in 0 .. LongestPayload + 5
  BY <1>1 DEF Owed, Searching
<1>5. Owed' \in 0 .. LongestPayload + 5
  BY <1>1, <1>3 DEF Owed, Searching
<1>6. ~Searching => Owed >= 1
  BY <1>1 DEF Owed, Searching
<1>7. ASSUME ~Searching
      PROVE  (Searching' => parser'.state = "sync1") /\ (~Searching' => Owed' <= Owed - 1)
  <2>1. CASE parser' = Cleared
    BY <2>1 DEF Cleared, Searching
  <2>2. CASE TakeId(b)
    <3>1. parser.state = "id" /\ parser'.state = "length1"
      BY <1>1, <2>2 DEF TakeId, Incomplete, At
    <3> QED
      BY <1>1, <3>1 DEF Owed, Searching
  <2>3. CASE TakeLength1(b)
    <3>1. parser.state = "length1" /\ parser'.state = "length2"
      BY <1>1, <2>3 DEF TakeLength1, Incomplete, At
    <3> QED
      BY <1>1, <3>1 DEF Owed, Searching
  <2>4. CASE (format # "ubx" /\ RawLength2(b)) \/ (format = "ubx" /\ UbxLength2(b))
    <3>1. CASE BeginPayload(b) /\ Length(b) <= LongestPayload
      <4>1. parser.state = "length2" /\ Length(b) \in Nat
        BY <2>4, LengthRead DEF At
      <4>2. /\ parser'.state = (IF Length(b) = 0 THEN "checksumA" ELSE "payload")
            /\ parser'.length = Length(b) /\ parser'.index = 0
        BY <1>1, <3>1 DEF BeginPayload, Incomplete
      <4>3. Owed = LongestPayload + 3
        BY <4>1 DEF Owed, Searching
      <4>4. Owed' = (IF Length(b) = 0 THEN 2 ELSE Length(b) + 2)
        BY <4>1, <4>2 DEF Owed, Searching
      <4> QED
        BY <1>1, <3>1, <4>1, <4>2, <4>3, <4>4 DEF Searching
    <3> QED
      BY <2>1, <2>4, <3>1, LengthRead
  <2>5. CASE TakePayload(b)
    <3>1. /\ parser.state = "payload" /\ parser'.length = parser.length
          /\ parser'.state = (IF parser.index + 1 >= parser.length THEN "checksumA" ELSE "payload")
          /\ parser'.index = parser.index + 1
      BY <1>1, <2>5 DEF TakePayload, Incomplete, At
    <3>2. Owed = (parser.length - parser.index) + 2
      BY <1>1, <3>1 DEF Owed, Searching
    <3>3. CASE parser.index + 1 >= parser.length
      <4>1. parser'.state = "checksumA" /\ Owed' = 2
        BY <3>1, <3>3 DEF Owed, Searching
      <4> QED
        BY <1>1, <3>1, <3>2, <4>1 DEF Searching
    <3>4. CASE parser.index + 1 < parser.length
      <4>1. parser'.state = "payload"
        BY <1>1, <3>1, <3>4
      <4>2. Owed' = (parser'.length - parser'.index) + 2
        BY <1>3, <4>1 DEF Owed, Searching
      <4> QED
        BY <1>1, <3>1, <3>2, <4>1, <4>2 DEF Searching
    <3> QED
      BY <1>1, <3>3, <3>4
  <2>6. CASE CheckA(b)
    <3>1. /\ parser.state = "checksumA"
          /\ parser' = Cleared \/ parser'.state = "checksumB"
      BY <1>1, <2>6 DEF CheckA, Incomplete, Rejected, At
    <3>2. CASE parser'.state = "checksumB"
      BY <3>1, <3>2 DEF Owed, Searching
    <3> QED
      BY <2>1, <3>1, <3>2
  <2>7. CASE CheckB(b, Decoded)
    BY <2>1, <2>7 DEF CheckB, Rejected
  <2> QED
    BY <1>1, <1>7, <2>2, <2>3, <2>4, <2>5, <2>6, <2>7, ParseByState
       DEF FindSync1, RawSync2, UbxSync2, At, Searching
<1> QED
  BY <1>4, <1>5, <1>6, <1>7

\* After the last fault the parser comes back: what it owes bounds the frames it misses.
LEMMA ComingBack ==
  ASSUME PacketBounds, StreamInv, Deliver
  PROVE  Resync'
<1> USE DEF StreamInv
<1>1. PICK value \in Sent, b \in WireBytes :
        /\ ParseByte(b) /\ b.value = value
        /\ b.place = (IF frame.hurt = "body" THEN 0 ELSE frame.at)
  BY Arriving
<1>2. PICK hurt \in {"none", "mimic", "sync", "body"} :
        /\ Advance(hurt)
        /\ IF Misled /\ frame.hurt = "none" THEN hurt = "mimic" ELSE hurt = frame.hurt
  BY GoingOn
<1>3. /\ format' = format
      /\ LastByte => frame'.at = 1 /\ frame'.hurt = "none"
      /\ ~LastByte => frame'.at = frame.at + 1 /\ frame'.hurt = hurt
      /\ hurt = "none" <=> frame.hurt = "none" /\ ~Misled
  BY <1>2, Sending
<1>4. /\ frame.at = 1 => ready' = Hunting
      /\ frame.at # 1 => ready' = ready
  BY <1>2 DEF Advance
<1>5. /\ frame.at \in Nat /\ frame.at >= 1 /\ (LastByte => frame.at >= 7) /\ missed \in Nat
      /\ DOMAIN parser = {"state", "id", "length", "index", "sum"}
  BY DEF StreamTypes, LastByte, FrameLength
<1>6. /\ LongestPayload \in Nat /\ LongestPayload' = LongestPayload
      /\ MissedAtMost \in Nat /\ MissedAtMost' = MissedAtMost /\ MissedAtMost >= 1
  <2>1. LongestPayload \in Nat /\ LongestPayload' = LongestPayload
    BY <1>3, PacketNumbers DEF StreamTypes, LongestPayload
  <2>2. MissedAtMost \in Nat /\ MissedAtMost' = MissedAtMost
    BY <2>1, PacketNumbers DEF StreamTypes, MissedAtMost
  <2>3. \A m \in Nat : 7 * m <= LongestPayload + 5 => m + 1 <= MissedAtMost
    BY PacketNumbers DEF StreamTypes
  <2>4. 7 * 0 <= LongestPayload + 5
    BY <2>1
  <2>5. 0 + 1 <= MissedAtMost
    BY <2>3, <2>4
  <2> QED
    BY <2>1, <2>2, <2>5
<1>7. \A m \in Nat : 7 * m <= LongestPayload + 5 => m + 1 <= MissedAtMost
  BY PacketNumbers DEF StreamTypes
<1>8. /\ Owed \in 0 .. LongestPayload + 5 /\ Owed' \in 0 .. LongestPayload + 5
      /\ ~Searching => /\ Owed >= 1
                       /\ Searching' => parser'.state = "sync1"
                       /\ ~Searching' => Owed' <= Owed - 1
  BY <1>1, <1>3, Paying
<1>9. frame.at = 1 => value = Sync1 /\ value # Sync2
  BY SentBytes DEF Sync1, Sync2
<1>10. ~LastByte \/ Reported \/ hurt # "none" => missed' \in {missed, 0}
  BY <1>3 DEF Deliver, Missed
<1>11. LastByte /\ ~Reported /\ hurt = "none" => missed' = missed + 1 /\ ~ready
  BY <1>3, Recognised DEF Deliver, Missed
<1>12. LastByte /\ Reported => missed' = 0
  BY DEF Deliver, Missed
<1>13. ~LastByte /\ hurt = "none" => missed' = missed
  BY <1>3 DEF Deliver, Missed
<1>14. hurt # "none" => missed' = 0
  BY <1>3 DEF Deliver, Missed, Resync
\* A parser that is not misled does not begin to read in the middle of a frame, unless
\* it is one of its own.
<1>15. Searching /\ ~Searching' /\ ~Misled => frame.at = 2 /\ parser.state = "sync2"
  <2>1. ASSUME Searching, ~Searching', ~Misled PROVE frame.at = 2 /\ parser.state = "sync2"
    <3>1. value = Sync2
      BY <1>1, <2>1, Looking
    <3>2. parser.state # "sync1"
      <4>1. ASSUME parser.state = "sync1" PROVE FALSE
        <5>1. parser'.state \in {"sync1", "sync2"}
          BY <1>1, <1>5, <2>1, <4>1, Looking
        <5> QED
          BY <2>1, <5>1 DEF Searching
      <4> QED
        BY <4>1
    <3>3. parser.state = "sync2" /\ parser'.state = "id"
      BY <1>1, <2>1, <3>1, <3>2, Looking DEF Searching
    <3> QED
      BY <2>1, <3>3 DEF Misled, At
  <2> QED
    BY <2>1
\* And if it looks for a frame when one ends it looks for the next.
<1>16. Searching /\ LastByte /\ ~Misled => Hunting'
  <2>1. ASSUME Searching, LastByte, ~Misled PROVE Hunting'
    <3>1. frame.at # 2
      BY <1>5, <2>1
    <3>2. Searching'
      BY <1>15, <2>1, <3>1
    <3>3. ASSUME format = "ubx" PROVE parser'.state = "sync1"
      <4>1. CASE parser.state = "sync1"
        <5>1. parser'.state # "sync2"
          BY <2>1, <3>3, <4>1 DEF Misled, At
        <5> QED
          BY <3>2, <5>1 DEF Searching
      <4>2. CASE parser.state = "sync2"
        <5>1. b.value # Sync2
          BY <1>1, <2>1, <3>2, <4>2, Looking DEF Searching
        <5> QED
          BY <1>1, <2>1, <3>3, <4>2, <5>1, Looking
      <4> QED
        BY <2>1, <4>1, <4>2 DEF Searching
    <3> QED
      BY <1>3, <3>2, <3>3 DEF Hunting, Searching
  <2> QED
    BY <2>1
<1>17. ~Searching /\ frame.hurt = "none" /\ (frame.at = 1 \/ ~ready) =>
         7 * missed + (frame.at - 1 + Owed) <= LongestPayload + 5
  <2>1. ASSUME ~Searching, frame.hurt = "none", frame.at = 1 \/ ~ready
        PROVE  7 * missed + frame.at - 1 + Owed <= LongestPayload + 5
    BY <2>1 DEF Resync
  <2> QED
    BY <1>5, <1>6, <1>8, <2>1
<1>18. Searching /\ frame.hurt = "none" /\ ~ready /\ frame.at >= 2 =>
         /\ missed + 1 <= MissedAtMost
         /\ frame.at = 2 => parser.state = "sync1"
  BY DEF Resync
<1>19. (frame.at = 1 /\ ~Hunting => missed + 1 <= MissedAtMost) /\ missed <= MissedAtMost
  BY DEF Resync
<1>20. LastByte /\ ~Searching /\ frame.hurt = "none" /\ ~ready =>
         /\ 7 * (missed + 1) + (Owed - 1) <= LongestPayload + 5
         /\ missed + 2 <= MissedAtMost
  <2>1. ASSUME LastByte, ~Searching, frame.hurt = "none", ~ready
        PROVE  /\ 7 * (missed + 1) + (Owed - 1) <= LongestPayload + 5
               /\ missed + 2 <= MissedAtMost
    <3>1. 7 * missed + (frame.at - 1 + Owed) <= LongestPayload + 5 /\ frame.at >= 7 /\ Owed >= 1
      BY <1>5, <1>8, <1>17, <2>1
    <3>2. 7 * (missed + 1) + (Owed - 1) <= LongestPayload + 5
      BY <1>5, <1>6, <1>8, <3>1
    <3>3. 7 * (missed + 1) <= LongestPayload + 5
      BY <1>5, <1>6, <1>8, <3>1, <3>2
    <3>4. (missed + 1) + 1 <= MissedAtMost
      BY <1>5, <1>7, <3>3
    <3> QED
      BY <1>5, <1>6, <3>2, <3>4
  <2> QED
    BY <2>1
<1>21. frame'.hurt # "none" => missed' = 0
  BY <1>3, <1>14
<1>22. ASSUME ~Searching', frame'.hurt = "none", frame'.at = 1 \/ ~ready'
       PROVE  7 * missed' + (frame'.at - 1 + Owed') <= LongestPayload + 5
  <2>1. CASE LastByte
    <3>1. CASE missed' = 0
      BY <1>3, <1>6, <1>8, <2>1, <3>1
    <3>2. CASE ~Reported /\ hurt = "none"
      <4>1. ~Searching /\ ~ready /\ missed' = missed + 1 /\ Owed' <= Owed - 1
        BY <1>3, <1>5, <1>8, <1>11, <1>15, <1>22, <2>1, <3>2
      <4>2. 7 * (missed + 1) + (Owed - 1) <= LongestPayload + 5
        BY <1>3, <1>20, <2>1, <3>2, <4>1
      <4> QED
        BY <1>3, <1>5, <1>6, <1>8, <2>1, <4>1, <4>2
    <3> QED
      BY <1>12, <1>14, <2>1, <3>1, <3>2
  <2>2. CASE ~LastByte
    <3>1. /\ ~ready' /\ frame.hurt = "none" /\ ~Misled
          /\ missed' = missed /\ frame'.at = frame.at + 1
      BY <1>3, <1>5, <1>13, <1>22, <2>2
    <3>2. ~Searching
      <4>1. ASSUME Searching PROVE FALSE
        <5>1. frame.at = 2 /\ parser.state = "sync2"
          BY <1>15, <1>22, <3>1, <4>1
        <5>2. ~ready
          BY <1>4, <3>1, <5>1
        <5> QED
          BY <1>18, <3>1, <4>1, <5>1, <5>2
      <4> QED
        BY <4>1
    <3>3. frame.at = 1 \/ ~ready
      BY <1>4, <3>1
    <3>4. 7 * missed + (frame.at - 1 + Owed) <= LongestPayload + 5 /\ Owed' <= Owed - 1
      BY <1>8, <1>17, <1>22, <3>1, <3>2, <3>3
    <3> QED
      BY <1>5, <1>6, <1>8, <3>1, <3>4
  <2> QED
    BY <2>1, <2>2
<1>23. ASSUME Searching', frame'.hurt = "none", ~ready', frame'.at >= 2
       PROVE  missed' + 1 <= MissedAtMost /\ (frame'.at = 2 => parser'.state = "sync1")
  <2>1. ~LastByte /\ frame.hurt = "none" /\ missed' = missed /\ frame'.at = frame.at + 1
    BY <1>3, <1>13, <1>23
  <2>2. CASE frame.at = 1
    <3>1. ~Hunting
      BY <1>4, <1>23, <2>2
    <3>2. missed' + 1 <= MissedAtMost
      BY <1>19, <2>1, <2>2, <3>1
    <3>3. parser'.state = "sync1"
      <4>1. CASE Searching
        <5>1. format = "ubx" /\ parser.state = "sync2"
          BY <3>1, <4>1 DEF Hunting, Searching
        <5> QED
          BY <1>1, <1>9, <2>2, <4>1, <5>1, Looking
      <4>2. CASE ~Searching
        BY <1>8, <1>23, <4>2
      <4> QED
        BY <4>1, <4>2
    <3> QED
      BY <3>2, <3>3
  <2>3. CASE frame.at # 1
    <3>1. ~ready /\ frame.at >= 2 /\ frame'.at # 2
      BY <1>4, <1>5, <1>23, <2>1, <2>3
    <3>2. missed + 1 <= MissedAtMost
      <4>1. CASE Searching
        BY <1>18, <2>1, <3>1, <4>1
      <4>2. CASE ~Searching
        <5>1. 7 * missed + (frame.at - 1 + Owed) <= LongestPayload + 5
          BY <1>17, <2>1, <3>1, <4>2
        <5>2. 7 * missed <= LongestPayload + 5
          BY <1>5, <1>6, <1>8, <5>1
        <5> QED
          BY <1>5, <1>7, <5>2
      <4> QED
        BY <4>1, <4>2
    <3> QED
      BY <2>1, <3>1, <3>2
  <2> QED
    BY <2>2, <2>3
<1>24. ASSUME frame'.at = 1, ~Hunting' PROVE missed' + 1 <= MissedAtMost
  <2>1. LastByte
    BY <1>3, <1>5, <1>24
  <2>2. CASE missed' = 0
    BY <1>6, <2>2
  <2>3. CASE ~Reported /\ hurt = "none"
    <3>1. ~Searching
      BY <1>3, <1>16, <1>24, <2>1, <2>3
    <3>2. missed' = missed + 1 /\ missed + 2 <= MissedAtMost
      BY <1>3, <1>11, <1>20, <2>1, <2>3, <3>1
    <3> QED
      BY <1>5, <1>6, <3>2
  <2> QED
    BY <1>12, <1>14, <2>1, <2>2, <2>3
<1>25. missed' <= MissedAtMost
  <2>1. CASE missed' \in {missed, 0}
    BY <1>5, <1>6, <1>19, <2>1
  <2>2. CASE LastByte /\ ~Reported /\ hurt = "none"
    <3>1. missed' = missed + 1 /\ ~ready /\ frame.hurt = "none"
      BY <1>3, <1>11, <2>2
    <3>2. CASE Searching
      <4>1. frame.at >= 2
        BY <1>5, <2>2
      <4>2. missed + 1 <= MissedAtMost
        BY <1>18, <3>1, <3>2, <4>1
      <4> QED
        BY <3>1, <4>2
    <3>3. CASE ~Searching
      <4>1. missed + 2 <= MissedAtMost
        BY <1>20, <2>2, <3>1, <3>3
      <4> QED
        BY <1>5, <1>6, <3>1, <4>1
    <3> QED
      BY <3>2, <3>3
  <2> QED
    BY <1>10, <2>1, <2>2
<1>26. ~Searching' /\ frame'.hurt = "none" /\ (frame'.at = 1 \/ ~ready') =>
         7 * missed' + frame'.at - 1 + Owed' <= LongestPayload' + 5
  <2>1. missed' \in Nat /\ frame'.at \in Nat
    <3>1. missed' \in Nat
      BY <1>5, <1>10, <1>11
    <3>2. frame'.at \in Nat
      BY <1>3, <1>5
    <3> QED
      BY <3>1, <3>2
  <2> QED
    BY <1>6, <1>8, <1>22, <2>1
<1> HIDE DEF StreamInv
<1> QED
  BY <1>6, <1>21, <1>23, <1>24, <1>25, <1>26 DEF Resync

\* Every step of the stream preserves its invariant.
LEMMA StreamStep ==
  ASSUME PacketBounds, StreamInv, Next
  PROVE  StreamInv'
<1> USE DEF StreamInv
<1>1. PICK hurt \in {"none", "mimic", "sync", "body"} : Advance(hurt)
  <2>1. CASE Deliver
    BY <2>1, GoingOn
  <2>2. CASE Damage \/ LoseByte
    <3>1. Advance(Hurt) /\ Hurt \in {"none", "mimic", "sync", "body"}
      BY <2>2 DEF Damage, LoseByte, Hurt
    <3> QED
      BY <3>1
  <2> QED
    BY <2>1, <2>2 DEF Next
<1>2. /\ format' = format /\ ready' \in BOOLEAN
      /\ frame' \in [id : {SampleId, UnknownId}, length : 0 .. 3, at : 1 .. 10,
                     hurt : {"none", "mimic", "sync", "body"}]
      /\ frame'.at <= FrameLength(frame')
      /\ frame'.id = SampleId => frame'.length \in SampleLengths[format]
      /\ frame'.id = UnknownId => frame'.length <= 2
  BY <1>1, Sending
<1>3. ParserTypes(parser)' /\ SumIsPlace'
  <2>1. CASE Deliver
    BY <1>2, <2>1, Arriving, ParserStep
  <2>2. CASE Damage
    BY <1>2, <2>2, Spoiling, ParserStep
  <2>3. CASE LoseByte
    <3>1. parser' = parser /\ LongestPayload' = LongestPayload
      BY <1>2, <2>3 DEF LoseByte, LongestPayload
    <3> QED
      BY <3>1 DEF StreamTypes, ParserTypes, SumIsPlace, Searching
  <2> QED
    BY <2>1, <2>2, <2>3 DEF Next
<1>4. missed' \in Nat /\ faults' \in Nat
  BY DEF Next, Deliver, Missed, Damage, LoseByte, StreamTypes
<1>5. StreamTypes'
  BY <1>2, <1>3, <1>4 DEF StreamTypes, ParserTypes
<1>6. SumIsOfFrame'
  BY SumKept
<1>7. InStep'
  BY InStepKept
<1>8. Resync'
  <2>1. CASE Deliver
    BY <2>1, ComingBack
  <2>2. CASE Damage \/ LoseByte
    <3>1. Advance(Hurt) /\ Hurt \in {"sync", "body"} /\ missed' = 0
      BY <2>2 DEF Damage, LoseByte, Hurt
    <3>2. /\ LastByte => frame'.at = 1
          /\ ~LastByte => frame'.hurt # "none"
      BY <3>1, Sending
    <3>3. frame'.hurt = "none" => frame'.at = 1
      BY <3>2
    <3>4. /\ LongestPayload' \in Nat /\ MissedAtMost' \in Nat /\ MissedAtMost' >= 1
      <4>1. LongestPayload' \in Nat /\ format' \in Formats
        BY <1>2, PacketNumbers DEF StreamTypes, LongestPayload
      <4>2. MissedAtMost' = MissedAtMost
        BY <1>2 DEF MissedAtMost, LongestPayload
      <4>3. MissedAtMost \in Nat /\ LongestPayload \in Nat
            /\ \A m \in Nat : 7 * m <= LongestPayload + 5 => m + 1 <= MissedAtMost
        BY PacketNumbers DEF StreamTypes
      <4>4. 7 * 0 <= LongestPayload + 5
        BY <4>3
      <4>5. 0 + 1 <= MissedAtMost
        BY <4>3, <4>4
      <4> QED
        BY <4>1, <4>2, <4>3, <4>5
    <3>5. Owed' <= LongestPayload' + 5 /\ Owed' \in Nat
      <4>1. /\ LongestPayload' \in Nat /\ parser'.length \in Nat /\ parser'.index \in Nat
            /\ parser'.state \in {"sync1", "sync2", "id", "length1", "length2", "payload",
                                 "checksumA", "checksumB"}
            /\ parser'.state = "payload" => parser'.index < parser'.length
                                           /\ parser'.length <= LongestPayload'
        BY <3>4, <1>5 DEF StreamTypes
      <4> QED
        BY <4>1 DEF Owed, Searching
    <3>6. frame'.hurt = "none" =>
            /\ frame'.at = 1 /\ ~(frame'.at >= 2)
            /\ 7 * missed' + frame'.at - 1 + Owed' <= LongestPayload' + 5
      <4>1. ASSUME frame'.hurt = "none"
            PROVE  7 * missed' + frame'.at - 1 + Owed' <= LongestPayload' + 5
        <5>1. missed' = 0 /\ frame'.at = 1
          BY <3>1, <3>3, <4>1
        <5>2. \A n, m \in Nat : n <= m + 5 => 7 * 0 + 1 - 1 + n <= m + 5
          OBVIOUS
        <5>3. 7 * 0 + 1 - 1 + Owed' <= LongestPayload' + 5
          BY <3>4, <3>5, <5>2
        <5> QED
          BY <5>1, <5>3
      <4> QED
        BY <3>3, <4>1
    <3>7. missed' + 1 <= MissedAtMost' /\ missed' <= MissedAtMost'
      BY <3>1, <3>4
    <3> QED
      BY <3>1, <3>6, <3>7 DEF Resync
  <2> QED
    BY <2>1, <2>2 DEF Next
<1> QED
  BY <1>3, <1>5, <1>6, <1>7, <1>8

\* The stream's types, sums and places hold in every state.
THEOREM StreamInvariant == ASSUME PacketBounds PROVE Spec => []StreamInv
<1>1. Init => StreamInv
  <2> SUFFICES ASSUME Init PROVE StreamInv
    OBVIOUS
  <2>1. /\ format \in Formats /\ frame \in FreshFrames /\ parser = Cleared
        /\ ready = TRUE /\ missed = 0 /\ faults = 0
    BY DEF Init
  <2>2. PICK id \in {SampleId, UnknownId}, length \in 0 .. 3 :
          /\ frame = Fresh(id, length)
          /\ id = SampleId => length \in SampleLengths[format]
          /\ id = UnknownId => length <= 2
    <3>1. CASE \E length \in SampleLengths[format] : frame = Fresh(SampleId, length)
      <4>1. SampleLengths[format] \in SUBSET (0 .. 3)
        BY <2>1 DEF SampleLengths, Formats, RawFormats
      <4> QED
        BY <3>1, <4>1 DEF SampleId, UnknownId
    <3>2. CASE \E length \in 0 .. 2 : frame = Fresh(UnknownId, length)
      BY <3>2 DEF SampleId, UnknownId
    <3> QED
      BY <2>1, <3>1, <3>2 DEF FreshFrames
  <2>3. frame.at = 1 /\ frame.hurt = "none" /\ frame.length = length /\ frame.id = id
        /\ frame \in [id : {SampleId, UnknownId}, length : 0 .. 3, at : 1 .. 10,
                      hurt : {"none", "mimic", "sync", "body"}]
    BY <2>2 DEF Fresh
  <2>4. /\ parser.state = "sync1" /\ parser.sum = 0 /\ Searching /\ Hunting
        /\ parser \in [state : {"sync1", "sync2", "id", "length1", "length2", "payload",
                                "checksumA", "checksumB"},
                       id : Bytes, length : Nat, index : Nat, sum : Nat]
    BY <2>1 DEF Cleared, Searching, Hunting, Bytes
  <2>5. MissedAtMost \in Nat
    BY <2>1, PacketNumbers
  <2>6. StreamTypes
    BY <2>1, <2>2, <2>3, <2>4 DEF StreamTypes, FrameLength
  <2> QED
    BY <2>1, <2>3, <2>4, <2>5, <2>6
       DEF StreamInv, SumIsPlace, SumIsOfFrame, InStep, Resync
<1>2. StreamInv /\ [Next]_vars => StreamInv'
  <2> SUFFICES ASSUME StreamInv, [Next]_vars PROVE StreamInv'
    OBVIOUS
  <2>1. CASE Next
    BY <2>1, StreamStep
  <2>2. CASE UNCHANGED vars
    BY <2>2 DEF vars, StreamInv, StreamTypes, SumIsPlace, SumIsOfFrame, InStep, Resync,
         Searching, Hunting, Owed, MissedAtMost, LongestPayload
  <2> QED
    BY <2>1, <2>2
<1> QED
  BY <1>1, <1>2, PTL DEF Spec

\* kMaxSkipLength: a bounded number of whole frames goes by before frames are reported
\* again (ResyncBounded).
THEOREM ParserComesBack == ASSUME PacketBounds PROVE Spec => []ResyncBounded
<1>1. StreamInv => ResyncBounded
  BY DEF StreamInv, Resync, ResyncBounded
<1> QED
  BY <1>1, StreamInvariant, PTL

\* A frame that arrives whole is reported, and nothing else is (ReportsWholeFrames).
THEOREM WholeFramesAreReported == ASSUME PacketBounds PROVE Spec => [][ReportsWholeFrames]_vars
<1>1. StreamInv => ([Next]_vars => [ReportsWholeFrames]_vars)
  <2> SUFFICES ASSUME StreamInv, Deliver PROVE ReportsWholeFrames
    BY DEF ReportsWholeFrames
  <2> QED
    BY Recognised, NothingMadeUp DEF StreamInv, ReportsWholeFrames
<1> QED
  BY <1>1, StreamInvariant, PTL DEF Spec

(***************************************************************************)
(* The regulator sequencer.                                                *)
(***************************************************************************)
\* A counter below its width is not changed by the wrap.
LEMMA BelowWidth ==
  ASSUME NEW n \in Nat \ {0}, NEW a \in 0 .. n - 1
  PROVE  a % n = a
  OBVIOUS

\* Confirming one more rail: the confirmed ones stay the first of the sequence.
LEMMA OneMoreRail ==
  ASSUME NEW S, NEW s \in Seq(S), NEW n \in Nat, n < Len(s)
  PROVE  SubSeq(s, 1, n + 1) = Append(SubSeq(s, 1, n), s[n + 1])
<1>1. SubSeq(s, 1, n) \in Seq(S) /\ Len(SubSeq(s, 1, n)) = n
  BY SubSeqProperties
<1>2. SubSeq(s, 1, n + 1) \in Seq(S) /\ Len(SubSeq(s, 1, n + 1)) = n + 1
  BY SubSeqProperties
<1>3. s[n + 1] \in S
  BY ElementOfSeq
<1>4. /\ Append(SubSeq(s, 1, n), s[n + 1]) \in Seq(S)
      /\ Len(Append(SubSeq(s, 1, n), s[n + 1])) = n + 1
  BY <1>1, <1>3, AppendProperties
<1>5. \A i \in 1 .. n + 1 : SubSeq(s, 1, n + 1)[i] = s[i]
  BY SubSeqProperties
<1>6. \A i \in 1 .. n + 1 : Append(SubSeq(s, 1, n), s[n + 1])[i] = s[i]
  BY <1>1, <1>3, AppendProperties, SubSeqProperties
<1>7. QED
  BY <1>2, <1>4, <1>5, <1>6, SeqEqual

\* Power is never asked of a rail out of turn: as long as no step carries a rail
\* that is within its timeout past the width of the counter, rails are confirmed in
\* their order, complete means all of them, and exactly a rail that has been silent
\* for longer than its own timeout faults the sequence.
THEOREM RailsComeInTurn ==
  ASSUME Sequencer!NoWrap, MaxRails \in Nat
  PROVE  Sequencer!Spec => []Sequencer!RailsInTurn
<1> USE DEF Sequencer!SequencerInv, Sequencer!TypeOK, Sequencer!CounterIsSilence,
            Sequencer!OneBeingEnabled, Sequencer!RailsInTurn
<1>1. Sequencer!Init => Sequencer!SequencerInv
  <2> SUFFICES ASSUME Sequencer!Init PROVE Sequencer!SequencerInv
    OBVIOUS
  <2>1. <<>> \in Seq(Rails) /\ Len(<<>>) = 0
    BY EmptySeq
  <2>2. SubSeq(<<>>, 1, 0) = <<>>
    BY SubSeqEmpty
  <2>3. QED
    BY <2>1, <2>2 DEF Sequencer!Init
<1>2. Sequencer!SequencerInv /\ [Sequencer!Next]_(Sequencer!vars) => Sequencer!SequencerInv'
  <2> SUFFICES ASSUME Sequencer!SequencerInv, [Sequencer!Next]_(Sequencer!vars)
               PROVE  Sequencer!SequencerInv'
    OBVIOUS
  <2>1. ASSUME NEW n \in 1 .. MaxRails, NEW ids \in [1 .. n -> Rails],
               NEW ms \in ConfirmTimeouts, Sequencer!Configure(ids, ms)
        PROVE  Sequencer!SequencerInv'
    <3>1. ids \in Seq(Rails) /\ Len(ids) = n
      OBVIOUS
    <3>2. ms \in Nat
      BY DEF Sequencer!NoWrap
    <3>3. SubSeq(ids, 1, 0) = <<>> /\ <<>> \in Seq(Rails)
      BY <3>1, SubSeqEmpty, EmptySeq
    <3>4. QED
      BY <2>1, <3>1, <3>2, <3>3 DEF Sequencer!Configure
  <2>2. CASE Sequencer!Start
    <3>1. SubSeq(rail_ids, 1, 0) = <<>> /\ <<>> \in Seq(Rails)
      BY SubSeqEmpty, EmptySeq
    <3>2. Len(rail_ids) > 0
      BY <2>2, EmptySeq DEF Sequencer!Start
    <3>3. QED
      BY <2>2, <3>1, <3>2 DEF Sequencer!Start
  <2>3. CASE Sequencer!PowerGood
    <3>1. index < Len(rail_ids) /\ Sequencer!CurrentRail = rail_ids[index + 1]
      BY <2>3 DEF Sequencer!PowerGood, Sequencer!CurrentRail
    <3>2. rail_ids[index + 1] \in Rails
      BY <3>1, ElementOfSeq
    <3>3. SubSeq(rail_ids, 1, index + 1) = Append(confirmed, rail_ids[index + 1])
      BY <3>1, OneMoreRail
    <3>4. confirmed' = SubSeq(rail_ids', 1, index') /\ confirmed' \in Seq(Rails)
      BY <2>3, <3>1, <3>2, <3>3, AppendProperties DEF Sequencer!PowerGood
    <3>5. SubSeq(rail_ids, 1, Len(rail_ids)) = rail_ids
      BY SubSeqFull
    <3>6. state' = "kComplete" => index' = Len(rail_ids') /\ confirmed' = rail_ids'
      <4>1. index + 1 >= Len(rail_ids) => index + 1 = Len(rail_ids)
        BY <3>1, LenProperties
      <4>2. QED
        BY <2>3, <3>4, <3>5, <4>1 DEF Sequencer!PowerGood
    <3>7. state' # "kFaulted" /\ silent' = 0 /\ railElapsed' = 0 /\ index' \in 0 .. Len(rail_ids')
      BY <2>3, <3>1 DEF Sequencer!PowerGood
    <3>8. state' = "kEnabling" => index' < Len(rail_ids')
      BY <2>3, <3>7, LenProperties DEF Sequencer!PowerGood
    <3>9. QED
      BY <2>3, <3>4, <3>6, <3>7, <3>8 DEF Sequencer!PowerGood
  <2>4. ASSUME NEW tick \in SequencerTicks, Sequencer!Silent(tick)
        PROVE  Sequencer!SequencerInv'
    <3>1. /\ confirm_timeout \in ConfirmTimeouts /\ silent <= confirm_timeout
          /\ tick \in Nat /\ Width \in Nat \ {0} /\ confirm_timeout + tick < Width
      BY <2>4, EmptySeq DEF Sequencer!Silent, Sequencer!NoWrap
    <3>2. (railElapsed + tick) % Width = silent + tick
      <4>1. railElapsed + tick = silent + tick /\ silent + tick \in 0 .. Width - 1
        BY <3>1
      <4>2. QED
        BY <3>1, <4>1, BelowWidth
    <3>3. QED
      BY <2>4, <3>1, <3>2 DEF Sequencer!Silent
  <2>5. CASE UNCHANGED Sequencer!vars
    BY <2>5 DEF Sequencer!vars
  <2>6. QED
    BY <2>1, <2>2, <2>3, <2>4, <2>5 DEF Sequencer!Next
<1>3. Sequencer!SequencerInv => Sequencer!RailsInTurn
  OBVIOUS
<1>4. QED
  BY <1>1, <1>2, <1>3, PTL DEF Sequencer!Spec

(***************************************************************************)
(* The blocking wait.                                                      *)
(***************************************************************************)
\* What SO_RCVTIMEO is set to covers all of the time left but less than a
\* millisecond (udp_socket.cpp cuts it to whole ones), or has no end.
LEMMA ArmedForWholeMilliseconds ==
  ASSUME TicksPerMs \in Nat \ {0}, Timeout \in Nat, NEW timeLeft \in 0 .. Timeout
  PROVE  /\ Wait!RecvTimeout(timeLeft) \in 0 .. Wait!Forever
         /\ timeLeft < Wait!RecvTimeout(timeLeft) + TicksPerMs
<1> DEFINE ms == timeLeft \div TicksPerMs
           rest == timeLeft % TicksPerMs
<1>1. /\ ms \in Nat /\ rest \in 0 .. TicksPerMs - 1
      /\ timeLeft = TicksPerMs * ms + rest
  OBVIOUS
<1>2. TicksPerMs * ms = ms * TicksPerMs /\ ms * TicksPerMs \in Nat
  BY <1>1
<1>3. ms * TicksPerMs <= timeLeft /\ timeLeft < ms * TicksPerMs + TicksPerMs
  <2> HIDE DEF ms, rest
  <2>1. QED
    BY <1>1, <1>2
<1>4. Wait!RecvTimeout(timeLeft) = IF ms = 0 THEN Timeout + 1 ELSE ms * TicksPerMs
  BY DEF Wait!RecvTimeout, Wait!Forever
<1> HIDE DEF ms, rest
<1>5. QED
  BY <1>2, <1>3, <1>4 DEF Wait!Forever

\* A wait that reports a timeout has waited for all of it but less than a
\* millisecond, however many strays sent it round its loop, or its socket has failed;
\* for any timeout and any resolution of the clock.
THEOREM WaitsAreLongEnough ==
  ASSUME TicksPerMs \in Nat \ {0}, Timeout \in Nat
  PROVE  Wait!Spec => []Wait!NoEarlyTimeout
<1> USE DEF Wait!WaitInv, Wait!TypeOK, Wait!ArmedForWhatIsLeft, Wait!ResultOnReturn,
            Wait!NoEarlyTimeout, Wait!Datagrams, Wait!Forever
<1>1. Wait!Init => Wait!WaitInv
  BY EmptySeq DEF Wait!Init
<1>2. Wait!WaitInv /\ [Wait!Next]_(Wait!vars) => Wait!WaitInv'
  <2> SUFFICES ASSUME Wait!WaitInv, [Wait!Next]_(Wait!vars) PROVE Wait!WaitInv'
    OBVIOUS
  <2>1. CASE Wait!Tick
    BY <2>1 DEF Wait!Tick
  <2>2. CASE Wait!Arrive
    <3>1. queue' \in Seq(Wait!Datagrams)
      BY <2>2, AppendProperties DEF Wait!Arrive
    <3>2. QED
      BY <2>2, <3>1 DEF Wait!Arrive
  <2>3. CASE Wait!DeadlinePassed
    BY <2>3 DEF Wait!DeadlinePassed, Wait!Return
  <2>4. CASE Wait!StartRecv
    <3>1. /\ blocked' \in 0 .. Wait!Forever
          /\ remaining < blocked' + TicksPerMs
      BY <2>4, ArmedForWholeMilliseconds DEF Wait!StartRecv
    <3>2. QED
      BY <2>4, <3>1 DEF Wait!StartRecv
  <2>5. CASE Wait!ReceiveDatagram
    <3>1. Head(queue) \in Wait!Datagrams /\ Tail(queue) \in Seq(Wait!Datagrams)
      BY <2>5, HeadTailProperties DEF Wait!ReceiveDatagram
    <3>2. QED
      BY <2>5, <3>1 DEF Wait!ReceiveDatagram, Wait!Classify, Wait!Return
  <2>6. CASE Wait!RecvTimesOut
    BY <2>6 DEF Wait!RecvTimesOut, Wait!Return
  <2>7. CASE Wait!RecvFails
    BY <2>7 DEF Wait!RecvFails, Wait!Return
  <2>8. CASE UNCHANGED Wait!vars
    BY <2>8 DEF Wait!vars
  <2>9. QED
    BY <2>1, <2>2, <2>3, <2>4, <2>5, <2>6, <2>7, <2>8 DEF Wait!Next, Wait!Wait
<1>3. Wait!WaitInv => Wait!NoEarlyTimeout
  BY DEF Wait!WaitInv
<1>4. QED
  BY <1>1, <1>2, <1>3, PTL DEF Wait!Spec

(***************************************************************************)
(* The GPS receiver.                                                       *)
(***************************************************************************)
\* What the parameters of the FMU are: a positive communication step, latencies
\* and hold-offs that are not negative.
GpsParameters ==
  StepTime \in Nat \ {0} /\ Latencies \subseteq Nat /\ HoldOffs \subseteq Nat

\* The receiver before its first step is as the invariant says.
LEMMA GpsInit == GpsParameters /\ Gps!Init => Gps!GpsInv
<1> SUFFICES ASSUME GpsParameters, Gps!Init PROVE Gps!GpsInv
  OBVIOUS
<1> USE DEF Gps!Init, Gps!Never, Gps!NoSample, Gps!NoSolution, Gps!NotSent
<1>1. <<>> \in Seq(Gps!Frames) /\ Len(<<>>) = 0
  BY EmptySeq
<1>2. Gps!TypeOK
  <2>1. line \in Seq(Gps!Frames) /\ due \in Seq(Gps!Frames)
    BY <1>1
  <2>2. latency \in Nat /\ holdOff \in Nat
    BY DEF GpsParameters
  <2>3. previous \in [speed : {0, 1}, at : Int] /\ solution \in [at : Int, valid : BOOLEAN]
    OBVIOUS
  <2>4. sent \in [epoch : Int, at : Nat, run : Nat] /\ tripped \in Nat \cup {Gps!Never}
    OBVIOUS
  <2>5. QED
    BY <2>1, <2>2, <2>3, <2>4 DEF Gps!TypeOK
<1>3. Gps!HoldOffFromTheLast /\ Gps!SentBefore /\ Gps!NoFixDuringHoldOff
  BY DEF Gps!HoldOffFromTheLast, Gps!SentBefore, Gps!NoFixDuringHoldOff
<1>4. Gps!FramesInLine
  BY <1>1 DEF Gps!FramesInLine, Gps!InOrder
<1>5. QED
  BY <1>2, <1>3, <1>4 DEF Gps!GpsInv

\* evaluate() and apply(): a limit that trips starts the hold-off anew and the
\* solution is not valid; a valid one is at or after the end of the hold-off.
LEMMA GpsSolves ==
  ASSUME GpsParameters, Gps!GpsInv, Gps!DoStep
  PROVE  /\ previous' \in [speed : {0, 1}, at : Int] /\ reacquiredAt' \in Nat
         /\ solution' \in [at : Int, valid : BOOLEAN] /\ tripped' \in Nat \cup {Gps!Never}
         /\ Gps!HoldOffFromTheLast' /\ Gps!NoFixDuringHoldOff'
<1> USE DEF GpsParameters, Gps!GpsInv, Gps!TypeOK, Gps!HoldOffFromTheLast,
            Gps!NoFixDuringHoldOff, Gps!Never
<1>1. simTime' = simTime + StepTime /\ simTime' \in Nat /\ UNCHANGED <<holdOff, nedWritten>>
  BY DEF Gps!DoStep
<1>2. PICK truth \in Gps!Truths :
        /\ Gps!Evaluate(truth, simTime')
        /\ solution' = [at |-> simTime', valid |-> Gps!IsValid(truth, simTime')]
  BY DEF Gps!DoStep
<1>3. Gps!Speed(truth) \in {0, 1}
  BY DEF Gps!Speed, Gps!Truths
<1>4. previous' \in [speed : {0, 1}, at : Int]
  BY <1>1, <1>2, <1>3 DEF Gps!Evaluate
<1>5. Gps!IsValid(truth, simTime') \in BOOLEAN
  BY DEF Gps!IsValid
<1>6. /\ solution' \in [at : Int, valid : BOOLEAN]
      /\ solution'.at = simTime' /\ solution'.valid = Gps!IsValid(truth, simTime')
  BY <1>1, <1>2, <1>5
<1>7. CASE Gps!Trips(truth)
  <2>1. reacquiredAt' = simTime' + holdOff /\ tripped' = simTime'
    BY <1>2, <1>7 DEF Gps!Evaluate
  <2>2. ~solution'.valid
    BY <1>6, <1>7 DEF Gps!IsValid
  <2>3. QED
    BY <1>1, <1>4, <1>6, <2>1, <2>2
<1>8. CASE ~Gps!Trips(truth)
  <2>1. UNCHANGED <<reacquiredAt, tripped>>
    BY <1>2, <1>8 DEF Gps!Evaluate
  <2>2. solution'.valid => simTime' >= reacquiredAt
    BY <1>6 DEF Gps!IsValid
  <2>3. QED
    BY <1>1, <1>4, <1>6, <2>1, <2>2
<1>9. QED
  BY <1>7, <1>8

\* What is left of a line when the first n are taken.
LEMMA TheRest ==
  ASSUME NEW S, NEW s, NEW n \in Nat, NEW k \in Nat, n <= k, \A i \in n + 1 .. k : s[i] \in S
  PROVE  /\ SubSeq(s, n + 1, k) \in Seq(S) /\ Len(SubSeq(s, n + 1, k)) = k - n
         /\ \A i \in 1 .. k - n : SubSeq(s, n + 1, k)[i] = s[n + i]
<1> DEFINE m == n + 1
<1>1. m \in Int /\ k \in Int /\ \A i \in m .. k : s[i] \in S
  OBVIOUS
<1>2. /\ m <= k => k - m + 1 = k - n
      /\ ~(m <= k) => k - n = 0
      /\ k - m + 1 = k - n /\ \A i \in Int : m + i - 1 = n + i
  OBVIOUS
<1> HIDE DEF m
<1>3. /\ SubSeq(s, m, k) \in Seq(S)
      /\ Len(SubSeq(s, m, k)) = IF m <= k THEN k - m + 1 ELSE 0
      /\ \A i \in 1 .. k - m + 1 : SubSeq(s, m, k)[i] = s[m + i - 1]
  BY <1>1, SubSeqProperties
<1>4. /\ SubSeq(s, m, k) \in Seq(S) /\ Len(SubSeq(s, m, k)) = k - n
      /\ \A i \in 1 .. k - n : SubSeq(s, m, k)[i] = s[n + i]
  BY <1>2, <1>3
<1>5. QED
  BY <1>4 DEF m

\* push() and pop_due(): the new frame is the last in the line, and what is
\* taken from the front became due in this step.
LEMMA GpsDelays ==
  ASSUME GpsParameters, Gps!GpsInv, Gps!DoStep
  PROVE  /\ line' \in Seq(Gps!Frames) /\ due' \in Seq(Gps!Frames)
         /\ Gps!FramesInLine'
<1> DEFINE frames == Append(line, Gps!Frame(simTime'))
           m == Len(line)
<1>1. /\ due = <<>> /\ simTime \in Nat /\ simTime' = simTime + StepTime /\ StepTime \in Nat \ {0}
      /\ latency \in Nat /\ run \in Nat /\ UNCHANGED <<latency, run, sent>>
      /\ sent.epoch \in Int /\ line \in Seq(Gps!Frames) /\ m \in Nat
  BY LenProperties DEF Gps!DoStep, GpsParameters, Gps!GpsInv, Gps!TypeOK
<1>2. /\ Gps!Frame(simTime') \in Gps!Frames
      /\ Gps!Frame(simTime').epoch = simTime' /\ Gps!Frame(simTime').at = simTime' + latency
      /\ Gps!Frame(simTime').run = run
  BY <1>1 DEF Gps!Frame, Gps!Frames
<1>3. /\ frames \in Seq(Gps!Frames) /\ Len(frames) = m + 1
      /\ \A i \in 1 .. m : frames[i] = line[i]
      /\ frames[m + 1] = Gps!Frame(simTime')
  BY <1>1, <1>2, AppendProperties
<1>4. \A i \in 1 .. m + 1 : frames[i] \in Gps!Frames
  BY <1>3, ElementOfSeq
<1>5. PICK n \in Gps!DuePrefixes(frames, simTime') :
        due' = SubSeq(frames, 1, n) /\ line' = SubSeq(frames, n + 1, Len(frames))
  BY DEF Gps!DoStep
<1>6. sent.epoch < simTime'
  <2>1. sent.epoch <= simTime
    BY DEF Gps!GpsInv, Gps!SentBefore
  <2>2. QED
    BY <1>1, <2>1
<1>7. \A i \in 1 .. m : /\ line[i].run = run /\ line[i].at = line[i].epoch + latency
                        /\ sent.epoch < line[i].epoch /\ line[i].epoch <= simTime
                        /\ simTime <= line[i].at
  BY DEF Gps!GpsInv, Gps!FramesInLine, Gps!OfThisRun
<1>8. \A i \in 1 .. m + 1 :
        /\ frames[i].run = run /\ frames[i].at = frames[i].epoch + latency
        /\ sent.epoch < frames[i].epoch /\ frames[i].epoch <= simTime'
        /\ simTime <= frames[i].at
        /\ frames[i].epoch \in Nat /\ frames[i].at \in Nat
  <2> SUFFICES ASSUME NEW i \in 1 .. m + 1
               PROVE  /\ frames[i].run = run /\ frames[i].at = frames[i].epoch + latency
                      /\ sent.epoch < frames[i].epoch /\ frames[i].epoch <= simTime'
                      /\ simTime <= frames[i].at
                      /\ frames[i].epoch \in Nat /\ frames[i].at \in Nat
    OBVIOUS
  <2>1. frames[i].epoch \in Nat /\ frames[i].at \in Nat
    BY <1>4 DEF Gps!Frames
  <2> HIDE DEF frames, m
  <2>2. CASE i \in 1 .. m
    <3>1. frames[i] = line[i]
      BY <1>3, <2>2
    <3>2. /\ frames[i].run = run /\ frames[i].at = frames[i].epoch + latency
          /\ sent.epoch < frames[i].epoch /\ frames[i].epoch <= simTime
          /\ simTime <= frames[i].at
      BY <1>7, <2>2, <3>1
    <3>3. frames[i].epoch <= simTime'
      BY <1>1, <2>1, <3>2
    <3>4. QED
      BY <2>1, <3>2, <3>3
  <2>3. CASE i = m + 1
    BY <1>1, <1>2, <1>3, <1>6, <2>1, <2>3
  <2>4. QED
    BY <1>1, <2>2, <2>3
<1>9. \A i, j \in 1 .. m + 1 : i < j => frames[i].epoch < frames[j].epoch
  <2>1. \A i, j \in 1 .. m : i < j => line[i].epoch < line[j].epoch
    BY DEF Gps!GpsInv, Gps!FramesInLine, Gps!InOrder
  <2>2. \A i \in 1 .. m : line[i].epoch <= simTime
    BY <1>7
  <2> HIDE DEF frames, m
  <2> SUFFICES ASSUME NEW i \in 1 .. m + 1, NEW j \in 1 .. m + 1, i < j
               PROVE  frames[i].epoch < frames[j].epoch
    OBVIOUS
  <2>3. i \in 1 .. m
    BY <1>1
  <2>4. CASE j \in 1 .. m
    BY <1>3, <2>1, <2>3, <2>4
  <2>5. CASE j = m + 1
    <3>1. frames[i] = line[i] /\ frames[i].epoch \in Nat
      BY <1>3, <1>8, <2>3
    <3>2. frames[i].epoch <= simTime
      BY <2>2, <2>3, <3>1
    <3>3. frames[j].epoch = simTime'
      BY <1>2, <1>3, <2>5
    <3>4. QED
      BY <1>1, <3>1, <3>2, <3>3
  <2>6. QED
    BY <1>1, <2>4, <2>5
<1> HIDE DEF frames, m
<1>10. /\ n \in 0 .. m + 1
       /\ \A i \in 1 .. n : frames[i].at <= simTime'
       /\ n < m + 1 => frames[n + 1].at >= simTime'
  BY <1>3 DEF Gps!DuePrefixes
<1>11. /\ due' \in Seq(Gps!Frames) /\ Len(due') = n
       /\ \A i \in 1 .. n : due'[i] = frames[i]
  BY <1>1, <1>4, <1>5, <1>10, SubSeqProperties
<1>12. /\ line' \in Seq(Gps!Frames) /\ Len(line') = m + 1 - n
       /\ \A i \in 1 .. m + 1 - n : line'[i] = frames[n + i]
  <2>1. \A i \in n + 1 .. m + 1 : frames[i] \in Gps!Frames
    BY <1>1, <1>4, <1>10
  <2>2. line' = SubSeq(frames, n + 1, m + 1) /\ n + 1 \in Int /\ m + 1 \in Int
    BY <1>1, <1>3, <1>5, <1>10
  <2> DEFINE k == m + 1
  <2>3. n \in Nat /\ k \in Nat /\ n <= k /\ \A i \in n + 1 .. k : frames[i] \in Gps!Frames
    BY <1>1, <1>10, <2>1
  <2>4. line' = SubSeq(frames, n + 1, k)
    BY <2>2
  <2> HIDE DEF k
  <2>5. /\ line' \in Seq(Gps!Frames) /\ Len(line') = k - n
        /\ \A i \in 1 .. k - n : line'[i] = frames[n + i]
    BY <2>3, <2>4, TheRest
  <2>6. QED
    BY <1>1, <1>10, <2>5 DEF k
<1>13. \A i \in 1 .. n : i \in 1 .. m + 1
  BY <1>1, <1>10
<1>14. \A i \in 1 .. m + 1 - n : n + i \in 1 .. m + 1 /\ n + 1 \in 1 .. m + 1
  BY <1>1, <1>10
<1>15. \A i \in 1 .. n : frames[i].at <= simTime' /\ simTime' <= frames[i].at + StepTime
  BY <1>1, <1>8, <1>10, <1>13
<1>16. \A i \in 1 .. m + 1 - n : simTime' <= frames[n + i].at
  <2> SUFFICES ASSUME NEW i \in 1 .. m + 1 - n PROVE simTime' <= frames[n + i].at
    OBVIOUS
  <2>1. n < m + 1 /\ simTime' <= frames[n + 1].at
    BY <1>1, <1>8, <1>10, <1>14
  <2>2. frames[n + 1].epoch <= frames[n + i].epoch
    <3>1. CASE i = 1
      BY <1>8, <1>14, <3>1
    <3>2. CASE i > 1
      <4>1. n + 1 < n + i
        BY <1>10, <3>2
      <4>2. frames[n + 1].epoch < frames[n + i].epoch
        BY <1>9, <1>14, <4>1
      <4>3. QED
        BY <1>8, <1>14, <4>2
    <3>3. QED
      BY <3>1, <3>2
  <2>3. QED
    <3>1. /\ frames[n + 1].at = frames[n + 1].epoch + latency
          /\ frames[n + i].at = frames[n + i].epoch + latency
          /\ frames[n + 1].epoch \in Nat /\ frames[n + i].epoch \in Nat
      BY <1>8, <1>14
    <3>2. simTime' \in Nat /\ latency \in Nat
      BY <1>1
    <3>3. QED
      BY <2>1, <2>2, <3>1, <3>2
<1>17. (\A i \in 1 .. Len(due) : Gps!OfThisRun(due[i]) /\ Gps!DueNow(due[i]))'
  BY <1>1, <1>8, <1>11, <1>13, <1>15 DEF Gps!OfThisRun, Gps!DueNow
<1>18. (\A i \in 1 .. Len(line) : Gps!OfThisRun(line[i]) /\ simTime <= line[i].at)'
  BY <1>1, <1>8, <1>12, <1>14, <1>16 DEF Gps!OfThisRun
<1>19. Gps!InOrder(due)' /\ Gps!InOrder(line)'
  <2>1. Gps!InOrder(due)'
    BY <1>9, <1>11, <1>13 DEF Gps!InOrder
  <2>2. \A i, j \in 1 .. m + 1 - n : i < j => n + i < n + j
    BY <1>10
  <2>3. Gps!InOrder(line)'
    BY <1>9, <1>12, <1>14, <2>2 DEF Gps!InOrder
  <2>4. QED
    BY <2>1, <2>3
<1>20. \A i \in 1 .. Len(due'), j \in 1 .. Len(line') : due'[i].epoch < line'[j].epoch
  <2> SUFFICES ASSUME NEW i \in 1 .. n, NEW j \in 1 .. m + 1 - n
               PROVE  frames[i].epoch < frames[n + j].epoch
    BY <1>11, <1>12
  <2>1. i < n + j
    BY <1>10
  <2>2. QED
    BY <1>9, <1>13, <1>14, <2>1
<1>21. QED
  BY <1>11, <1>12, <1>17, <1>18, <1>19, <1>20 DEF Gps!FramesInLine

\* One datagram leaves: the first of those that are due.
LEMMA GpsSends ==
  ASSUME GpsParameters, Gps!GpsInv, Gps!Send
  PROVE  Gps!GpsInv' /\ Gps!FixesLeaveOnTime
<1>1. /\ due \in Seq(Gps!Frames) /\ due # <<>> /\ Len(due) \in Nat \ {0}
      /\ due' = Tail(due) /\ sent' \in {due[1], sent} /\ Head(due) = due[1]
      /\ UNCHANGED <<life, simTime, latency, nedWritten, line, platform, cocom, holdOff,
                     previous, reacquiredAt, solution, run, tripped>>
  BY HeadTailProperties, EmptySeq DEF Gps!Send, Gps!GpsInv, Gps!TypeOK, Gps!dynamics
<1>2. /\ Tail(due) \in Seq(Gps!Frames) /\ Len(Tail(due)) = Len(due) - 1
      /\ \A i \in 1 .. Len(Tail(due)) : Tail(due)[i] = due[i + 1]
  BY <1>1, HeadTailProperties
<1>3. /\ \A i \in 1 .. Len(due) : due[i] \in Gps!Frames
      /\ \A i \in 1 .. Len(line) : line[i] \in Gps!Frames
  BY ElementOfSeq DEF Gps!GpsInv, Gps!TypeOK
<1>4. 1 \in 1 .. Len(due) /\ \A i \in 1 .. Len(Tail(due)) : i + 1 \in 1 .. Len(due) /\ 1 < i + 1
  BY <1>1, <1>2
<1>5. Gps!FixesLeaveOnTime
  BY <1>1, <1>4 DEF Gps!FixesLeaveOnTime, Gps!GpsInv, Gps!FramesInLine, Gps!OfThisRun,
       Gps!DueNow
<1>6. Gps!TypeOK'
  BY <1>1, <1>2, <1>3, <1>4 DEF Gps!GpsInv, Gps!TypeOK, Gps!Frames
<1>7. Gps!HoldOffFromTheLast' /\ Gps!NoFixDuringHoldOff'
  BY <1>1 DEF Gps!GpsInv, Gps!HoldOffFromTheLast, Gps!NoFixDuringHoldOff
<1>8. sent'.epoch <= simTime' /\ sent'.epoch \in Int
  BY <1>1, <1>3, <1>4 DEF Gps!GpsInv, Gps!TypeOK, Gps!Frames, Gps!SentBefore,
       Gps!FramesInLine,
     Gps!OfThisRun
<1>9. Gps!FramesInLine'
  <2>1. sent' = due[1] \/ sent' = sent
    BY <1>1
  <2>2. QED
    BY <1>1, <1>2, <1>3, <1>4, <2>1
       DEF Gps!GpsInv, Gps!FramesInLine, Gps!OfThisRun, Gps!DueNow, Gps!InOrder
<1>10. QED
  BY <1>5, <1>6, <1>7, <1>8, <1>9 DEF Gps!GpsInv, Gps!SentBefore

\* The other steps touch neither the line nor, unless the envelope is configured
\* anew, the hold-off; a reset empties both.
LEMMA GpsOthers ==
  ASSUME GpsParameters, Gps!GpsInv,
         \/ Gps!ExitInitialisationMode \/ Gps!Terminate \/ Gps!Reset
         \/ Gps!ApplyDynamicsConfig \/ Gps!WriteNedVelocity \/ UNCHANGED Gps!vars
  PROVE  Gps!GpsInv'
<1>1. CASE Gps!Reset
  <2>1. <<>> \in Seq(Gps!Frames) /\ Len(<<>>) = 0
    BY EmptySeq
  <2>2. latency' \in Nat /\ holdOff' \in Nat
    BY <1>1 DEF GpsParameters, Gps!Reset
  <2>3. Gps!TypeOK'
    <3>1. line' \in Seq(Gps!Frames) /\ due' \in Seq(Gps!Frames)
      BY <1>1, <2>1 DEF Gps!Reset
    <3>2. previous' \in [speed : {0, 1}, at : Int] /\ solution' \in [at : Int, valid : BOOLEAN]
      BY <1>1 DEF Gps!Reset, Gps!NoSample, Gps!NoSolution, Gps!Never
    <3>3. sent' \in [epoch : Int, at : Nat, run : Nat] /\ tripped' \in Nat \cup {Gps!Never}
      BY <1>1 DEF Gps!Reset, Gps!NotSent, Gps!Never
    <3>4. /\ life' \in {"instantiated", "stepping", "refused", "terminated"}
          /\ simTime' \in Nat /\ nedWritten' \in BOOLEAN /\ cocom' \in BOOLEAN
          /\ platform' \in {"airborne4g", "unlimited"} /\ reacquiredAt' \in Nat
      BY <1>1 DEF Gps!Reset
    <3>5. run' \in Nat
      BY <1>1 DEF Gps!Reset, Gps!GpsInv, Gps!TypeOK
    <3>6. QED
      BY <2>2, <3>1, <3>2, <3>3, <3>4, <3>5 DEF Gps!TypeOK
  <2>4. (Gps!HoldOffFromTheLast /\ Gps!SentBefore /\ Gps!NoFixDuringHoldOff)'
    BY <1>1 DEF Gps!Reset, Gps!HoldOffFromTheLast, Gps!SentBefore,
         Gps!NoFixDuringHoldOff,
       Gps!NoSolution, Gps!NotSent, Gps!Never
  <2>5. Gps!FramesInLine'
    BY <1>1, <2>1 DEF Gps!Reset, Gps!FramesInLine, Gps!InOrder
  <2>6. QED
    BY <2>3, <2>4, <2>5 DEF Gps!GpsInv
<1>2. CASE Gps!ApplyDynamicsConfig
  <2>1. /\ platform' \in {"airborne4g", "unlimited"} /\ cocom' \in BOOLEAN /\ holdOff' \in Nat
        /\ previous' = Gps!NoSample /\ reacquiredAt' = 0 /\ tripped' = Gps!Never
        /\ UNCHANGED <<life, simTime, latency, nedWritten, line, due, solution, sent, run>>
    BY <1>2 DEF Gps!ApplyDynamicsConfig, Gps!GpsInv, Gps!TypeOK, GpsParameters, Gps!fmu
  <2>2. Gps!TypeOK'
    BY <2>1 DEF Gps!GpsInv, Gps!TypeOK, Gps!NoSample, Gps!Never
  <2>3. QED
    BY <2>1, <2>2 DEF Gps!GpsInv, Gps!HoldOffFromTheLast, Gps!SentBefore,
         Gps!NoFixDuringHoldOff,
       Gps!FramesInLine, Gps!OfThisRun, Gps!DueNow, Gps!InOrder
<1>3. CASE \/ Gps!ExitInitialisationMode \/ Gps!Terminate \/ Gps!WriteNedVelocity
           \/ UNCHANGED Gps!vars
  <2>1. /\ life' \in {"instantiated", "stepping", "refused", "terminated"} /\ nedWritten' \in BOOLEAN
        /\ UNCHANGED <<simTime, latency, line, due, platform, cocom, holdOff, previous,
                       reacquiredAt, solution, sent, run, tripped>>
    BY <1>3 DEF Gps!ExitInitialisationMode, Gps!CreateSender, Gps!Terminate,
         Gps!WriteNedVelocity,
       Gps!vars, Gps!fmu, Gps!dynamics, Gps!history, Gps!GpsInv, Gps!TypeOK
  <2>2. QED
    BY <2>1 DEF Gps!GpsInv, Gps!TypeOK, Gps!HoldOffFromTheLast, Gps!SentBefore,
       Gps!NoFixDuringHoldOff, Gps!FramesInLine, Gps!OfThisRun, Gps!DueNow, Gps!InOrder
<1>4. QED
  BY <1>1, <1>2, <1>3

\* The inductive invariant: the hold-off is that of the limit that tripped last,
\* and the frames of the latency line are of this run, in order and on time.
THEOREM GpsInvariant ==
  ASSUME GpsParameters
  PROVE  Gps!Spec => []Gps!GpsInv
<1>1. Gps!Init => Gps!GpsInv
  BY GpsInit
<1>2. Gps!GpsInv /\ [Gps!Next]_(Gps!vars) => Gps!GpsInv'
  <2>1. ASSUME Gps!GpsInv, Gps!DoStep PROVE Gps!GpsInv'
    <3>1. /\ life' = life /\ UNCHANGED <<latency, nedWritten, platform, cocom, holdOff, sent, run>>
          /\ simTime' = simTime + StepTime
      BY <2>1 DEF Gps!DoStep
    <3>2. simTime' \in Nat /\ simTime <= simTime'
      BY <2>1, <3>1 DEF GpsParameters, Gps!GpsInv, Gps!TypeOK
    <3>3. Gps!TypeOK'
      BY <2>1, <3>1, <3>2, GpsSolves, GpsDelays DEF Gps!GpsInv, Gps!TypeOK, Gps!Never
    <3>4. Gps!SentBefore'
      BY <2>1, <3>1, <3>2 DEF Gps!GpsInv, Gps!TypeOK, Gps!SentBefore
    <3>5. QED
      BY <2>1, <3>3, <3>4, GpsSolves, GpsDelays DEF Gps!GpsInv
  <2>2. QED
    BY <2>1, GpsSends, GpsOthers DEF Gps!Next
<1>3. QED
  BY <1>1, <1>2, PTL DEF Gps!Spec

\* "Hold-off before a fix returns after any limit trips": for any step, latencies
\* and hold-offs, no solution is valid while a limit is tripped or before the
\* hold-off of the last one that tripped is over.
THEOREM HoldOffHolds ==
  ASSUME GpsParameters
  PROVE  Gps!Spec => []Gps!NoFixDuringHoldOff
<1>1. Gps!GpsInv => Gps!NoFixDuringHoldOff
  BY DEF Gps!GpsInv
<1>2. QED
  BY <1>1, GpsInvariant, PTL

\* The latency line delivers what is due, in the order it was solved in, neither
\* early nor later than the step in which it became due, and nothing of a run before
\* the reset.
THEOREM LatencyIsKept ==
  ASSUME GpsParameters
  PROVE  Gps!Spec => [][Gps!FixesLeaveOnTime]_(Gps!vars)
<1>1. Gps!GpsInv /\ [Gps!Next]_(Gps!vars) => [Gps!FixesLeaveOnTime]_(Gps!vars)
  BY GpsSends DEF Gps!FixesLeaveOnTime
<1>2. QED
  BY <1>1, GpsInvariant, PTL DEF Gps!Spec

(***************************************************************************)
(* The shared-memory segment, for every set of processes and any number of *)
(* segments: typing, then the inductive invariant SegmentInv, then the     *)
(* exclusivity of create().                                                *)
(***************************************************************************)
\* A call or a handle stays typed when one process's is replaced and the number of
\* created objects grows.
CallsOn(n) == [step : {"none", "truncate", "map", "mapExisting"}, object : 0 .. n]
HandlesOn(n) == [object : 0 .. n, owns : BOOLEAN]

\* What a process is doing and holds keeps its type, however many segments there
\* have been since.
LEMMA RecordsStayTyped ==
  ASSUME Segment!TypeOK, NEW p \in Processes, NEW n \in Nat, created <= n
  PROVE  /\ \A c \in CallsOn(n) : [call EXCEPT ![p] = c] \in [Processes -> CallsOn(n)]
         /\ \A s \in HandlesOn(n) : [held EXCEPT ![p] = s] \in [Processes -> HandlesOn(n)]
         /\ call \in [Processes -> CallsOn(n)] /\ held \in [Processes -> HandlesOn(n)]
         /\ call[p] \in CallsOn(n) /\ held[p] \in HandlesOn(n)
<1>1. 0 .. created \subseteq 0 .. n
  BY DEF Segment!TypeOK
<1>2. CallsOn(created) \subseteq CallsOn(n) /\ HandlesOn(created) \subseteq HandlesOn(n)
  BY <1>1 DEF CallsOn, HandlesOn
<1>3. call \in [Processes -> CallsOn(created)] /\ held \in [Processes -> HandlesOn(created)]
  BY DEF Segment!TypeOK, CallsOn, HandlesOn
<1> QED
  BY <1>2, <1>3

\* Every call and every handle names an object that has been created.
THEOREM SegmentTypes == Segment!Spec => []Segment!TypeOK
<1>1. Segment!Init => Segment!TypeOK
  BY DEF Segment!Init, Segment!NoCall, Segment!NoSegment, Segment!TypeOK, Segment!None
<1>2. Segment!TypeOK /\ [Segment!Next]_(Segment!vars) => Segment!TypeOK'
  <2> SUFFICES ASSUME Segment!TypeOK, [Segment!Next]_(Segment!vars) PROVE Segment!TypeOK'
    OBVIOUS
  <2>1. CASE UNCHANGED Segment!vars
    BY <2>1 DEF Segment!vars, Segment!TypeOK
  <2> SUFFICES ASSUME NEW p \in Processes,
                      \/ Segment!CreateName(p) \/ Segment!SizeSegment(p)
                      \/ Segment!GiveUpCreate(p) \/ Segment!CreateReturns(p)
                      \/ Segment!OpenName(p) \/ Segment!GiveUpOpen(p)
                      \/ Segment!OpenReturns(p) \/ Segment!Reset(p) \/ Segment!Crash(p)
               PROVE  Segment!TypeOK'
    BY <2>1 DEF Segment!Next
  <2> USE DEF Segment!None
  <2>2. /\ created' \in Nat /\ created <= created'
        /\ name' \in 0 .. created'
        /\ created' # created => name' = created'
    BY DEF Segment!TypeOK, Segment!CreateName, Segment!SizeSegment,
         Segment!GiveUpCreate, Segment!CreateReturns, Segment!OpenName,
         Segment!GiveUpOpen,
         Segment!OpenReturns, Segment!Reset, Segment!Crash, Segment!Adopt,
         Segment!Unlinked
  <2> DEFINE n == created'
  <2>3. /\ call[p] \in CallsOn(n) /\ held[p] \in HandlesOn(n)
        /\ call \in [Processes -> CallsOn(n)] /\ held \in [Processes -> HandlesOn(n)]
        /\ \A c \in CallsOn(n) : [call EXCEPT ![p] = c] \in [Processes -> CallsOn(n)]
        /\ \A s \in HandlesOn(n) : [held EXCEPT ![p] = s] \in [Processes -> HandlesOn(n)]
    BY <2>2, RecordsStayTyped
  <2>4. /\ Segment!NoCall \in CallsOn(n) /\ Segment!NoSegment \in HandlesOn(n)
        /\ \A object \in 0 .. n :
             /\ \A step \in {"truncate", "map", "mapExisting"} :
                  [step |-> step, object |-> object] \in CallsOn(n)
             /\ \A owns \in BOOLEAN : [object |-> object, owns |-> owns] \in HandlesOn(n)
        /\ name \in 0 .. n /\ n \in 0 .. n
        /\ call[p].object \in 0 .. n /\ held[p].object \in 0 .. n
    BY <2>2, <2>3 DEF Segment!NoCall, Segment!NoSegment, CallsOn, HandlesOn,
         Segment!TypeOK
  <2>5. call' \in [Processes -> CallsOn(n)]
    BY <2>3, <2>4 DEF Segment!Goes, Segment!Returns, Segment!CreateName,
         Segment!SizeSegment, Segment!GiveUpCreate, Segment!CreateReturns,
         Segment!OpenName, Segment!GiveUpOpen, Segment!OpenReturns, Segment!Reset,
         Segment!Crash
  <2>6. held' \in [Processes -> HandlesOn(n)]
    <3>1. held' = held \/ \E s \in HandlesOn(n) : held' = [held EXCEPT ![p] = s]
      <4>1. CASE Segment!CreateReturns(p) \/ Segment!OpenReturns(p)
        BY <2>4, <4>1 DEF Segment!Adopt, Segment!CreateReturns, Segment!OpenReturns
      <4>2. CASE Segment!Reset(p) \/ Segment!Crash(p)
        BY <2>4, <4>2 DEF Segment!Reset, Segment!Crash
      <4> QED
        BY <4>1, <4>2 DEF Segment!CreateName, Segment!SizeSegment,
             Segment!GiveUpCreate, Segment!OpenName, Segment!GiveUpOpen
    <3> QED
      BY <2>3, <3>1
  <2>7. crashed' \subseteq 0 .. n
    <3>1. CASE Segment!Crash(p)
      <4>1. crashed \subseteq 0 .. n
        BY <2>2 DEF Segment!TypeOK
      <4>2. crashed' \subseteq crashed \cup {held[p].object, call[p].object}
        BY <3>1 DEF Segment!Crash
      <4> QED
        BY <2>4, <4>1, <4>2
    <3>2. CASE ~Segment!Crash(p)
      <4>1. crashed' = crashed
        BY <3>2 DEF Segment!CreateName, Segment!SizeSegment, Segment!GiveUpCreate,
             Segment!CreateReturns, Segment!OpenName,
             Segment!GiveUpOpen, Segment!OpenReturns, Segment!Reset
      <4> QED
        BY <2>2, <4>1 DEF Segment!TypeOK
    <3> QED
      BY <3>1, <3>2
  <2> QED
    BY <2>2, <2>5, <2>6, <2>7 DEF Segment!TypeOK, CallsOn, HandlesOn
<1> QED
  BY <1>1, <1>2, PTL DEF Segment!Spec

\* A step of p replaces p's call and p's handle and no one else's.
LEMMA OthersStay ==
  ASSUME Segment!TypeOK, NEW p \in Processes
  PROVE  /\ \A c : /\ [call EXCEPT ![p] = c][p] = c
                  /\ \A q \in Processes \ {p} : [call EXCEPT ![p] = c][q] = call[q]
         /\ \A s : /\ [held EXCEPT ![p] = s][p] = s
                  /\ \A q \in Processes \ {p} : [held EXCEPT ![p] = s][q] = held[q]
         /\ \A q \in Processes : held[q].owns \in BOOLEAN
  BY DEF Segment!TypeOK

\* The name is handed over whole: from the shm_open() that made it to the handle
\* create() returns, and from there to nobody.
THEOREM OwnershipInvariant == Segment!Spec => []Segment!SegmentInv
<1> USE DEF Segment!OwnersHaveObjects, Segment!OwnersHaveTheName, Segment!OneOwner,
     Segment!NameHasAnOwner, Segment!Creating
<1>1. Segment!Init => Segment!SegmentInv
  BY DEF Segment!Init, Segment!NoCall, Segment!NoSegment, Segment!SegmentInv
<1>2. Segment!TypeOK /\ Segment!SegmentInv /\ [Segment!Next]_(Segment!vars) => Segment!SegmentInv'
  <2> SUFFICES ASSUME Segment!TypeOK, Segment!SegmentInv, [Segment!Next]_(Segment!vars)
               PROVE  Segment!SegmentInv'
    OBVIOUS
  <2>1. CASE UNCHANGED Segment!vars
    BY <2>1 DEF Segment!vars, Segment!SegmentInv
  <2> SUFFICES ASSUME NEW p \in Processes,
                      \/ Segment!CreateName(p) \/ Segment!SizeSegment(p)
                      \/ Segment!GiveUpCreate(p) \/ Segment!CreateReturns(p)
                      \/ Segment!OpenName(p) \/ Segment!GiveUpOpen(p)
                      \/ Segment!OpenReturns(p) \/ Segment!Reset(p) \/ Segment!Crash(p)
               PROVE  Segment!SegmentInv'
    BY <2>1 DEF Segment!Next
  <2>2. /\ \A c : /\ [call EXCEPT ![p] = c][p] = c
                 /\ \A q \in Processes \ {p} : [call EXCEPT ![p] = c][q] = call[q]
        /\ \A s : /\ [held EXCEPT ![p] = s][p] = s
                 /\ \A q \in Processes \ {p} : [held EXCEPT ![p] = s][q] = held[q]
        /\ \A q \in Processes : held[q].owns \in BOOLEAN
    BY OthersStay
  <2> USE <2>2 DEF Segment!None, Segment!Goes, Segment!Returns, Segment!NoCall,
       Segment!NoSegment, Segment!Steps
  <2>3. CASE Segment!CreateName(p)
    <3>1. \A q \in Processes : ~Segment!Creating(q) /\ ~held[q].owns
      BY <2>3 DEF Segment!SegmentInv, Segment!CreateName
    <3>2. created' \notin crashed /\ created' # 0
      BY <2>3 DEF Segment!CreateName, Segment!TypeOK
    <3>3. /\ name' = created' /\ crashed' = crashed /\ held' = held
          /\ call'[p] = [step |-> "truncate", object |-> created']
          /\ \A q \in Processes \ {p} : call'[q] = call[q]
      BY <2>3 DEF Segment!CreateName
    <3> QED
      BY <3>1, <3>2, <3>3 DEF Segment!SegmentInv
  <2>4. CASE Segment!SizeSegment(p)
    BY <2>4 DEF Segment!SegmentInv, Segment!SizeSegment
  <2>5. CASE Segment!GiveUpCreate(p)
    <3>1. /\ Segment!Creating(p) /\ name' = Segment!None /\ crashed' = crashed /\ held' = held
          /\ call'[p] = Segment!NoCall
          /\ \A q \in Processes \ {p} : call'[q] = call[q]
      BY <2>5 DEF Segment!GiveUpCreate
    <3> QED
      BY <3>1 DEF Segment!SegmentInv
  <2>6. CASE Segment!OpenName(p)
    BY <2>6 DEF Segment!SegmentInv, Segment!OpenName
  <2>7. CASE Segment!GiveUpOpen(p)
    BY <2>7 DEF Segment!SegmentInv, Segment!GiveUpOpen
  <2>8. CASE Segment!CreateReturns(p)
    <3>1. /\ Segment!Creating(p) /\ ~held[p].owns /\ name' = name /\ crashed' = crashed
          /\ call'[p] = Segment!NoCall
          /\ held'[p] = [object |-> call[p].object, owns |-> TRUE]
      BY <2>8 DEF Segment!SegmentInv, Segment!CreateReturns, Segment!Adopt,
           Segment!Unlinked
    <3>2. \A q \in Processes \ {p} : call'[q] = call[q] /\ held'[q] = held[q]
      BY <2>8 DEF Segment!CreateReturns, Segment!Adopt
    <3> QED
      BY <3>1, <3>2 DEF Segment!SegmentInv
  <2>9. CASE Segment!OpenReturns(p)
    <3>1. /\ ~Segment!Creating(p) /\ name' = Segment!Unlinked(held[p]) /\ crashed' = crashed
          /\ call'[p] = Segment!NoCall
          /\ held'[p] = [object |-> call[p].object, owns |-> FALSE]
      BY <2>9 DEF Segment!OpenReturns, Segment!Adopt
    <3>2. \A q \in Processes \ {p} : call'[q] = call[q] /\ held'[q] = held[q]
      BY <2>9 DEF Segment!OpenReturns, Segment!Adopt
    <3>3. CASE held[p].owns
      BY <3>1, <3>2, <3>3 DEF Segment!SegmentInv, Segment!Unlinked
    <3>4. CASE ~held[p].owns
      BY <3>1, <3>2, <3>4 DEF Segment!SegmentInv, Segment!Unlinked
    <3> QED
      BY <3>3, <3>4
  <2>10. CASE Segment!Reset(p)
    <3>1. /\ ~Segment!Creating(p) /\ name' = Segment!Unlinked(held[p]) /\ crashed' = crashed /\ call' = call
          /\ held'[p] = Segment!NoSegment
          /\ \A q \in Processes \ {p} : held'[q] = held[q]
      BY <2>10 DEF Segment!Reset
    <3>2. CASE held[p].owns
      BY <3>1, <3>2 DEF Segment!SegmentInv, Segment!Unlinked
    <3>3. CASE ~held[p].owns
      BY <3>1, <3>3 DEF Segment!SegmentInv, Segment!Unlinked
    <3> QED
      BY <3>2, <3>3
  <2>11. CASE Segment!Crash(p)
    <3>1. /\ name' = name /\ call'[p] = Segment!NoCall /\ held'[p] = Segment!NoSegment
          /\ \A q \in Processes \ {p} : call'[q] = call[q] /\ held'[q] = held[q]
      BY <2>11 DEF Segment!Crash
    <3>2. crashed' = crashed \cup (IF held[p].owns THEN {held[p].object} ELSE {})
                             \cup (IF Segment!Creating(p) THEN {call[p].object} ELSE {})
      BY <2>11 DEF Segment!Crash
    <3>3. Segment!OwnersHaveObjects' /\ Segment!OneOwner'
      BY <3>1 DEF Segment!SegmentInv
    <3>4. Segment!OwnersHaveTheName'
      BY <3>1, <3>2 DEF Segment!SegmentInv
    <3>5. Segment!NameHasAnOwner'
      BY <3>1, <3>2 DEF Segment!SegmentInv
    <3> QED
      BY <3>3, <3>4, <3>5 DEF Segment!SegmentInv
  <2> QED
    BY <2>3, <2>4, <2>5, <2>6, <2>7, <2>8, <2>9, <2>10, <2>11
<1> QED
  BY <1>1, <1>2, SegmentTypes, PTL DEF Segment!Spec

\* create() is exclusive among any number of processes, whatever they open, move
\* and drop and whenever they die.
THEOREM CreateIsExclusive == Segment!Spec => []Segment!NameIsItsOwners
<1>1. Segment!TypeOK /\ Segment!SegmentInv => Segment!NameIsItsOwners
  <2> SUFFICES ASSUME Segment!TypeOK, Segment!SegmentInv, NEW object \in 1 .. created
               PROVE  /\ object \in crashed \/ (name = object <=> \E p \in Processes : Segment!Owns(p, object))
                      /\ \A p, q \in Processes : Segment!Owns(p, object) /\ Segment!Owns(q, object) => p = q
    BY DEF Segment!NameIsItsOwners
  <2>1. \A p \in Processes : Segment!Owns(p, object) <=>
          \/ held[p].owns /\ held[p].object = object
          \/ Segment!Creating(p) /\ call[p].object = object
    BY DEF Segment!TypeOK, Segment!Owns, Segment!Creating
  <2>2. (\E p \in Processes : Segment!Owns(p, object)) => name = object
    BY <2>1 DEF Segment!SegmentInv, Segment!OwnersHaveTheName
  <2>3. name = object /\ object \notin crashed => \E p \in Processes : Segment!Owns(p, object)
    BY <2>1 DEF Segment!SegmentInv, Segment!OwnersHaveTheName, Segment!NameHasAnOwner,
         Segment!None
  <2>4. \A p, q \in Processes : Segment!Owns(p, object) /\ Segment!Owns(q, object) => p = q
    BY <2>1 DEF Segment!SegmentInv, Segment!OneOwner
  <2> QED
    BY <2>2, <2>3, <2>4
<1> QED
  BY <1>1, SegmentTypes, OwnershipInvariant, PTL

(***************************************************************************)
(* The I2C TCP bridge and the emulator's peripheral: what travels on a     *)
(* connection, and that no answer is taken for that to another transfer.   *)
(***************************************************************************)
\* The short sequences the two streams of a connection are made of.
LEMMA Pieces ==
  /\ \A a : Tail(<<a>>) = <<>> /\ Append(<<>>, a) = <<a>> /\ <<>> \o <<a>> = <<a>>
            /\ SubSeq(<<a>>, 2, Len(<<a>>)) = <<>> /\ Head(<<a>>) = a /\ Len(<<a>>) = 1
  /\ \A a, b : Tail(<<a, b>>) = <<b>> /\ <<>> \o <<a, b>> = <<a, b>>
               /\ SubSeq(<<a, b>>, 3, Len(<<a, b>>)) = <<>> /\ Head(<<a, b>>) = a
               /\ Len(<<a, b>>) = 2
  OBVIOUS

\* A second piece goes behind the first.
LEMMA AppendSecond == ASSUME NEW a, NEW b PROVE Append(<<a>>, b) = <<a, b>>
<1>1. <<a>> \in Seq({a, b}) /\ <<a, b>> \in Seq({a, b}) /\ b \in {a, b}
  OBVIOUS
<1>2. /\ Append(<<a>>, b) \in Seq({a, b}) /\ Len(Append(<<a>>, b)) = 2
      /\ Append(<<a>>, b)[1] = a /\ Append(<<a>>, b)[2] = b
  BY <1>1, AppendProperties
<1>3. Len(<<a, b>>) = 2 /\ \A i \in 1 .. 2 : Append(<<a>>, b)[i] = <<a, b>>[i]
  BY <1>2
<1> QED
  BY <1>1, <1>2, <1>3, SeqEqual

\* What is sent and kept has the type of what travels.
LEMMA MessageTypes ==
  /\ Tcp!Idle \in Tcp!Transfers /\ Tcp!Floating \in Tcp!Replies
  /\ \A r \in Tcp!Transfers : Tcp!Request(r) \in Seq(Tcp!Items)
  /\ \A r \in Tcp!Transfers : \A of \in Nat : \A ok \in BOOLEAN :
       Tcp!Reply(r, of, ok) \in Tcp!Replies
  /\ \A item \in Tcp!Items : Tcp!HeaderIn(item) \in Tcp!Transfers
<1>1. Tcp!Idle \in Tcp!Transfers /\ Tcp!Floating \in Tcp!Replies
  BY DEF Tcp!Idle, Tcp!Floating, Tcp!None, Tcp!Transfers, Tcp!Replies
<1>2. ASSUME NEW r \in Tcp!Transfers PROVE Tcp!Request(r) \in Seq(Tcp!Items)
  <2>1. Tcp!Piece("header", r) \in Tcp!Items /\ Tcp!Piece("bytes", r) \in Tcp!Items
    BY DEF Tcp!Piece, Tcp!Items
  <2> QED
    BY <2>1 DEF Tcp!Request
<1>3. \A r \in Tcp!Transfers : \A of \in Nat : \A ok \in BOOLEAN :
        Tcp!Reply(r, of, ok) \in Tcp!Replies
  BY DEF Tcp!Transfers, Tcp!Replies, Tcp!Reply
<1>4. \A item \in Tcp!Items : Tcp!HeaderIn(item) \in Tcp!Transfers
  BY <1>1 DEF Tcp!Items, Tcp!HeaderIn, Tcp!Transfers, Tcp!Idle
<1> QED
  BY <1>1, <1>2, <1>3, <1>4

\* An answer is the reply at the head of the stream, or the one after it.
LEMMA AnswerIsAReply ==
  ASSUME NEW s \in Seq(Tcp!Replies), NEW n \in {1, 2}, Len(s) >= n
  PROVE  s[n] \in Tcp!Replies /\ s[1].ok \in BOOLEAN /\ SubSeq(s, n + 1, Len(s)) \in Seq(Tcp!Replies)
<1>1. Len(s) \in Nat /\ 1 \in 1 .. Len(s) /\ n \in 1 .. Len(s)
  BY LenProperties
<1>2. s[1] \in Tcp!Replies /\ s[n] \in Tcp!Replies
  BY <1>1, ElementOfSeq
<1>3. \A i \in n + 1 .. Len(s) : s[i] \in Tcp!Replies
  BY <1>1, ElementOfSeq
<1>4. SubSeq(s, n + 1, Len(s)) \in Seq(Tcp!Replies)
  BY <1>1, <1>3, SubSeqProperties
<1> QED
  BY <1>2, <1>4 DEF Tcp!Replies

\* The connections the peripheral waits on and the bridge serves have been made.
LEMMA ConnectionsMade ==
  ASSUME MaxConnections \in Nat, Tcp!ConnectionTypes
  PROVE  /\ client # Tcp!None => client \in Tcp!Connections
         /\ serving # Tcp!None => serving \in Tcp!Connections
         /\ connections < MaxConnections => connections + 1 \in Tcp!Connections
  BY DEF Tcp!ConnectionTypes, Tcp!Connections, Tcp!None

\* Every field and every item on the wire keeps its type.
LEMMA BridgeTypesStay ==
  ASSUME MaxConnections \in Nat, Tcp!TypeOK, Tcp!WaitsOnTheNewest, [Tcp!Next]_(Tcp!vars)
  PROVE  Tcp!TypeOK'
<1>1. Tcp!PeripheralTypes /\ Tcp!ConnectionTypes /\ Tcp!WireTypes /\ Tcp!BridgeTypes
  BY DEF Tcp!TypeOK
<1>2. UNCHANGED Tcp!wire => Tcp!WireTypes'
  BY <1>1 DEF Tcp!WireTypes, Tcp!wire
<1>3. UNCHANGED Tcp!bridge => Tcp!BridgeTypes'
  BY <1>1 DEF Tcp!BridgeTypes, Tcp!bridge
<1>4. UNCHANGED <<connections, client, serving>> => Tcp!ConnectionTypes'
  BY <1>1 DEF Tcp!ConnectionTypes
<1>5. UNCHANGED Tcp!peripheral => Tcp!PeripheralTypes'
  BY <1>1 DEF Tcp!PeripheralTypes, Tcp!peripheral
<1> USE DEF Tcp!None
<1>6. CASE Tcp!Write \/ Tcp!CannotConnect
  <2>1. Tcp!PeripheralTypes'
    <3>1. CASE Tcp!Write
      BY <1>1, <3>1 DEF Tcp!PeripheralTypes, Tcp!Write
    <3>2. CASE Tcp!CannotConnect
      <4>1. transfers' \in Nat
        BY <1>1, <3>2 DEF Tcp!PeripheralTypes, Tcp!CannotConnect
      <4>2. given' \in Tcp!Replies
        BY <3>2, MessageTypes DEF Tcp!CannotConnect
      <4> QED
        BY <1>1, <3>2, <4>1, <4>2 DEF Tcp!PeripheralTypes, Tcp!CannotConnect
    <3> QED
      BY <1>6, <3>1, <3>2
  <2>2. UNCHANGED <<connections, client, serving>> /\ UNCHANGED Tcp!wire /\ UNCHANGED Tcp!bridge
    BY <1>6 DEF Tcp!Write, Tcp!CannotConnect, Tcp!bridge
  <2> QED
    BY <1>2, <1>3, <1>4, <2>1, <2>2 DEF Tcp!TypeOK
<1>7. ASSUME NEW reads \in BOOLEAN, Tcp!Transact(reads) PROVE Tcp!TypeOK'
  <2>1. PICK long \in BOOLEAN :
          /\ waiting' = [id |-> transfers', writes |-> pendingWrite, reads |-> reads, long |-> long]
          /\ requests' = [requests EXCEPT ![client'] = @ \o Tcp!Request(waiting')]
    BY <1>7 DEF Tcp!Transact
  <2>2. transfers' \in Nat /\ waiting' \in Tcp!Transfers
    BY <1>1, <1>7, <2>1 DEF Tcp!Transact, Tcp!Transfers, Tcp!PeripheralTypes
  <2>3. Tcp!PeripheralTypes'
    BY <1>1, <1>7, <2>2 DEF Tcp!PeripheralTypes, Tcp!Transact
  <2>4. \/ client # Tcp!None /\ UNCHANGED <<client, connections, open>>
        \/ /\ connections < MaxConnections /\ connections' = connections + 1
           /\ client' = connections' /\ open' = [open EXCEPT ![client'] = TRUE]
    BY <1>7 DEF Tcp!Transact, Tcp!EnsureConnected
  <2>5. Tcp!ConnectionTypes' /\ client' \in Tcp!Connections
    <3>1. serving' = serving
      BY <1>7 DEF Tcp!Transact, Tcp!bridge
    <3>2. CASE client # Tcp!None /\ UNCHANGED <<client, connections, open>>
      BY <1>1, <1>4, <3>1, <3>2, ConnectionsMade
    <3>3. CASE connections < MaxConnections /\ connections' = connections + 1 /\ client' = connections'
      BY <1>1, <3>1, <3>3, ConnectionsMade DEF Tcp!ConnectionTypes
    <3> QED
      BY <2>4, <3>2, <3>3
  <2>6. requests' \in [Tcp!Connections -> Seq(Tcp!Items)]
    <3>1. requests[client'] \o Tcp!Request(waiting') \in Seq(Tcp!Items)
      BY <1>1, <2>2, <2>5, MessageTypes, ConcatProperties DEF Tcp!WireTypes
    <3> QED
      BY <1>1, <2>1, <3>1 DEF Tcp!WireTypes
  <2>7. open' \in [Tcp!Connections -> BOOLEAN]
    BY <1>1, <2>4 DEF Tcp!WireTypes
  <2>8. UNCHANGED <<responses, Tcp!bridge>>
    BY <1>7 DEF Tcp!Transact
  <2> QED
    BY <1>1, <1>3, <2>3, <2>5, <2>6, <2>7, <2>8 DEF Tcp!TypeOK, Tcp!WireTypes
<1>8. CASE Tcp!ReceiveAnswer
  <2>1. client \in Tcp!Connections
    BY <1>1, <1>8, ConnectionsMade DEF Tcp!ReceiveAnswer, Tcp!WaitsOnTheNewest
  <2>2. /\ Tcp!AnswerLength \in {1, 2} /\ Len(Tcp!Answer) >= Tcp!AnswerLength
        /\ Tcp!Answer \in Seq(Tcp!Replies)
    BY <1>1, <1>8, <2>1 DEF Tcp!ReceiveAnswer, Tcp!AnswerLength, Tcp!Answer, Tcp!WireTypes
  <2>3. /\ Tcp!Answer[Tcp!AnswerLength] \in Tcp!Replies /\ Tcp!Answer[1].ok \in BOOLEAN
        /\ SubSeq(Tcp!Answer, Tcp!AnswerLength + 1, Len(Tcp!Answer)) \in Seq(Tcp!Replies)
    BY <2>2, AnswerIsAReply
  <2>4. given' \in Tcp!Replies
    BY <1>8, <2>3 DEF Tcp!ReceiveAnswer, Tcp!Replies
  <2>5. Tcp!PeripheralTypes'
    BY <1>1, <1>8, <2>4, MessageTypes DEF Tcp!ReceiveAnswer, Tcp!PeripheralTypes
  <2>6. Tcp!WireTypes'
    BY <1>1, <1>8, <2>3 DEF Tcp!ReceiveAnswer, Tcp!Answer, Tcp!WireTypes
  <2>7. UNCHANGED <<connections, client, serving, Tcp!bridge>>
    BY <1>8 DEF Tcp!ReceiveAnswer, Tcp!bridge
  <2> QED
    BY <1>3, <1>4, <2>5, <2>6, <2>7 DEF Tcp!TypeOK
<1>9. CASE Tcp!LoseAnswer \/ Tcp!ResetMachine
  <2>1. Tcp!PeripheralTypes'
    BY <1>1, <1>9, MessageTypes DEF Tcp!PeripheralTypes, Tcp!LoseAnswer, Tcp!ResetMachine
  <2>2. Tcp!ConnectionTypes'
    BY <1>1, <1>9 DEF Tcp!ConnectionTypes, Tcp!LoseAnswer, Tcp!ResetMachine, Tcp!Disconnect,
         Tcp!bridge
  <2>3. Tcp!WireTypes' /\ UNCHANGED Tcp!bridge
    BY <1>1, <1>9 DEF Tcp!WireTypes, Tcp!LoseAnswer, Tcp!ResetMachine, Tcp!Disconnect
  <2> QED
    BY <1>3, <2>1, <2>2, <2>3 DEF Tcp!TypeOK
<1>10. CASE Tcp!Accept
  <2>1. Tcp!ConnectionTypes'
    BY <1>1, <1>10 DEF Tcp!ConnectionTypes, Tcp!Accept, Tcp!peripheral
  <2>2. Tcp!BridgeTypes'
    BY <1>1, <1>10 DEF Tcp!BridgeTypes, Tcp!Accept, Tcp!Places
  <2>3. UNCHANGED Tcp!wire /\ UNCHANGED Tcp!peripheral
    BY <1>10 DEF Tcp!Accept
  <2> QED
    BY <1>2, <1>5, <2>1, <2>2, <2>3 DEF Tcp!TypeOK
<1>11. CASE Tcp!ClientGone \/ Tcp!SendFails \/ Tcp!PowerDown \/ Tcp!TransactOnBus
  <2>1. Tcp!BridgeTypes'
    <3>1. CASE Tcp!ClientGone \/ Tcp!SendFails \/ Tcp!PowerDown
      BY <1>1, <3>1 DEF Tcp!BridgeTypes, Tcp!ClientGone, Tcp!SendFails, Tcp!PowerDown,
           Tcp!Places
    <3>2. CASE Tcp!TransactOnBus
      <4>1. header.id \in Nat /\ bus.late \in Nat /\ bus.abandoned \in SUBSET Nat
        BY <1>1 DEF Tcp!BridgeTypes, Tcp!Transfers
      <4>2. Tcp!Walked \/ Tcp!Overtaken \/ Tcp!TimesOut \/ Tcp!PeripheralDown
        BY <3>2 DEF Tcp!TransactOnBus
      <4>3. bridgeResult' \in [code : {"none", "Ok", "Nack", "BusFault"}, of : Nat]
        BY <4>1, <4>2 DEF Tcp!Walked, Tcp!Overtaken, Tcp!TimesOut, Tcp!PeripheralDown
      <4>4. bus' \in [late : Nat, abandoned : SUBSET Nat]
        BY <1>1, <4>1, <4>2 DEF Tcp!BridgeTypes, Tcp!Walked, Tcp!Overtaken, Tcp!TimesOut,
             Tcp!PeripheralDown
      <4> QED
        BY <1>1, <3>2, <4>3, <4>4 DEF Tcp!BridgeTypes, Tcp!TransactOnBus, Tcp!Places
    <3> QED
      BY <1>11, <3>1, <3>2
  <2>2. UNCHANGED Tcp!wire /\ UNCHANGED Tcp!peripheral /\ serving' = serving
    BY <1>11 DEF Tcp!ClientGone, Tcp!SendFails, Tcp!PowerDown, Tcp!TransactOnBus
  <2> QED
    BY <1>2, <1>4, <1>5, <2>1, <2>2 DEF Tcp!TypeOK, Tcp!peripheral
<1>12. CASE Tcp!ReceiveHeader \/ Tcp!Drain \/ Tcp!ReceiveBytes
  <2>1. serving \in Tcp!Connections /\ requests[serving] # <<>>
    BY <1>1, <1>12, ConnectionsMade
       DEF Tcp!ReceiveHeader, Tcp!Drain, Tcp!ReceiveBytes, Tcp!WaitsOnTheNewest, Tcp!Incoming
  <2>2. Head(requests[serving]) \in Tcp!Items /\ Tail(requests[serving]) \in Seq(Tcp!Items)
    BY <1>1, <2>1, HeadTailProperties DEF Tcp!WireTypes
  <2>3. Tcp!WireTypes'
    BY <1>1, <1>12, <2>2 DEF Tcp!WireTypes, Tcp!ReceiveHeader, Tcp!Drain, Tcp!ReceiveBytes,
         Tcp!Consume
  <2>4. header' \in Tcp!Transfers
    BY <1>1, <1>12, <2>2, MessageTypes
       DEF Tcp!BridgeTypes, Tcp!ReceiveHeader, Tcp!Drain, Tcp!ReceiveBytes, Tcp!Incoming
  <2>5. Tcp!BridgeTypes'
    BY <1>1, <1>12, <2>4 DEF Tcp!BridgeTypes, Tcp!ReceiveHeader, Tcp!Drain, Tcp!ReceiveBytes,
         Tcp!Places
  <2>6. UNCHANGED Tcp!peripheral /\ serving' = serving
    BY <1>12 DEF Tcp!ReceiveHeader, Tcp!Drain, Tcp!ReceiveBytes
  <2> QED
    BY <1>4, <1>5, <2>3, <2>5, <2>6 DEF Tcp!TypeOK, Tcp!peripheral
<1>13. CASE Tcp!Refuse \/ Tcp!SendAnswer \/ Tcp!SendReadBytes
  <2>1. serving \in Tcp!Connections
    BY <1>1, <1>13, ConnectionsMade DEF Tcp!Refuse, Tcp!SendAnswer, Tcp!SendReadBytes,
         Tcp!WaitsOnTheNewest
  <2>2. PICK of \in {header.id, bridgeResult.of}, ok \in BOOLEAN :
          responses' = [responses EXCEPT ![serving] = Append(@, Tcp!Reply(header, of, ok))]
    BY <1>13 DEF Tcp!Refuse, Tcp!SendAnswer, Tcp!SendReadBytes, Tcp!SendResult
  <2>3. Append(responses[serving], Tcp!Reply(header, of, ok)) \in Seq(Tcp!Replies)
    <3>1. of \in Nat
      BY <1>1, <2>2 DEF Tcp!BridgeTypes, Tcp!Transfers
    <3>2. Tcp!Reply(header, of, ok) \in Tcp!Replies
      BY <1>1, <2>2, <3>1, MessageTypes DEF Tcp!BridgeTypes
    <3> QED
      BY <1>1, <2>1, <3>2, AppendProperties DEF Tcp!WireTypes
  <2>4. Tcp!WireTypes'
    BY <1>1, <1>13, <2>2, <2>3 DEF Tcp!WireTypes, Tcp!Refuse, Tcp!SendAnswer, Tcp!SendReadBytes
  <2>5. Tcp!BridgeTypes'
    BY <1>1, <1>13 DEF Tcp!BridgeTypes, Tcp!Refuse, Tcp!SendAnswer, Tcp!SendReadBytes,
         Tcp!Places
  <2>6. UNCHANGED Tcp!peripheral /\ serving' = serving
    BY <1>13 DEF Tcp!Refuse, Tcp!SendAnswer, Tcp!SendReadBytes
  <2> QED
    BY <1>4, <1>5, <2>4, <2>5, <2>6 DEF Tcp!TypeOK, Tcp!peripheral
<1>14. CASE Tcp!Served
  <2>1. Tcp!WireTypes' /\ Tcp!BridgeTypes'
    BY <1>1, <1>14 DEF Tcp!WireTypes, Tcp!BridgeTypes, Tcp!Served, Tcp!Places
  <2>2. UNCHANGED Tcp!peripheral /\ serving' = serving
    BY <1>14 DEF Tcp!Served
  <2> QED
    BY <1>4, <1>5, <2>1, <2>2 DEF Tcp!TypeOK, Tcp!peripheral
<1>15. CASE UNCHANGED Tcp!vars
  BY <1>2, <1>3, <1>4, <1>5, <1>15 DEF Tcp!TypeOK, Tcp!vars, Tcp!peripheral, Tcp!bridge
<1> QED
  BY <1>6, <1>7, <1>8, <1>9, <1>10, <1>11, <1>12, <1>13, <1>14, <1>15
     DEF Tcp!Next, Tcp!Read, Tcp!FinishTransmission

\* The bridge goes from one connection to the next only when the peripheral has
\* left the one; the peripheral opens a new one only when it has left the last.
LEMMA NewestStep ==
  ASSUME MaxConnections \in Nat, Tcp!TypeOK, Tcp!WaitsOnTheNewest, [Tcp!Next]_(Tcp!vars)
  PROVE  Tcp!WaitsOnTheNewest'
<1> USE DEF Tcp!WaitsOnTheNewest, Tcp!None, Tcp!peripheral, Tcp!wire, Tcp!bridge
<1>1. CASE Tcp!Write \/ Tcp!CannotConnect
  BY <1>1 DEF Tcp!Write, Tcp!CannotConnect
<1>2. CASE Tcp!Read \/ Tcp!FinishTransmission
  <2>1. Tcp!EnsureConnected /\ UNCHANGED <<serving, bridgeAt>> /\ waiting = Tcp!Idle
    BY <1>2 DEF Tcp!Read, Tcp!FinishTransmission, Tcp!Transact
  <2>2. CASE client # Tcp!None /\ UNCHANGED <<client, connections, open>>
    BY <2>1, <2>2
  <2>3. CASE /\ client = Tcp!None /\ bridgeAt # "exited" /\ connections < MaxConnections
             /\ connections' = connections + 1 /\ client' = connections'
             /\ open' = [open EXCEPT ![client'] = TRUE]
    <3>1. client' # Tcp!None /\ serving # client' /\ open'[client']
      BY <2>3, ConnectionsMade DEF Tcp!TypeOK, Tcp!ConnectionTypes, Tcp!WireTypes
    <3> QED
      BY <2>1, <2>3, <3>1
  <2> QED
    BY <2>1, <2>2, <2>3 DEF Tcp!EnsureConnected
<1>3. CASE Tcp!ReceiveAnswer
  BY <1>3 DEF Tcp!ReceiveAnswer
<1>4. CASE Tcp!LoseAnswer \/ Tcp!ResetMachine
  BY <1>4 DEF Tcp!LoseAnswer, Tcp!ResetMachine, Tcp!Disconnect
<1>5. CASE Tcp!Accept \/ Tcp!PowerDown
  BY <1>5 DEF Tcp!Accept, Tcp!PowerDown, Tcp!TypeOK, Tcp!ConnectionTypes
<1>6. CASE Tcp!ClientGone \/ Tcp!SendFails
  BY <1>6 DEF Tcp!ClientGone, Tcp!SendFails
<1>7. CASE Tcp!ReceiveHeader \/ Tcp!Drain \/ Tcp!ReceiveBytes \/ Tcp!TransactOnBus
  BY <1>7 DEF Tcp!ReceiveHeader, Tcp!Drain, Tcp!ReceiveBytes, Tcp!TransactOnBus
<1>8. CASE Tcp!Refuse \/ Tcp!SendAnswer \/ Tcp!SendReadBytes
  BY <1>8 DEF Tcp!Refuse, Tcp!SendAnswer, Tcp!SendReadBytes
<1>9. CASE Tcp!Served
  BY <1>9 DEF Tcp!Served
<1>10. CASE UNCHANGED Tcp!vars
  BY <1>10 DEF Tcp!vars
<1> QED
  BY <1>1, <1>2, <1>3, <1>4, <1>5, <1>6, <1>7, <1>8, <1>9, <1>10 DEF Tcp!Next

\* Only what the peripheral sends and the bridge answers travels on a connection.
LEMMA NewOnesStep ==
  ASSUME MaxConnections \in Nat, Tcp!TypeOK, Tcp!WaitsOnTheNewest, Tcp!NewOnesAreEmpty,
         [Tcp!Next]_(Tcp!vars)
  PROVE  Tcp!NewOnesAreEmpty'
<1>1. /\ connections \in Nat /\ client <= connections /\ serving <= connections
      /\ connections' \in Nat /\ client' \in Nat /\ client' <= connections'
      /\ connections <= connections'
  <2>1. Tcp!TypeOK'
    BY BridgeTypesStay
  <2>2. connections' = connections \/ connections' = connections + 1
    BY DEF Tcp!Next, Tcp!Write, Tcp!Read, Tcp!FinishTransmission, Tcp!Transact,
         Tcp!EnsureConnected, Tcp!CannotConnect,
         Tcp!ReceiveAnswer, Tcp!LoseAnswer, Tcp!ResetMachine, Tcp!Accept, Tcp!ClientGone,
         Tcp!ReceiveHeader, Tcp!Drain,
         Tcp!Refuse, Tcp!ReceiveBytes, Tcp!TransactOnBus, Tcp!SendAnswer, Tcp!SendReadBytes,
         Tcp!SendFails, Tcp!Served,
         Tcp!PowerDown, Tcp!peripheral, Tcp!vars
  <2> QED
    BY <2>1, <2>2 DEF Tcp!TypeOK, Tcp!ConnectionTypes
<1>2. ASSUME NEW c \in Tcp!Connections, c > connections'
      PROVE  requests'[c] = requests[c] /\ responses'[c] = responses[c]
  <2>1. c # client /\ c # serving /\ c # client'
    BY <1>1, <1>2 DEF Tcp!Connections, Tcp!TypeOK, Tcp!ConnectionTypes
  <2>2. DOMAIN requests = Tcp!Connections /\ DOMAIN responses = Tcp!Connections
    BY DEF Tcp!TypeOK, Tcp!WireTypes
  <2>3. CASE Tcp!Read \/ Tcp!FinishTransmission
    BY <2>1, <2>2, <2>3 DEF Tcp!Read, Tcp!FinishTransmission, Tcp!Transact
  <2>4. CASE Tcp!ReceiveAnswer
    BY <2>1, <2>2, <2>4 DEF Tcp!ReceiveAnswer
  <2>5. CASE Tcp!ReceiveHeader \/ Tcp!Drain \/ Tcp!ReceiveBytes
    BY <2>1, <2>2, <2>5 DEF Tcp!ReceiveHeader, Tcp!Drain, Tcp!ReceiveBytes, Tcp!Consume
  <2>6. CASE Tcp!Refuse \/ Tcp!SendAnswer \/ Tcp!SendReadBytes
    BY <2>1, <2>2, <2>6 DEF Tcp!Refuse, Tcp!SendAnswer, Tcp!SendReadBytes, Tcp!SendResult
  <2>7. CASE \/ Tcp!Write \/ Tcp!CannotConnect \/ Tcp!LoseAnswer \/ Tcp!ResetMachine
             \/ Tcp!Accept \/ Tcp!ClientGone
             \/ Tcp!TransactOnBus \/ Tcp!SendFails \/ Tcp!Served \/ Tcp!PowerDown
             \/ UNCHANGED Tcp!vars
    BY <2>7 DEF Tcp!Write, Tcp!CannotConnect, Tcp!LoseAnswer, Tcp!ResetMachine, Tcp!Accept,
         Tcp!ClientGone, Tcp!TransactOnBus,
         Tcp!SendFails, Tcp!Served, Tcp!PowerDown, Tcp!wire, Tcp!vars
  <2> QED
    BY <2>3, <2>4, <2>5, <2>6, <2>7 DEF Tcp!Next
<1>3. \A c \in Tcp!Connections : c > connections' => c > connections
  BY <1>1 DEF Tcp!Connections
<1> QED
  BY <1>2, <1>3 DEF Tcp!NewOnesAreEmpty

\* An answer on its way is one the peripheral takes whole, and its own.
LEMMA OneAnswer ==
  ASSUME Tcp!Answered
  PROVE  /\ SubSeq(Tcp!Answer, Tcp!AnswerLength + 1, Len(Tcp!Answer)) = <<>>
         /\ Tcp!Answer[Tcp!AnswerLength].id = waiting.id
         /\ Tcp!Answer[Tcp!AnswerLength].of \in Tcp!Own
<1>1. PICK of \in Tcp!Own :
        \/ Tcp!Answer = <<Tcp!Reply(waiting, of, FALSE)>>
        \/ ~waiting.reads /\ Tcp!Answer = <<Tcp!Reply(waiting, of, TRUE)>>
        \/ /\ waiting.reads
           /\ Tcp!Answer = <<Tcp!Reply(waiting, of, TRUE), Tcp!Reply(waiting, of, TRUE)>>
  BY DEF Tcp!Answered, Tcp!Answer
<1>2. CASE Tcp!Answer = <<Tcp!Reply(waiting, of, FALSE)>>
  <2>1. Tcp!AnswerLength = 1
    BY <1>2 DEF Tcp!AnswerLength, Tcp!Reply
  <2> QED
    BY <1>2, <2>1, Pieces DEF Tcp!Reply
<1>3. CASE ~waiting.reads /\ Tcp!Answer = <<Tcp!Reply(waiting, of, TRUE)>>
  <2>1. Tcp!AnswerLength = 1
    BY <1>3 DEF Tcp!AnswerLength
  <2> QED
    BY <1>3, <2>1, Pieces DEF Tcp!Reply
<1>4. CASE /\ waiting.reads
           /\ Tcp!Answer = <<Tcp!Reply(waiting, of, TRUE), Tcp!Reply(waiting, of, TRUE)>>
  <2>1. Tcp!AnswerLength = 2
    BY <1>4 DEF Tcp!AnswerLength, Tcp!Reply
  <2> QED
    BY <1>4, <2>1, Pieces DEF Tcp!Reply
<1> QED
  BY <1>1, <1>2, <1>3, <1>4

\* A half of an answer is not taken for one.
LEMMA TakenWhenAnswered ==
  ASSUME MaxConnections \in Nat, Tcp!TransferInv, Tcp!ReceiveAnswer
  PROVE  Tcp!Answered
<1>1. waiting # Tcp!Idle /\ Tcp!Answer # <<>> /\ Len(Tcp!Answer) >= Tcp!AnswerLength
  BY DEF Tcp!ReceiveAnswer
<1>2. ASSUME Tcp!InTheBridge PROVE FALSE
  <2>1. waiting.reads /\ Tcp!Answer = <<Tcp!Reply(waiting, bridgeResult.of, TRUE)>>
    BY <1>1, <1>2 DEF Tcp!InTheBridge, Tcp!Answer
  <2>2. Len(Tcp!Answer) = 1 /\ Tcp!Answer[1].ok
    BY <2>1, Pieces DEF Tcp!Reply
  <2> QED
    BY <1>1, <2>1, <2>2 DEF Tcp!AnswerLength
<1> QED
  BY <1>1, <1>2 DEF Tcp!TransferInv, Tcp!WaitsOnTheNewest, Tcp!OneTransferOnTheWire, Tcp!Quiet,
       Tcp!Requested, Tcp!Answer

\* The peripheral's half of the dialogue: a request is sent on a quiet connection,
\* an answer taken whole, and a connection given up with what is on it.
LEMMA PeripheralStep ==
  ASSUME MaxConnections \in Nat, Tcp!TypeOK, Tcp!TransferInv,
         \/ Tcp!Write \/ Tcp!Read \/ Tcp!FinishTransmission \/ Tcp!CannotConnect
         \/ Tcp!ReceiveAnswer \/ Tcp!LoseAnswer \/ Tcp!ResetMachine
  PROVE  Tcp!OneTransferOnTheWire'
<1> USE DEF Tcp!OneTransferOnTheWire, Tcp!BetweenRequests, Tcp!None
<1>1. CASE Tcp!Write
  BY <1>1 DEF Tcp!Write, Tcp!TransferInv, Tcp!Quiet, Tcp!Requested, Tcp!InTheBridge,
       Tcp!Answered,
       Tcp!wire, Tcp!bridge
<1>2. CASE Tcp!CannotConnect \/ Tcp!LoseAnswer \/ Tcp!ResetMachine
  BY <1>2 DEF Tcp!CannotConnect, Tcp!LoseAnswer, Tcp!ResetMachine, Tcp!Disconnect
<1>3. ASSUME NEW reads \in BOOLEAN, Tcp!Transact(reads) PROVE Tcp!OneTransferOnTheWire'
  <2>1. waiting = Tcp!Idle /\ UNCHANGED <<responses, serving, bridgeAt, header>>
    BY <1>3 DEF Tcp!Transact, Tcp!bridge
  <2>2. /\ waiting'.id = transfers + 1
        /\ requests' = [requests EXCEPT ![client'] = @ \o Tcp!Request(waiting')]
    BY <1>3 DEF Tcp!Transact
  <2>3. waiting' # Tcp!Idle
    BY <2>2 DEF Tcp!TypeOK, Tcp!PeripheralTypes, Tcp!Idle
  <2>4. /\ client' \in Tcp!Connections
        /\ requests[client'] = <<>> /\ responses[client'] = <<>>
        /\ serving = client' => bridgeAt \in {"header", "served", "exited"}
    <3>1. Tcp!EnsureConnected
      BY <1>3 DEF Tcp!Transact
    <3>2. CASE client # Tcp!None /\ client' = client
      BY <2>1, <3>2, ConnectionsMade
         DEF Tcp!TypeOK, Tcp!TransferInv, Tcp!Quiet, Tcp!Requested, Tcp!InTheBridge, Tcp!Answered
    <3>3. CASE connections < MaxConnections /\ client' = connections + 1
      <4>1. client' \in Tcp!Connections /\ client' > connections /\ serving # client'
        BY <3>3, ConnectionsMade DEF Tcp!TypeOK, Tcp!ConnectionTypes
      <4> QED
        BY <4>1 DEF Tcp!TransferInv, Tcp!NewOnesAreEmpty
    <3> QED
      BY <3>1, <3>2, <3>3 DEF Tcp!EnsureConnected
  <2>5. requests'[client'] = Tcp!Request(waiting')
    <3>1. requests'[client'] = <<>> \o Tcp!Request(waiting')
      BY <2>2, <2>4 DEF Tcp!TypeOK, Tcp!WireTypes
    <3> QED
      BY <3>1, Pieces DEF Tcp!Request
  <2> QED
    BY <2>1, <2>3, <2>4, <2>5 DEF Tcp!Requested
<1>4. CASE Tcp!ReceiveAnswer
  <2>1. client \in Tcp!Connections
    BY <1>4, ConnectionsMade DEF Tcp!ReceiveAnswer, Tcp!TransferInv, Tcp!WaitsOnTheNewest,
         Tcp!TypeOK
  <2>2. Tcp!Answered
    BY <1>4, TakenWhenAnswered
  <2>3. SubSeq(Tcp!Answer, Tcp!AnswerLength + 1, Len(Tcp!Answer)) = <<>>
    BY <2>2, OneAnswer
  <2>4. /\ waiting' = Tcp!Idle /\ responses'[client] = <<>>
        /\ UNCHANGED <<client, requests, serving, bridgeAt, header>>
    BY <1>4, <2>1, <2>3 DEF Tcp!ReceiveAnswer, Tcp!Answer, Tcp!TypeOK, Tcp!WireTypes, Tcp!bridge
  <2> QED
    BY <2>2, <2>4 DEF Tcp!Answered, Tcp!Quiet
<1> QED
  BY <1>1, <1>2, <1>3, <1>4 DEF Tcp!Read, Tcp!FinishTransmission

\* The bridge's half: a request is read whole before it is answered, and answered
\* with its own number.
LEMMA BridgeStep ==
  ASSUME MaxConnections \in Nat, Tcp!TypeOK, Tcp!TransferInv,
         \/ Tcp!Accept \/ Tcp!ClientGone \/ Tcp!ReceiveHeader \/ Tcp!Drain \/ Tcp!Refuse
         \/ Tcp!ReceiveBytes
         \/ Tcp!TransactOnBus \/ Tcp!SendAnswer \/ Tcp!SendReadBytes \/ Tcp!SendFails
         \/ Tcp!Served \/ Tcp!PowerDown
  PROVE  Tcp!OneTransferOnTheWire'
<1> USE DEF Tcp!None, Tcp!peripheral, Tcp!wire
<1>1. SUFFICES ASSUME client # Tcp!None
               PROVE  (Tcp!Quiet \/ Tcp!Requested \/ Tcp!InTheBridge \/ Tcp!Answered)'
  <2>1. client' = client
    BY DEF Tcp!Accept, Tcp!ClientGone, Tcp!ReceiveHeader, Tcp!Drain, Tcp!Refuse,
         Tcp!ReceiveBytes,
         Tcp!TransactOnBus,
       Tcp!SendAnswer, Tcp!SendReadBytes, Tcp!SendFails, Tcp!Served, Tcp!PowerDown
  <2> QED
    BY <2>1 DEF Tcp!OneTransferOnTheWire
<1>2. /\ Tcp!Quiet \/ Tcp!Requested \/ Tcp!InTheBridge \/ Tcp!Answered
      /\ client \in Tcp!Connections
      /\ bridgeAt = "exited" \/ open[client]
      /\ serving = client => bridgeAt # "accept"
  BY <1>1, ConnectionsMade DEF Tcp!TransferInv, Tcp!OneTransferOnTheWire, Tcp!WaitsOnTheNewest,
       Tcp!TypeOK
<1>3. UNCHANGED <<waiting, client>>
  BY DEF Tcp!Accept, Tcp!ClientGone, Tcp!ReceiveHeader, Tcp!Drain, Tcp!Refuse, Tcp!ReceiveBytes,
       Tcp!TransactOnBus,
     Tcp!SendAnswer, Tcp!SendReadBytes, Tcp!SendFails, Tcp!Served, Tcp!PowerDown
<1>4. DOMAIN requests = Tcp!Connections /\ DOMAIN responses = Tcp!Connections
  BY DEF Tcp!TypeOK, Tcp!WireTypes
<1>5. CASE Tcp!Accept
  <2>1. serving # client /\ bridgeAt' = "header" /\ UNCHANGED Tcp!wire
    BY <1>2, <1>5 DEF Tcp!Accept
  <2> QED
    BY <1>2, <1>3, <2>1 DEF Tcp!Quiet, Tcp!Requested, Tcp!InTheBridge, Tcp!Answered,
         Tcp!BetweenRequests
<1>6. CASE Tcp!ClientGone \/ Tcp!SendFails \/ Tcp!PowerDown
  <2>1. /\ UNCHANGED Tcp!wire /\ UNCHANGED <<serving, header, bridgeResult, bus>>
        /\ serving = client => bridgeAt' = bridgeAt
    BY <1>2, <1>6 DEF Tcp!ClientGone, Tcp!SendFails, Tcp!PowerDown
  <2> QED
    BY <1>2, <1>3, <2>1 DEF Tcp!Quiet, Tcp!Requested, Tcp!InTheBridge, Tcp!Answered,
         Tcp!BetweenRequests, Tcp!Own
<1>7. CASE Tcp!ReceiveHeader
  <2>1. CASE serving # client
    <3>1. UNCHANGED <<serving, requests[client], responses>>
      BY <1>2, <1>4, <1>7, <2>1 DEF Tcp!ReceiveHeader, Tcp!Consume
    <3> QED
      BY <1>2, <1>3, <2>1, <3>1 DEF Tcp!Quiet, Tcp!Requested, Tcp!InTheBridge, Tcp!Answered,
           Tcp!BetweenRequests
  <2>2. CASE serving = client
    <3>1. Tcp!Requested /\ bridgeAt = "header"
      BY <1>2, <1>7, <2>2 DEF Tcp!ReceiveHeader, Tcp!Incoming, Tcp!Quiet, Tcp!InTheBridge,
           Tcp!Answered
    <3>2. Head(requests[client]) = Tcp!Piece("header", waiting)
          /\ Tail(requests[client]) = IF waiting.writes THEN <<Tcp!Piece("bytes", waiting)>> ELSE <<>>
      BY <3>1, Pieces DEF Tcp!Requested, Tcp!Request
    <3>3. header' = waiting /\ requests'[client] = Tail(requests[client])
          /\ UNCHANGED <<serving, responses>>
      BY <1>2, <1>4, <1>7, <2>2, <3>2 DEF Tcp!ReceiveHeader, Tcp!Incoming, Tcp!Consume,
           Tcp!HeaderIn, Tcp!Piece
    <3>4. bridgeAt' = IF waiting.long THEN IF waiting.writes THEN "drain" ELSE "refuse"
                ELSE IF waiting.writes THEN "bytes" ELSE "transact"
      BY <1>7, <3>3 DEF Tcp!ReceiveHeader
    <3>5. waiting # Tcp!Idle /\ responses[client] = <<>>
      BY <3>1 DEF Tcp!Requested
    <3> QED
      BY <1>3, <2>2, <3>2, <3>3, <3>4, <3>5 DEF Tcp!InTheBridge, Tcp!Piece
  <2> QED
    BY <2>1, <2>2
<1>8. CASE Tcp!Drain \/ Tcp!ReceiveBytes
  <2>1. CASE serving # client
    <3>1. UNCHANGED <<serving, requests[client], responses>>
      BY <1>2, <1>4, <1>8, <2>1 DEF Tcp!Drain, Tcp!ReceiveBytes, Tcp!Consume
    <3> QED
      BY <1>2, <1>3, <2>1, <3>1 DEF Tcp!Quiet, Tcp!Requested, Tcp!InTheBridge, Tcp!Answered,
           Tcp!BetweenRequests
  <2>2. CASE serving = client
    <3>1. Tcp!InTheBridge /\ requests[client] = <<Tcp!Piece("bytes", waiting)>> /\ responses[client] = <<>>
      BY <1>2, <1>8, <2>2 DEF Tcp!Drain, Tcp!ReceiveBytes, Tcp!Incoming, Tcp!Quiet,
           Tcp!Requested,
           Tcp!InTheBridge, Tcp!Answered,
           Tcp!BetweenRequests
    <3>2. /\ requests'[client] = <<>> /\ UNCHANGED <<serving, header, responses>>
          /\ bridgeAt' \in {"refuse", "transact"}
      BY <1>2, <1>4, <1>8, <2>2, <3>1, Pieces DEF Tcp!Drain, Tcp!ReceiveBytes, Tcp!Consume
    <3> QED
      BY <1>3, <3>1, <3>2 DEF Tcp!InTheBridge
  <2> QED
    BY <2>1, <2>2
<1>9. CASE Tcp!Refuse \/ Tcp!SendAnswer \/ Tcp!SendReadBytes
  <2>1. CASE serving # client
    <3>1. UNCHANGED <<serving, requests, responses[client]>>
      BY <1>2, <1>4, <1>9, <2>1 DEF Tcp!Refuse, Tcp!SendAnswer, Tcp!SendReadBytes,
           Tcp!SendResult
    <3> QED
      BY <1>2, <1>3, <2>1, <3>1 DEF Tcp!Quiet, Tcp!Requested, Tcp!InTheBridge, Tcp!Answered,
           Tcp!BetweenRequests
  <2>2. CASE serving = client
    <3>1. Tcp!InTheBridge /\ header = waiting /\ waiting # Tcp!Idle /\ requests[client] = <<>>
      BY <1>2, <1>9, <2>2 DEF Tcp!Refuse, Tcp!SendAnswer, Tcp!SendReadBytes, Tcp!Quiet,
           Tcp!Requested, Tcp!InTheBridge,
           Tcp!Answered, Tcp!BetweenRequests
    <3>2. UNCHANGED <<serving, header, requests, bridgeResult, bus>> /\ Tcp!Own' = Tcp!Own
      BY <1>3, <1>9 DEF Tcp!Refuse, Tcp!SendAnswer, Tcp!SendReadBytes, Tcp!Own
    <3> DEFINE of == bridgeResult.of
    <3>3. CASE Tcp!Refuse
      <4>1. /\ responses'[client] = <<Tcp!Reply(waiting, waiting.id, FALSE)>>
            /\ bridgeAt' = "header"
        BY <1>2, <1>4, <2>2, <3>1, <3>3, Pieces DEF Tcp!Refuse, Tcp!SendResult, Tcp!InTheBridge
      <4>2. waiting.id \in Tcp!Own
        BY DEF Tcp!Own
      <4> QED
        BY <1>3, <2>2, <3>1, <3>2, <4>1, <4>2 DEF Tcp!Answered
    <3>4. CASE Tcp!SendAnswer
      <4>1. /\ responses'[client] = <<Tcp!Reply(waiting, of, bridgeResult.code = "Ok")>>
            /\ of \in Tcp!Own
        BY <1>2, <1>4, <2>2, <3>1, <3>4, Pieces DEF Tcp!SendAnswer, Tcp!SendResult,
             Tcp!InTheBridge
      <4> HIDE DEF of
      <4>2. CASE bridgeResult.code = "Ok" /\ waiting.reads
        <5>1. /\ responses'[client] = <<Tcp!Reply(waiting, of, TRUE)>>
              /\ of = bridgeResult.of /\ bridgeAt' = "answerBytes"
          BY <3>1, <3>4, <4>1, <4>2 DEF Tcp!SendAnswer, of
        <5> QED
          BY <1>3, <2>2, <3>1, <3>2, <4>1, <4>2, <5>1 DEF Tcp!InTheBridge
      <4>3. CASE ~(bridgeResult.code = "Ok" /\ waiting.reads)
        <5>1. bridgeAt' = "served"
          BY <3>1, <3>4, <4>3 DEF Tcp!SendAnswer
        <5>2. CASE bridgeResult.code = "Ok"
          BY <1>3, <2>2, <3>1, <3>2, <4>1, <4>3, <5>1, <5>2 DEF Tcp!Answered
        <5>3. CASE bridgeResult.code # "Ok"
          <6>1. (bridgeResult.code = "Ok") = FALSE
            BY <5>3
          <6> QED
            BY <1>3, <2>2, <3>1, <3>2, <4>1, <5>1, <6>1 DEF Tcp!Answered
        <5> QED
          BY <5>2, <5>3
      <4> QED
        BY <4>2, <4>3
    <3>5. CASE Tcp!SendReadBytes
      <4>1. /\ waiting.reads /\ responses[client] = <<Tcp!Reply(waiting, of, TRUE)>>
            /\ of \in Tcp!Own
        BY <3>1, <3>5 DEF Tcp!SendReadBytes, Tcp!InTheBridge
      <4>2. /\ responses'[client] = <<Tcp!Reply(waiting, of, TRUE), Tcp!Reply(waiting, of, TRUE)>>
            /\ bridgeAt' = "served"
        BY <1>2, <1>4, <2>2, <3>1, <3>5, <4>1, AppendSecond DEF Tcp!SendReadBytes,
             Tcp!SendResult
      <4> HIDE DEF of
      <4> QED
        BY <1>3, <2>2, <3>1, <3>2, <4>1, <4>2 DEF Tcp!Answered
    <3> QED
      BY <1>9, <3>3, <3>4, <3>5
  <2> QED
    BY <2>1, <2>2
<1>10. CASE Tcp!TransactOnBus
  <2>1. /\ bridgeAt = "transact" /\ bridgeAt' = "answer"
        /\ UNCHANGED <<serving, header, requests, responses>>
    BY <1>10 DEF Tcp!TransactOnBus
  <2>2. ASSUME header = waiting PROVE bridgeResult'.of \in Tcp!Own'
    <3>1. bus \in [late : Nat, abandoned : SUBSET Nat]
      BY DEF Tcp!TypeOK, Tcp!BridgeTypes
    <3>2. CASE Tcp!Walked \/ Tcp!TimesOut \/ Tcp!PeripheralDown
      BY <1>3, <2>2, <3>2 DEF Tcp!Walked, Tcp!TimesOut, Tcp!PeripheralDown, Tcp!Own
    <3>3. CASE Tcp!Overtaken
      <4>1. bus'.abandoned = bus.abandoned /\ bridgeResult'.of = bus.late
        BY <3>1, <3>3 DEF Tcp!Overtaken
      <4>2. bus.late \in bus.abandoned
        BY <3>3 DEF Tcp!Overtaken, Tcp!TransferInv, Tcp!LateWasAbandoned
      <4> QED
        BY <4>1, <4>2 DEF Tcp!Own
    <3> QED
      BY <1>10, <3>2, <3>3 DEF Tcp!TransactOnBus
  <2> QED
    BY <1>2, <1>3, <2>1, <2>2 DEF Tcp!Quiet, Tcp!Requested, Tcp!InTheBridge, Tcp!Answered,
         Tcp!BetweenRequests
<1>11. CASE Tcp!Served
  <2>1. /\ bridgeAt = "served" /\ bridgeAt' \in {"header", "exited"}
        /\ UNCHANGED <<serving, header, requests, responses, bus>>
    BY <1>11 DEF Tcp!Served
  <2> QED
    BY <1>2, <1>3, <2>1 DEF Tcp!Quiet, Tcp!Requested, Tcp!InTheBridge, Tcp!Answered,
         Tcp!BetweenRequests, Tcp!Own
<1> QED
  BY <1>5, <1>6, <1>7, <1>8, <1>9, <1>10, <1>11

\* Only calls given up are late, whichever way a transaction ends.
LEMMA LateStep ==
  ASSUME Tcp!TypeOK, Tcp!LateWasAbandoned, [Tcp!Next]_(Tcp!vars)
  PROVE  Tcp!LateWasAbandoned'
<1> USE DEF Tcp!LateWasAbandoned
<1>1. CASE Tcp!TransactOnBus
  <2>1. bus \in [late : Nat, abandoned : SUBSET Nat]
    BY DEF Tcp!TypeOK, Tcp!BridgeTypes
  <2>2. CASE Tcp!Walked \/ Tcp!Overtaken
    <3>1. bus'.late = Tcp!None
      BY <2>1, <2>2 DEF Tcp!Walked, Tcp!Overtaken
    <3> QED
      BY <3>1
  <2>3. CASE Tcp!TimesOut
    BY <2>1, <2>3 DEF Tcp!TimesOut
  <2>4. CASE Tcp!PeripheralDown
    BY <2>4 DEF Tcp!PeripheralDown
  <2> QED
    BY <1>1, <2>2, <2>3, <2>4 DEF Tcp!TransactOnBus
<1>2. CASE ~Tcp!TransactOnBus
  <2>1. UNCHANGED bus
    BY <1>2 DEF Tcp!Next, Tcp!Write, Tcp!Read, Tcp!FinishTransmission, Tcp!Transact,
       Tcp!CannotConnect, Tcp!ReceiveAnswer, Tcp!LoseAnswer, Tcp!ResetMachine, Tcp!Accept,
       Tcp!ClientGone, Tcp!ReceiveHeader, Tcp!Drain, Tcp!Refuse, Tcp!ReceiveBytes,
       Tcp!SendAnswer, Tcp!SendReadBytes, Tcp!SendFails, Tcp!Served, Tcp!PowerDown,
       Tcp!bridge, Tcp!vars
  <2> QED
    BY <2>1
<1> QED
  BY <1>1, <1>2

\* What travels on the connection the peripheral waits on is framed for the transfer
\* it waits for and tells of that transfer or of one given up, through timeouts,
\* resets, refusals, bus faults and the end of the bridge.
THEOREM TransferInvariant ==
  ASSUME MaxConnections \in Nat
  PROVE  Tcp!Spec => [](Tcp!TypeOK /\ Tcp!TransferInv)
<1>1. Tcp!Init => Tcp!TypeOK /\ Tcp!TransferInv
  <2> SUFFICES ASSUME Tcp!Init PROVE Tcp!TypeOK /\ Tcp!TransferInv
    OBVIOUS
  <2>1. Tcp!TypeOK
    <3>1. Tcp!PeripheralTypes /\ Tcp!ConnectionTypes
      <4>1. Tcp!Idle \in Tcp!Transfers /\ Tcp!Floating \in Tcp!Replies
        BY MessageTypes
      <4>2. Tcp!PeripheralTypes
        BY <4>1 DEF Tcp!Init, Tcp!PeripheralTypes
      <4>3. Tcp!ConnectionTypes
        BY DEF Tcp!Init, Tcp!ConnectionTypes, Tcp!None
      <4> QED
        BY <4>2, <4>3
    <3>2. Tcp!WireTypes
      BY DEF Tcp!Init, Tcp!WireTypes
    <3>3. Tcp!BridgeTypes
      BY MessageTypes DEF Tcp!Init, Tcp!BridgeTypes, Tcp!Places, Tcp!None
    <3> QED
      BY <3>1, <3>2, <3>3 DEF Tcp!TypeOK
  <2> QED
    BY <2>1 DEF Tcp!Init, Tcp!TransferInv, Tcp!WaitsOnTheNewest, Tcp!NewOnesAreEmpty,
         Tcp!OneTransferOnTheWire, Tcp!LateWasAbandoned, Tcp!None
<1>2. Tcp!TypeOK /\ Tcp!TransferInv /\ [Tcp!Next]_(Tcp!vars) => (Tcp!TypeOK /\ Tcp!TransferInv)'
  <2> SUFFICES ASSUME Tcp!TypeOK, Tcp!TransferInv, [Tcp!Next]_(Tcp!vars)
               PROVE  (Tcp!TypeOK /\ Tcp!TransferInv)'
    OBVIOUS
  <2>1. /\ Tcp!TypeOK' /\ Tcp!WaitsOnTheNewest' /\ Tcp!NewOnesAreEmpty'
        /\ Tcp!LateWasAbandoned'
    BY BridgeTypesStay, NewestStep, NewOnesStep, LateStep DEF Tcp!TransferInv
  <2> SUFFICES Tcp!OneTransferOnTheWire'
    BY <2>1 DEF Tcp!TransferInv
  <2>2. CASE UNCHANGED Tcp!vars
    <3>1. /\ UNCHANGED <<waiting, client, requests, responses, serving, bridgeAt, header>>
          /\ UNCHANGED <<bridgeResult, bus>>
      BY <2>2 DEF Tcp!vars, Tcp!peripheral, Tcp!wire, Tcp!bridge
    <3>2. (Tcp!Quiet \/ Tcp!Requested \/ Tcp!InTheBridge \/ Tcp!Answered)'
          <=> (Tcp!Quiet \/ Tcp!Requested \/ Tcp!InTheBridge \/ Tcp!Answered)
      BY <3>1 DEF Tcp!Quiet, Tcp!Requested, Tcp!InTheBridge, Tcp!Answered, Tcp!BetweenRequests,
           Tcp!Own
    <3> QED
      BY <3>1, <3>2 DEF Tcp!TransferInv, Tcp!OneTransferOnTheWire
  <2>3. CASE Tcp!Next
    <3>1. CASE \/ Tcp!Write \/ Tcp!Read \/ Tcp!FinishTransmission \/ Tcp!CannotConnect
               \/ Tcp!ReceiveAnswer \/ Tcp!LoseAnswer \/ Tcp!ResetMachine
      BY <3>1, PeripheralStep
    <3>2. CASE \/ Tcp!Accept \/ Tcp!ClientGone \/ Tcp!ReceiveHeader \/ Tcp!Drain \/ Tcp!Refuse
               \/ Tcp!ReceiveBytes
               \/ Tcp!TransactOnBus \/ Tcp!SendAnswer \/ Tcp!SendReadBytes \/ Tcp!SendFails
               \/ Tcp!Served \/ Tcp!PowerDown
      BY <3>2, BridgeStep
    <3> QED
      BY <2>3, <3>1, <3>2 DEF Tcp!Next
  <2> QED
    BY <2>2, <2>3
<1> QED
  BY <1>1, <1>2, PTL DEF Tcp!Spec

\* The firmware is given the answer to the transfer it made, or, where a call timed
\* out on the bus and the bridge carried on, what the part made of a call given up;
\* never anything else, however many were given up and however late their answers.
THEOREM AnswersAreTheirs ==
  ASSUME MaxConnections \in Nat PROVE Tcp!Spec => [][Tcp!AnswersThisTransfer]_(Tcp!vars)
<1>1. Tcp!TypeOK /\ Tcp!TransferInv /\ Tcp!Next => Tcp!AnswersThisTransfer
  <2> SUFFICES ASSUME Tcp!TypeOK, Tcp!TransferInv, Tcp!ReceiveAnswer
               PROVE  given'.id = waiting.id /\ given'.of \in Tcp!Own
    BY DEF Tcp!AnswersThisTransfer
  <2>1. Tcp!Answered
    BY TakenWhenAnswered
  <2>2. client \in Tcp!Connections
    BY ConnectionsMade DEF Tcp!ReceiveAnswer, Tcp!TransferInv, Tcp!WaitsOnTheNewest, Tcp!TypeOK
  <2>3. /\ Tcp!AnswerLength \in {1, 2} /\ Len(Tcp!Answer) >= Tcp!AnswerLength
        /\ Tcp!Answer \in Seq(Tcp!Replies)
    BY <2>2 DEF Tcp!ReceiveAnswer, Tcp!AnswerLength, Tcp!Answer, Tcp!TypeOK, Tcp!WireTypes
  <2>4. Tcp!Answer[Tcp!AnswerLength] \in Tcp!Replies
    BY <2>3, AnswerIsAReply
  <2>5. given' = [Tcp!Answer[Tcp!AnswerLength] EXCEPT !.ok = Tcp!Answer[1].ok]
    BY DEF Tcp!ReceiveAnswer
  <2>6. /\ given'.id = Tcp!Answer[Tcp!AnswerLength].id
        /\ given'.of = Tcp!Answer[Tcp!AnswerLength].of
    BY <2>4, <2>5 DEF Tcp!Replies
  <2> QED
    BY <2>1, <2>6, OneAnswer
<1> QED
  BY <1>1, TransferInvariant, PTL DEF Tcp!Spec

(***************************************************************************)
(* The flight computers: what the host sends is counted, queued or lost,   *)
(* and the final rounds leave nothing queued that was sent before them.    *)
(***************************************************************************)
\* A drain takes something, and what the host and the sockets count is natural.
FlightBounds ==
  SamplesPerStep \in Nat /\ SocketCapacity \in Nat /\ Batch \in Nat \ {0}

\* The steps that leave the sockets, the host and both counts alone.
BringsUp ==
  \/ Flight!ParseArgs \/ Flight!AttachBuses \/ Flight!ProbeImuBaro \/ Flight!BeginMagProbe
  \/ Flight!EndMagProbe \/ Flight!OpenLogs
FlightPolls == Flight!PollImu \/ Flight!PollBaro \/ Flight!PollMag

\* The counters, apart from the rest of the type invariant.
LEMMA FlightCounters ==
  Flight!TypeOK => /\ epochs \in Nat /\ lostEpochs \in Nat /\ lostReturns \in Nat /\ radaltSocket \in Nat
            /\ fixes \in Nat /\ returns \in Nat /\ drained \in Nat
            /\ before[1] \in Nat /\ before[2] \in Nat
            /\ gpsSocket \in Seq(Nat) /\ Len(gpsSocket) \in Nat
  BY DEF Flight!TypeOK

\* A datagram that is queued makes the socket one longer, one taken one shorter.
LEMMA Queueing ==
  ASSUME NEW s \in Seq(Nat)
  PROVE  /\ \A n \in Nat : Append(s, n) \in Seq(Nat) /\ Len(Append(s, n)) = Len(s) + 1
         /\ s # <<>> => Tail(s) \in Seq(Nat) /\ Len(Tail(s)) = Len(s) - 1 /\ Head(s) \in Nat
  BY HeadTailProperties, LenProperties

\* A step of the radar altimeter's FMU has at least one return.
LEMMA ReturnsIsNat == FlightBounds => Flight!Returns \in Nat
  BY DEF FlightBounds, Flight!Returns

\* What a step of the host does to the radar altimeter's socket.
LEMMA RoomForReturns ==
  ASSUME FlightBounds, Flight!TypeOK, Flight!RadaltIsBound
  PROVE  /\ Flight!Taken \in Nat /\ Flight!Taken <= Flight!Returns
         /\ radaltSocket + Flight!Taken <= SocketCapacity
         /\ ~Flight!HasRadalt => Flight!Taken = 0
<1>1. /\ Flight!Room \in Nat /\ radaltSocket + Flight!Room <= SocketCapacity
      /\ ~Flight!HasRadalt => Flight!Room = 0
  BY DEF FlightBounds, Flight!TypeOK, Flight!RadaltIsBound, Flight!Room
<1>2. Flight!Taken \in Nat /\ Flight!Taken <= Flight!Returns /\ Flight!Taken <= Flight!Room
  BY <1>1, ReturnsIsNat DEF Flight!Taken
<1> QED
  BY <1>1, <1>2 DEF FlightBounds, Flight!TypeOK

\* Every step of main() is one of these, whichever program it is.
LEMMA ComputerSteps ==
  Flight!Computer =>
    \/ BringsUp \/ FlightPolls \/ Flight!BindGps \/ (Flight!HasRadalt /\ Flight!BindRadalt)
    \/ Flight!LeaveLoop \/ Flight!StayInLoop
    \/ Flight!FeedGps \/ Flight!GpsDrained \/ (Flight!HasRadalt /\ (Flight!FeedRadalt \/ Flight!RadaltDrained))
    \/ Flight!FinalRound \/ Flight!Summary
  BY DEF Flight!Computer, Flight!F16, Flight!HasRadalt, BringsUp, FlightPolls,
       Flight!RocketParseArgs, Flight!RocketBind,
     Flight!RocketBringUp, Flight!RocketOpenLogs, Flight!RocketDrainGps, Flight!RocketPollImu,
     Flight!RocketPollBaro,
     Flight!RocketPollMag, Flight!RocketLoop, Flight!RocketFinish

\* Every counter, socket and place keeps its type.
LEMMA FlightTypesStay ==
  FlightBounds /\ Flight!TypeOK /\ Flight!RadaltIsBound /\ [Flight!Next]_(Flight!vars) => Flight!TypeOK'
<1> SUFFICES ASSUME FlightBounds, Flight!TypeOK, Flight!RadaltIsBound, [Flight!Next]_(Flight!vars)
             PROVE  Flight!TypeOK'
  OBVIOUS
<1> USE DEF Flight!TypeOK, Flight!Goto, Flight!Fail, Flight!hostVars, Flight!sockets,
     Flight!bringUp, Flight!counts, Flight!flight
<1>1. CASE Flight!HostStart \/ Flight!HostTerminate
  BY <1>1 DEF Flight!HostStart, Flight!HostTerminate
<1>2. CASE Flight!HostStep
  <2>1. epochs' = epochs + 1 /\ lostReturns' = lostReturns + Flight!Returns - Flight!Taken
        /\ radaltSocket' = radaltSocket + Flight!Taken
    BY <1>2 DEF Flight!HostStep
  <2>2. \/ gpsSocket' = Append(gpsSocket, epochs') /\ lostEpochs' = lostEpochs
        \/ gpsSocket' = gpsSocket /\ lostEpochs' = lostEpochs + 1
    BY <1>2 DEF Flight!HostStep
  <2>3. epochs' \in Nat /\ lostReturns' \in Nat /\ radaltSocket' \in Nat
    BY <2>1, RoomForReturns, ReturnsIsNat
  <2>4. gpsSocket' \in Seq(Nat) /\ lostEpochs' \in Nat
    <3>1. gpsSocket \in Seq(Nat) /\ lostEpochs \in Nat
      BY FlightCounters
    <3>2. Append(gpsSocket, epochs') \in Seq(Nat)
      BY <2>3, <3>1, Queueing
    <3>3. CASE gpsSocket' = Append(gpsSocket, epochs') /\ lostEpochs' = lostEpochs
      BY <3>1, <3>2, <3>3
    <3>4. CASE gpsSocket' = gpsSocket /\ lostEpochs' = lostEpochs + 1
      BY <3>1, <3>4
    <3> QED
      BY <2>2, <3>3, <3>4
  <2> QED
    BY <1>2, <2>3, <2>4 DEF Flight!HostStep
<1>3. CASE BringsUp
  BY <1>3 DEF BringsUp, Flight!ParseArgs, Flight!AttachBuses, Flight!ProbeImuBaro,
       Flight!BeginMagProbe, Flight!EndMagProbe,
       Flight!OpenLogs, Flight!Places, Flight!Done
<1>4. CASE FlightPolls
  BY <1>4 DEF FlightPolls, Flight!PollImu, Flight!PollBaro, Flight!PollMag, Flight!Poll,
       Flight!TakeSample, Flight!NothingNew, Flight!Places
<1>5. CASE Flight!BindGps \/ Flight!BindRadalt
  BY <1>5 DEF Flight!BindGps, Flight!BindRadalt, Flight!CreateReceiver, Flight!Places,
       Flight!Done
<1>6. CASE Flight!LeaveLoop
  BY <1>6 DEF Flight!LeaveLoop, Flight!Places
<1>7. CASE Flight!StayInLoop
  BY <1>7 DEF Flight!StayInLoop, Flight!Places
<1>8. CASE Flight!FeedGps
  BY <1>8, HeadTailProperties DEF Flight!FeedGps, Flight!Receives
<1>9. CASE Flight!FeedRadalt
  BY <1>9 DEF Flight!FeedRadalt, Flight!Receives
<1>10. CASE Flight!GpsDrained \/ Flight!RadaltDrained
  BY <1>10 DEF Flight!GpsDrained, Flight!RadaltDrained, Flight!AfterDrains, Flight!Places
<1>11. CASE Flight!FinalRound
  BY <1>11 DEF Flight!FinalRound, Flight!Places
<1>12. CASE Flight!Summary
  BY <1>12 DEF Flight!Summary, Flight!Places, Flight!Done
<1>13. CASE UNCHANGED Flight!vars
  BY <1>13 DEF Flight!vars
<1> QED
  BY <1>1, <1>2, <1>3, <1>4, <1>5, <1>6, <1>7, <1>8, <1>9, <1>10, <1>11, <1>12, <1>13,
     ComputerSteps DEF Flight!Next

\* Only the radar altimeter's drain and its port fill and empty its socket.
LEMMA RadaltStep ==
  FlightBounds /\ Flight!TypeOK /\ Flight!RadaltIsBound /\ [Flight!Next]_(Flight!vars) => Flight!RadaltIsBound'
<1> SUFFICES ASSUME FlightBounds, Flight!TypeOK, Flight!RadaltIsBound, [Flight!Next]_(Flight!vars)
             PROVE  Flight!RadaltIsBound'
  OBVIOUS
<1> USE DEF Flight!RadaltIsBound, Flight!HasRadalt, Flight!Goto, Flight!Fail, Flight!hostVars,
     Flight!sockets
<1>1. CASE Flight!HostStart \/ Flight!HostTerminate
  BY <1>1 DEF Flight!HostStart, Flight!HostTerminate
<1>2. CASE Flight!HostStep
  <2>1. UNCHANGED <<program, bound, flightAt>> /\ radaltSocket' = radaltSocket + Flight!Taken
    BY <1>2 DEF Flight!HostStep
  <2> QED
    BY <2>1, RoomForReturns DEF Flight!TypeOK
<1>3. CASE BringsUp
  BY <1>3 DEF BringsUp, Flight!ParseArgs, Flight!AttachBuses, Flight!ProbeImuBaro,
       Flight!BeginMagProbe, Flight!EndMagProbe,
       Flight!OpenLogs
<1>4. CASE FlightPolls
  BY <1>4 DEF FlightPolls, Flight!PollImu, Flight!PollBaro, Flight!PollMag, Flight!Poll,
       Flight!TakeSample, Flight!NothingNew
<1>5. CASE Flight!BindGps \/ (Flight!HasRadalt /\ Flight!BindRadalt)
  BY <1>5 DEF Flight!BindGps, Flight!BindRadalt, Flight!CreateReceiver
<1>6. CASE \/ Flight!LeaveLoop \/ Flight!StayInLoop \/ Flight!FeedGps \/ Flight!FinalRound
           \/ Flight!Summary
  BY <1>6 DEF Flight!LeaveLoop, Flight!StayInLoop, Flight!FeedGps, Flight!FinalRound,
       Flight!Summary
<1>7. CASE Flight!GpsDrained \/ Flight!RadaltDrained
  BY <1>7 DEF Flight!GpsDrained, Flight!RadaltDrained, Flight!AfterDrains
<1>8. CASE Flight!FeedRadalt
  BY <1>8 DEF Flight!FeedRadalt, Flight!Receives, Flight!TypeOK, FlightBounds
<1>9. CASE UNCHANGED Flight!vars
  BY <1>9 DEF Flight!vars
<1> QED
  BY <1>1, <1>2, <1>3, <1>4, <1>5, <1>6, <1>7, <1>8, <1>9, ComputerSteps DEF Flight!Next

\* The sums of AllAccountedFor after one more epoch.
LEMMA OneMore ==
  ASSUME NEW f \in Nat, NEW q \in Nat, NEW l \in Nat, NEW e \in Nat, f + q + l = e
  PROVE  f + (q + 1) + l = e + 1 /\ f + q + (l + 1) = e + 1
  OBVIOUS

\* A step's returns, the drained and the lost together, are one step's more.
LEMMA OneStepMore ==
  ASSUME NEW c \in Nat, NEW q \in Nat, NEW l \in Nat, NEW e \in Nat, NEW r \in Nat,
         NEW t \in Nat, t <= r, c + q + l = e * r
  PROVE  c + (q + t) + (l + r - t) = (e + 1) * r
<1>1. (e + 1) * r = e * r + r
  OBVIOUS
<1> QED
  BY <1>1

\* A step of the host sends one epoch and the returns of a step; a step of main()
\* takes a datagram and counts it, or touches neither.
LEMMA AccountStep ==
  /\ FlightBounds /\ Flight!TypeOK /\ Flight!RadaltIsBound /\ Flight!AllAccountedFor
  /\ [Flight!Next]_(Flight!vars)
  => Flight!AllAccountedFor'
<1> SUFFICES ASSUME FlightBounds, Flight!TypeOK, Flight!RadaltIsBound, Flight!AllAccountedFor,
                    [Flight!Next]_(Flight!vars)
             PROVE  Flight!AllAccountedFor'
  OBVIOUS
<1>a. Flight!Returns \in Nat /\ Flight!Returns' = Flight!Returns
  BY ReturnsIsNat DEF Flight!Returns
<1>b. /\ epochs \in Nat /\ lostEpochs \in Nat /\ lostReturns \in Nat /\ radaltSocket \in Nat
      /\ fixes \in Nat /\ returns \in Nat /\ gpsSocket \in Seq(Nat) /\ Len(gpsSocket) \in Nat
  BY FlightCounters
<1>c. /\ epochs' \in Nat /\ lostEpochs' \in Nat /\ lostReturns' \in Nat /\ radaltSocket' \in Nat
      /\ fixes' \in Nat /\ returns' \in Nat /\ Len(gpsSocket') \in Nat
  BY FlightTypesStay DEF Flight!TypeOK
<1>d. fixes + Len(gpsSocket) + lostEpochs = epochs
  BY DEF Flight!AllAccountedFor
<1>e. returns + radaltSocket + lostReturns = epochs * Flight!Returns
  BY DEF Flight!AllAccountedFor
<1> SUFFICES /\ fixes' + Len(gpsSocket') + lostEpochs' = epochs'
             /\ returns' + radaltSocket' + lostReturns' = epochs' * Flight!Returns
  BY <1>a DEF Flight!AllAccountedFor
<1> USE DEF Flight!hostVars, Flight!sockets, Flight!counts, Flight!flight
<1>1. CASE Flight!HostStep
  <2>1. epochs' = epochs + 1 /\ lostReturns' = lostReturns + Flight!Returns - Flight!Taken
        /\ radaltSocket' = radaltSocket + Flight!Taken /\ fixes' = fixes /\ returns' = returns
    BY <1>1 DEF Flight!HostStep
  <2>2. fixes' + Len(gpsSocket') + lostEpochs' = epochs'
    <3>1. /\ fixes + (Len(gpsSocket) + 1) + lostEpochs = epochs + 1
          /\ fixes + Len(gpsSocket) + (lostEpochs + 1) = epochs + 1
      BY <1>b, <1>d, OneMore
    <3>2. CASE gpsSocket' = Append(gpsSocket, epochs') /\ lostEpochs' = lostEpochs
      <4>1. Len(gpsSocket') = Len(gpsSocket) + 1
        BY <1>b, <1>c, <3>2, Queueing
      <4> QED
        BY <2>1, <3>1, <3>2, <4>1
    <3>3. CASE gpsSocket' = gpsSocket /\ lostEpochs' = lostEpochs + 1
      BY <2>1, <3>1, <3>3
    <3> QED
      BY <1>1, <3>2, <3>3 DEF Flight!HostStep
  <2>3. returns' + radaltSocket' + lostReturns' = epochs' * Flight!Returns
    <3>1. Flight!Taken \in Nat /\ Flight!Taken <= Flight!Returns
      BY RoomForReturns
    <3>2. returns + (radaltSocket + Flight!Taken) + (lostReturns + Flight!Returns - Flight!Taken)
            = (epochs + 1) * Flight!Returns
      BY <1>a, <1>b, <1>e, <3>1, OneStepMore
    <3> QED
      BY <2>1, <3>2
  <2> QED
    BY <2>2, <2>3
<1>2. CASE Flight!FeedGps
  <2>1. gpsSocket # <<>> /\ gpsSocket' = Tail(gpsSocket) /\ fixes' = fixes + 1
        /\ UNCHANGED <<epochs, lostEpochs, lostReturns, radaltSocket, returns>>
    BY <1>2 DEF Flight!FeedGps, Flight!Receives
  <2>2. Len(gpsSocket') = Len(gpsSocket) - 1
    BY <1>b, <2>1, Queueing
  <2>3. (fixes + 1) + (Len(gpsSocket) - 1) + lostEpochs = epochs
    BY <1>b, <1>d
  <2> QED
    BY <1>e, <2>1, <2>2, <2>3
<1>3. CASE Flight!FeedRadalt
  <2>1. radaltSocket' = radaltSocket - 1 /\ returns' = returns + 1
        /\ UNCHANGED <<epochs, lostEpochs, lostReturns, gpsSocket, fixes>>
    BY <1>3 DEF Flight!FeedRadalt
  <2>2. (returns + 1) + (radaltSocket - 1) + lostReturns = returns + radaltSocket + lostReturns
    BY <1>b
  <2> QED
    BY <1>d, <1>e, <2>1, <2>2
<1>4. ASSUME UNCHANGED <<epochs, lostEpochs, lostReturns, gpsSocket, radaltSocket, fixes, returns>>
      PROVE  /\ fixes' + Len(gpsSocket') + lostEpochs' = epochs'
             /\ returns' + radaltSocket' + lostReturns' = epochs' * Flight!Returns
  BY <1>d, <1>e, <1>4
<1>5. CASE \/ Flight!HostStart \/ Flight!HostTerminate \/ Flight!LeaveLoop \/ Flight!StayInLoop
           \/ Flight!FinalRound \/ Flight!Summary
           \/ Flight!GpsDrained \/ Flight!RadaltDrained
  BY <1>4, <1>5 DEF Flight!HostStart, Flight!HostTerminate, Flight!LeaveLoop,
       Flight!StayInLoop, Flight!FinalRound, Flight!Summary,
       Flight!GpsDrained, Flight!RadaltDrained
<1>6. CASE BringsUp \/ Flight!BindGps \/ Flight!BindRadalt
  BY <1>4, <1>6 DEF BringsUp, Flight!ParseArgs, Flight!AttachBuses, Flight!ProbeImuBaro,
       Flight!BeginMagProbe,
       Flight!EndMagProbe, Flight!OpenLogs, Flight!BindGps, Flight!BindRadalt,
       Flight!CreateReceiver
<1>7. CASE FlightPolls
  BY <1>4, <1>7 DEF FlightPolls, Flight!PollImu, Flight!PollBaro, Flight!PollMag, Flight!Poll
<1>8. CASE UNCHANGED Flight!vars
  BY <1>4, <1>8 DEF Flight!vars
<1> QED
  BY <1>1, <1>2, <1>3, <1>5, <1>6, <1>7, <1>8, ComputerSteps DEF Flight!Next

\* Nothing leads from the final rounds back into the loop, and a host that has
\* terminated stays so.
LEMMA LeftStep ==
  Flight!TypeOK /\ Flight!LeftForGood /\ [Flight!Next]_(Flight!vars) => Flight!LeftForGood'
<1> SUFFICES ASSUME Flight!TypeOK, Flight!LeftForGood, [Flight!Next]_(Flight!vars)
             PROVE  Flight!LeftForGood'
  OBVIOUS
<1> USE DEF Flight!LeftForGood, Flight!Done, Flight!Goto, Flight!Fail, Flight!hostVars,
     Flight!sockets, Flight!bringUp, Flight!flight
<1>1. CASE Flight!HostStart \/ Flight!HostTerminate \/ Flight!HostStep
  BY <1>1 DEF Flight!HostStart, Flight!HostTerminate, Flight!HostStep
<1>2. CASE BringsUp
  BY <1>2 DEF BringsUp, Flight!ParseArgs, Flight!AttachBuses, Flight!ProbeImuBaro,
       Flight!BeginMagProbe, Flight!EndMagProbe,
       Flight!OpenLogs
<1>3. CASE FlightPolls
  BY <1>3 DEF FlightPolls, Flight!PollImu, Flight!PollBaro, Flight!PollMag, Flight!Poll,
       Flight!TakeSample, Flight!NothingNew
<1>4. CASE Flight!BindGps \/ Flight!BindRadalt
  BY <1>4 DEF Flight!BindGps, Flight!BindRadalt, Flight!CreateReceiver
<1>5. CASE Flight!LeaveLoop
  BY <1>5 DEF Flight!LeaveLoop, Flight!LeaveFor
<1>6. CASE Flight!StayInLoop
  BY <1>6 DEF Flight!StayInLoop
<1>7. CASE Flight!FeedGps \/ Flight!FeedRadalt
  BY <1>7 DEF Flight!FeedGps, Flight!FeedRadalt
<1>8. CASE Flight!GpsDrained \/ Flight!RadaltDrained
  BY <1>8 DEF Flight!GpsDrained, Flight!RadaltDrained, Flight!AfterDrains
<1>9. CASE Flight!FinalRound \/ Flight!Summary
  BY <1>9 DEF Flight!FinalRound, Flight!Summary
<1>10. CASE UNCHANGED Flight!vars
  BY <1>10 DEF Flight!vars
<1> QED
  BY <1>1, <1>2, <1>3, <1>4, <1>5, <1>6, <1>7, <1>8, <1>9, <1>10, ComputerSteps DEF Flight!Next

\* A final round counts what it decodes from its beginning on, and gives a socket
\* up without having decoded anything only when it is empty.
LEMMA RoundsStep ==
  ASSUME FlightBounds, Flight!TypeOK, Flight!RadaltIsBound, Flight!LeftForGood,
         Flight!RoundsTakeAll, [Flight!Next]_(Flight!vars)
  PROVE  Flight!RoundsTakeAll'
<1> USE DEF Flight!RoundsTakeAll, Flight!LeftForGood, Flight!Done, Flight!Goto, Flight!Fail,
     Flight!hostVars, Flight!sockets, Flight!bringUp, Flight!counts, Flight!flight
<1>1. CASE Flight!HostStart \/ Flight!HostTerminate \/ Flight!HostStep
  BY <1>1 DEF Flight!HostStart, Flight!HostTerminate, Flight!HostStep
<1>2. CASE BringsUp
  BY <1>2 DEF BringsUp, Flight!ParseArgs, Flight!AttachBuses, Flight!ProbeImuBaro,
       Flight!BeginMagProbe, Flight!EndMagProbe,
       Flight!OpenLogs
<1>3. CASE FlightPolls
  BY <1>3 DEF FlightPolls, Flight!PollImu, Flight!PollBaro, Flight!PollMag, Flight!Poll,
       Flight!TakeSample, Flight!NothingNew
<1>4. CASE Flight!BindGps \/ Flight!BindRadalt
  BY <1>4 DEF Flight!BindGps, Flight!BindRadalt, Flight!CreateReceiver
<1>5. CASE Flight!LeaveLoop
  <2>1. /\ before'[1] = fixes /\ before'[2] = returns /\ fixes' = fixes /\ returns' = returns
        /\ drained' = 0 /\ flightAt' = "gps"
    BY <1>5 DEF Flight!LeaveLoop
  <2> QED
    BY <2>1, FlightCounters
<1>6. CASE Flight!StayInLoop
  BY <1>6 DEF Flight!StayInLoop
<1>7. CASE Flight!FeedGps
  <2>1. /\ flightAt = "gps" /\ flightAt' = "gps" /\ fixes' = fixes + 1 /\ drained' = drained + 1
        /\ UNCHANGED <<left, returns, before>>
    BY <1>7 DEF Flight!FeedGps
  <2>2. fixes \in Nat /\ drained \in Nat /\ before[1] \in Nat
    BY FlightCounters
  <2> QED
    BY <2>1, <2>2
<1>8. CASE Flight!FeedRadalt
  <2>1. /\ flightAt = "radalt" /\ flightAt' = "radalt" /\ returns' = returns + 1 /\ drained' = drained + 1
        /\ UNCHANGED <<left, fixes, before, gpsSocket>>
    BY <1>8 DEF Flight!FeedRadalt
  <2>2. returns \in Nat /\ drained \in Nat /\ before[2] \in Nat
    BY FlightCounters
  <2> QED
    BY <2>1, <2>2
<1>9. CASE Flight!GpsDrained
  <2>1. /\ flightAt = "gps" /\ drained' = 0
        /\ flightAt' = (IF Flight!HasRadalt THEN "radalt" ELSE Flight!AfterDrains)
        /\ drained = Batch \/ gpsSocket = <<>>
        /\ UNCHANGED <<left, fixes, returns, before, gpsSocket, radaltSocket>>
    BY <1>9 DEF Flight!GpsDrained, Flight!Receives
  <2>2. fixes \in Nat /\ drained \in Nat /\ before[1] \in Nat /\ before[2] \in Nat
        /\ Batch \in Nat \ {0}
    BY FlightCounters DEF FlightBounds
  <2>3. ~Flight!HasRadalt => radaltSocket = 0
    BY DEF Flight!RadaltIsBound
  <2>4. ASSUME left = "poweredDown"
        PROVE  fixes = before[1] + drained /\ returns = before[2]
    BY <2>1, <2>4
  <2>5. left = "poweredDown" => (fixes = before[1] => gpsSocket = <<>>)
    BY <2>1, <2>2, <2>4
  <2> QED
    BY <2>1, <2>2, <2>3, <2>4, <2>5 DEF Flight!AfterDrains
<1>10. CASE Flight!RadaltDrained
  <2>1. /\ flightAt = "radalt" /\ flightAt' = Flight!AfterDrains /\ drained' = 0
        /\ drained = Batch \/ ~(radaltSocket > 0)
        /\ UNCHANGED <<left, fixes, returns, before, gpsSocket, radaltSocket>>
    BY <1>10 DEF Flight!RadaltDrained, Flight!Receives
  <2>2. radaltSocket \in Nat /\ drained \in Nat /\ before[2] \in Nat /\ Batch \in Nat \ {0}
    BY FlightCounters DEF FlightBounds
  <2>3. left = "poweredDown" => (returns = before[2] => radaltSocket = 0)
    BY <2>1, <2>2
  <2> QED
    BY <2>1, <2>3 DEF Flight!AfterDrains
<1>11. CASE Flight!FinalRound
  <2>1. /\ flightAt = "round" /\ before' = <<fixes, returns>> /\ drained' = drained
        /\ flightAt' = IF <<fixes, returns>> = before THEN "summary" ELSE "gps"
        /\ UNCHANGED <<left, fixes, returns, gpsSocket, radaltSocket>>
    BY <1>11 DEF Flight!FinalRound
  <2>2. <<fixes, returns>> = before => fixes = before[1] /\ returns = before[2]
    OBVIOUS
  <2>3. before'[1] = fixes /\ before'[2] = returns
    BY <2>1
  <2> QED
    BY <2>1, <2>2, <2>3, FlightCounters
<1>12. CASE Flight!Summary
  BY <1>12 DEF Flight!Summary
<1>13. CASE UNCHANGED Flight!vars
  BY <1>13 DEF Flight!vars
<1> QED
  BY <1>1, <1>2, <1>3, <1>4, <1>5, <1>6, <1>7, <1>8, <1>9, <1>10, <1>11, <1>12, <1>13,
     ComputerSteps DEF Flight!Next

\* Every counter, socket and place keeps its type, and no socket holds more than
\* it can.
THEOREM FlightTypes ==
  ASSUME FlightBounds
  PROVE  Flight!Spec => [](Flight!TypeOK /\ Flight!RadaltIsBound)
<1>1. Flight!Init => Flight!TypeOK /\ Flight!RadaltIsBound
  BY DEF Flight!Init, Flight!TypeOK, Flight!RadaltIsBound, Flight!Places, FlightBounds
<1>2. Flight!TypeOK /\ Flight!RadaltIsBound /\ [Flight!Next]_(Flight!vars)
      => (Flight!TypeOK /\ Flight!RadaltIsBound)'
  BY FlightTypesStay, RadaltStep
<1> QED
  BY <1>1, <1>2, PTL DEF Flight!Spec

\* Whatever is sent is lost, queued or counted, and the final rounds leave nothing
\* queued that was sent before them.
THEOREM FlightInvariant == ASSUME FlightBounds PROVE Flight!Spec => []Flight!FlightInv
<1>1. Flight!Init => Flight!FlightInv
  <2> SUFFICES ASSUME Flight!Init PROVE Flight!FlightInv
    OBVIOUS
  <2>1. Flight!RadaltIsBound
    BY DEF Flight!Init, Flight!RadaltIsBound, FlightBounds
  <2>2. Flight!AllAccountedFor
    BY ReturnsIsNat DEF Flight!Init, Flight!AllAccountedFor
  <2> QED
    BY <2>1, <2>2 DEF Flight!Init, Flight!FlightInv, Flight!LeftForGood, Flight!RoundsTakeAll
<1>2. Flight!TypeOK /\ Flight!FlightInv /\ [Flight!Next]_(Flight!vars) => Flight!FlightInv'
  BY AccountStep, RadaltStep, LeftStep, RoundsStep DEF Flight!FlightInv
<1> QED
  BY <1>1, <1>2, FlightTypes, PTL DEF Flight!Spec

\* A flight that ended with the parts powered down has counted all that a socket
\* took: for any number of epochs, any datagrams a drain takes at most and any
\* interleaving of the host with bring-up, loop and final rounds.
THEOREM SentIsCounted == ASSUME FlightBounds PROVE Flight!Spec => []Flight!CountsWhatWasSent
<1>1. Flight!TypeOK /\ Flight!FlightInv => Flight!CountsWhatWasSent
  <2> SUFFICES ASSUME Flight!TypeOK, Flight!FlightInv, flightAt \in {"summary", "succeeded"},
                      left = "poweredDown"
               PROVE  /\ fixes = epochs - lostEpochs
                      /\ returns = epochs * Flight!Returns - lostReturns
    BY DEF Flight!CountsWhatWasSent
  <2>1. gpsSocket = <<>> /\ radaltSocket = 0
    BY DEF Flight!FlightInv, Flight!RoundsTakeAll, Flight!Done
  <2>2. fixes + 0 + lostEpochs = epochs
    BY <2>1 DEF Flight!FlightInv, Flight!AllAccountedFor
  <2>3. returns + 0 + lostReturns = epochs * Flight!Returns
    BY <2>1 DEF Flight!FlightInv, Flight!AllAccountedFor
  <2>4. epochs \in Nat /\ lostEpochs \in Nat /\ lostReturns \in Nat /\ fixes \in Nat
        /\ returns \in Nat /\ epochs * Flight!Returns \in Nat
    BY FlightCounters, ReturnsIsNat
  <2> QED
    BY <2>2, <2>3, <2>4
<1> QED
  BY <1>1, FlightTypes, FlightInvariant, PTL

(***************************************************************************)
(* The NMEA parser.                                                        *)
(***************************************************************************)
\* The numbers of the NMEA format: a sentence without its '$' and its end is no
\* longer than what the parser keeps, as it is for NMEA 0183's 79 characters.
NmeaBounds ==
  BodyLength \in Nat /\ BufferLength \in Nat /\ BodyLength + 2 <= BufferLength

NmeaCharacters == {"dollar", "star", "text", "end"}

\* What a sentence that is accepted does to the fix, field by field.
Accepted ==
  /\ fix' \in [position : Nat, altitude : Nat, speed : Nat, valid : BOOLEAN, stamp : Nat]
  /\ fix'.position = text.epoch /\ fix'.stamp = epoch /\ fix'.valid = text.usable
  /\ fix'.altitude = IF text.type = "GGA" THEN text.epoch ELSE fix.altitude
  /\ fix'.speed = IF text.type = "GGA" THEN fix.speed ELSE text.epoch

LEMMA NmeaDecoding ==
  ASSUME Nmea!NmeaTypes, Nmea!DecodeSentence
  PROVE  \/ nmeaSum = BodyLength + 3 /\ Accepted
         \/ (nmeaSum = BodyLength + 3 => ~text.usable) /\ UNCHANGED fix
<1> USE DEF Nmea!NmeaTypes
<1>1. fix = [position |-> fix.position, altitude |-> fix.altitude, speed |-> fix.speed,
             valid |-> fix.valid, stamp |-> fix.stamp]
  OBVIOUS
<1>2. DOMAIN fix = {"position", "altitude", "speed", "valid", "stamp"}
  BY <1>1
<1>3. ASSUME NEW fields \in {{"position", "altitude"}, {"position", "speed"}},
             fields = {"position", "altitude"} <=> text.type = "GGA",
             Nmea!Decode(fields)
      PROVE  Accepted \/ (~text.usable /\ UNCHANGED fix)
  <2>1. CASE fix' = [f \in DOMAIN fix |-> CASE f = "valid" -> text.usable
                                            [] f = "stamp" -> epoch
                                            [] f \in fields -> text.epoch
                                            [] OTHER -> fix[f]]
    <3>1. /\ "altitude" \in fields <=> text.type = "GGA"
          /\ "speed" \in fields <=> text.type # "GGA"
          /\ "position" \in fields
      BY <1>3
    <3>2. /\ fix'.position = text.epoch /\ fix'.stamp = epoch /\ fix'.valid = text.usable
          /\ fix'.altitude = IF text.type = "GGA" THEN text.epoch ELSE fix.altitude
          /\ fix'.speed = IF text.type = "GGA" THEN fix.speed ELSE text.epoch
      BY <2>1, <1>2, <3>1
    <3>3. fix' = [position |-> fix'.position, altitude |-> fix'.altitude, speed |-> fix'.speed,
                  valid |-> fix'.valid, stamp |-> fix'.stamp]
      BY <2>1, <1>2
    <3>4. /\ fix'.position \in Nat /\ fix'.altitude \in Nat /\ fix'.speed \in Nat
          /\ fix'.valid \in BOOLEAN /\ fix'.stamp \in Nat
      BY <3>2
    <3> QED
      BY <3>2, <3>3, <3>4 DEF Accepted
  <2> QED
    BY <1>3, <2>1 DEF Nmea!Decode
<1>4. CASE nmeaSum # BodyLength + 3
  BY <1>4 DEF Nmea!DecodeSentence
<1>5. CASE nmeaSum = BodyLength + 3 /\ text.type = "GGA"
  <2>1. Nmea!Decode({"position", "altitude"})
    BY <1>5 DEF Nmea!DecodeSentence, Nmea!DecodeGga
  <2> QED
    BY <1>3, <1>5, <2>1
<1>6. CASE nmeaSum = BodyLength + 3 /\ text.type # "GGA"
  <2>1. Nmea!Decode({"position", "speed"})
    BY <1>6 DEF Nmea!DecodeSentence, Nmea!DecodeRmc
  <2>2. {"position", "speed"} # {"position", "altitude"}
    OBVIOUS
  <2> QED
    BY <1>3, <1>6, <2>1, <2>2
<1> QED
  BY <1>4, <1>5, <1>6

\* The parser after one character; `Ended' is the only way the fix changes.
Began(c) ==
  c = "dollar" /\ inSentence' /\ nmeaLength' = 0 /\ nmeaSum' = 1 /\ text' = Nmea!NoText
  /\ UNCHANGED fix
Ignored(c) == c # "dollar" /\ ~inSentence /\ UNCHANGED <<Nmea!parser, fix>>
Ended(c) ==
  /\ c = "end" /\ inSentence /\ ~inSentence' /\ UNCHANGED <<nmeaLength, nmeaSum, text>>
  /\ \/ nmeaSum = BodyLength + 3 /\ Accepted
     \/ (nmeaLength # 0 /\ nmeaSum = BodyLength + 3 => ~text.usable) /\ UNCHANGED fix
Overflowed(c) ==
  /\ c \in {"star", "text"} /\ inSentence /\ ~inSentence' /\ nmeaLength >= BufferLength
  /\ nmeaLength' = 0 /\ UNCHANGED <<nmeaSum, text, fix>>
Stored(c, place) ==
  /\ c \in {"star", "text"} /\ inSentence /\ inSentence' /\ nmeaLength < BufferLength
  /\ nmeaLength' = nmeaLength + 1 /\ UNCHANGED fix
  /\ nmeaSum' = (IF Nmea!Fits(place) THEN place ELSE 0)
  /\ text' = (IF Nmea!Fits(place) THEN Nmea!Current ELSE Nmea!NoText)

LEMMA NmeaParsing ==
  ASSUME NmeaBounds, Nmea!NmeaTypes, NEW c \in NmeaCharacters, NEW place \in Nat,
         Nmea!ParseByte(c, place)
  PROVE  /\ Began(c) \/ Ignored(c) \/ Ended(c) \/ Overflowed(c) \/ Stored(c, place)
         /\ inSentence' \in BOOLEAN /\ nmeaLength' \in Nat /\ nmeaSum' \in Nat
         /\ text' \in [type : {"GGA", "RMC", "none"}, epoch : Nat, usable : BOOLEAN]
         /\ fix' \in [position : Nat, altitude : Nat, speed : Nat, valid : BOOLEAN,
                      stamp : Nat]
<1> USE DEF Nmea!NmeaTypes
<1>1. /\ Nmea!NoText \in [type : {"GGA", "RMC", "none"}, epoch : Nat, usable : BOOLEAN]
      /\ Nmea!Current \in [type : {"GGA", "RMC", "none"}, epoch : Nat, usable : BOOLEAN]
  BY DEF Nmea!NoText, Nmea!Current
<1>2. CASE c = "dollar"
  BY <1>1, <1>2 DEF Nmea!ParseByte, Nmea!Begin, Nmea!NothingDecoded, Began
<1>3. CASE c # "dollar" /\ ~inSentence
  BY <1>3 DEF Nmea!ParseByte, Nmea!NothingDecoded, Ignored, Nmea!parser
<1>4. CASE c = "end" /\ inSentence
  <2>1. Nmea!End
    BY <1>4 DEF Nmea!ParseByte
  <2>2. CASE nmeaLength = 0
    BY <1>4, <2>1, <2>2 DEF Nmea!End, Nmea!NothingDecoded, Ended
  <2>3. CASE nmeaLength # 0
    <3>1. Nmea!DecodeSentence
      BY <2>1, <2>3 DEF Nmea!End
    <3>2. \/ nmeaSum = BodyLength + 3 /\ Accepted
          \/ (nmeaSum = BodyLength + 3 => ~text.usable) /\ UNCHANGED fix
      BY <3>1, NmeaDecoding
    <3> QED
      BY <1>4, <2>1, <3>2 DEF Nmea!End, Ended, Accepted
  <2> QED
    BY <2>2, <2>3
<1>5. CASE c \in {"star", "text"} /\ inSentence
  <2>1. IF nmeaLength >= BufferLength THEN Nmea!Overflow ELSE Nmea!Store(place)
    BY <1>5 DEF Nmea!ParseByte
  <2>2. CASE nmeaLength >= BufferLength
    <3>1. Nmea!Overflow
      BY <2>1, <2>2
    <3>2. inSentence' = FALSE /\ nmeaLength' = 0 /\ UNCHANGED <<nmeaSum, text, fix>>
      BY <3>1 DEF Nmea!Overflow
    <3>3. Overflowed(c)
      BY <1>5, <2>2, <3>2 DEF Overflowed
    <3> QED
      BY <3>2, <3>3
  <2>3. CASE ~(nmeaLength >= BufferLength)
    <3>1. Nmea!Store(place) /\ nmeaLength < BufferLength
      BY <2>1, <2>3 DEF NmeaBounds
    <3> QED
      BY <1>1, <1>5, <3>1 DEF Nmea!Store, Nmea!NothingDecoded, Stored
  <2> QED
    BY <2>2, <2>3
<1> QED
  BY <1>2, <1>3, <1>4, <1>5 DEF NmeaCharacters

\* The sender moves on by a character, a sentence or an epoch.
NmeaMoved ==
  \/ nmeaAt < Nmea!SentenceLength /\ nmeaAt' = nmeaAt + 1 /\ UNCHANGED <<epoch, sentence, usable>>
  \/ /\ nmeaAt = Nmea!SentenceLength /\ sentence = "GGA"
     /\ nmeaAt' = 1 /\ sentence' = "RMC" /\ UNCHANGED <<epoch, usable>>
  \/ /\ nmeaAt = Nmea!SentenceLength /\ sentence = "RMC" /\ Nmea!NewEpoch
     /\ nmeaAt' = 1 /\ sentence' = "GGA" /\ epoch' = epoch + 1

LEMMA NmeaMoving ==
  ASSUME NmeaBounds, Nmea!NmeaTypes, Nmea!Advance
  PROVE  /\ NmeaMoved
         /\ epoch' \in Nat \ {0} /\ epoch <= epoch' /\ sentence' \in {"GGA", "RMC"}
         /\ nmeaAt' \in 1 .. Nmea!SentenceLength /\ usable' \in BOOLEAN
         /\ Nmea!SentenceLength \in Nat /\ Nmea!SentenceLength = BodyLength + 5
<1>1. Nmea!SentenceLength \in Nat /\ Nmea!SentenceLength = BodyLength + 5
  BY DEF NmeaBounds, Nmea!SentenceLength
<1>2. CASE nmeaAt < Nmea!SentenceLength
  BY <1>1, <1>2 DEF Nmea!Advance, NmeaMoved, Nmea!NmeaTypes
<1>3. CASE ~(nmeaAt < Nmea!SentenceLength)
  <2>1. nmeaAt = Nmea!SentenceLength
    BY <1>1, <1>3 DEF Nmea!NmeaTypes
  <2> QED
    BY <1>1, <1>3, <2>1 DEF Nmea!Advance, NmeaMoved, Nmea!NewEpoch, Nmea!NmeaTypes
<1> QED
  BY <1>2, <1>3

\* The order of the epochs survives whatever the parser does with a character.
LEMMA OrderKept ==
  ASSUME NmeaBounds, Nmea!NmeaTypes, Nmea!InOrder, NEW c \in NmeaCharacters, NEW place \in Nat,
         Nmea!ParseByte(c, place), Nmea!Advance
  PROVE  Nmea!InOrder'
<1> USE DEF Nmea!NmeaTypes, Nmea!InOrder
<1>1. epoch' \in Nat /\ epoch <= epoch'
  BY NmeaMoving
<1>2. CASE Began(c) \/ Ignored(c) \/ Overflowed(c)
  BY <1>1, <1>2 DEF Began, Ignored, Overflowed, Nmea!parser
<1>3. CASE Ended(c)
  <2>1. CASE nmeaSum = BodyLength + 3 /\ Accepted
    <3>1. nmeaSum >= 2
      BY <2>1 DEF NmeaBounds
    <3>2. fix.position <= text.epoch /\ text.epoch <= epoch
      BY <3>1
    <3>3. /\ fix'.altitude <= fix'.position /\ fix'.speed <= fix'.position
          /\ fix'.position <= fix'.stamp /\ fix'.stamp <= epoch'
      BY <1>1, <2>1, <3>2 DEF Accepted
    <3>4. fix'.position = text'.epoch /\ text'.epoch <= epoch'
      BY <1>1, <1>3, <2>1, <3>2 DEF Accepted, Ended
    <3>5. text'.epoch \in Nat /\ fix'.position \in Nat
      BY <1>3, <2>1 DEF Accepted, Ended
    <3> QED
      BY <3>3, <3>4, <3>5
  <2> QED
    BY <1>1, <1>3, <2>1 DEF Ended
<1>4. CASE Stored(c, place)
  <2>1. nmeaSum' >= 2 => text'.epoch = epoch
    BY <1>4 DEF Stored, Nmea!Current
  <2> QED
    BY <1>1, <1>4, <2>1 DEF Stored
<1> QED
  BY <1>2, <1>3, <1>4, NmeaParsing

\* Where an ungarbled epoch's character meets the parser.
LEMMA Delivered ==
  ASSUME NmeaBounds, Nmea!NmeaInv, Nmea!ParseByte(Nmea!Character, nmeaAt), Nmea!Advance,
         garbled' = (garbled /\ ~Nmea!NewEpoch)
  PROVE  Nmea!InPlace' /\ Nmea!Collected'
<1> USE DEF Nmea!NmeaTypes
<1>1. Nmea!NmeaTypes /\ Nmea!InPlace /\ Nmea!Collected /\ Nmea!InOrder /\ Nmea!Overdue
  BY DEF Nmea!NmeaInv
<1>2. Nmea!Character \in NmeaCharacters /\ nmeaAt \in Nat
  BY <1>1 DEF Nmea!Character, NmeaCharacters
<1>3. /\ NmeaMoved /\ epoch' \in Nat \ {0} /\ Nmea!SentenceLength \in Nat
      /\ Nmea!SentenceLength = BodyLength + 5
  BY <1>1, NmeaMoving
<1>4. /\ Began(Nmea!Character) \/ Ignored(Nmea!Character) \/ Ended(Nmea!Character)
         \/ Overflowed(Nmea!Character)
           \/ Stored(Nmea!Character, nmeaAt)
      /\ inSentence' \in BOOLEAN
  BY <1>1, <1>2, NmeaParsing
<1> HIDE DEF Nmea!SentenceLength
<1>5. CASE nmeaAt' = 1
  <2>1. Nmea!InPlace'
    BY <1>3, <1>5 DEF Nmea!InPlace, NmeaBounds, Nmea!SentenceLength
  <2>2. CASE sentence = "GGA"
    <3>1. /\ nmeaAt = Nmea!SentenceLength /\ sentence' = "RMC" /\ epoch' = epoch /\ usable' = usable
          /\ garbled' = garbled
      BY <1>1, <1>3, <1>5, <2>2 DEF NmeaMoved, Nmea!NewEpoch
    <3>2. CASE ~garbled
      <4>1. ~inSentence /\ Nmea!Character = "end"
        BY <1>1, <1>3, <3>1, <3>2 DEF Nmea!InPlace, Nmea!Character, NmeaBounds
      <4>2. UNCHANGED fix
        BY <1>4, <4>1 DEF Began, Ignored, Ended, Overflowed, Stored
      <4> QED
        BY <1>1, <2>1, <3>1, <3>2, <4>2, <1>3, <1>5
           DEF Nmea!Collected, NmeaBounds, Nmea!SentenceLength
    <3> QED
      BY <2>1, <3>1, <3>2 DEF Nmea!Collected
  <2>3. CASE sentence = "RMC"
    <3>1. sentence' = "GGA"
      BY <1>1, <1>3, <1>5, <2>3 DEF NmeaMoved
    <3> QED
      BY <2>1, <3>1, <1>3, <1>5 DEF Nmea!Collected, NmeaBounds, Nmea!SentenceLength
  <2> QED
    BY <1>1, <2>2, <2>3
<1>6. CASE nmeaAt' = nmeaAt + 1
  <2>1. /\ nmeaAt < Nmea!SentenceLength /\ UNCHANGED <<epoch, sentence, usable>>
           /\ garbled' = garbled
        /\ Nmea!SentenceLength' = Nmea!SentenceLength
    BY <1>1, <1>3, <1>6 DEF NmeaMoved, Nmea!NewEpoch, Nmea!SentenceLength
  <2> SUFFICES ASSUME ~garbled PROVE Nmea!InPlace' /\ Nmea!Collected'
    BY <2>1 DEF Nmea!InPlace, Nmea!Collected
  <2>2. Nmea!Current' = Nmea!Current
    BY <2>1 DEF Nmea!Current
  <2>3. CASE nmeaAt = 1
    <3>1. Nmea!Character = "dollar"
      BY <1>3, <2>3 DEF Nmea!Character, NmeaBounds
    <3>2. Began("dollar")
      BY <1>4, <3>1 DEF Began, Ignored, Ended, Overflowed, Stored
    <3> QED
      BY <1>1, <1>3, <1>6, <2>1, <2>3, <3>2 DEF Began, Nmea!InPlace, Nmea!Collected, NmeaBounds
  <2>4. CASE nmeaAt \in 2 .. Nmea!SentenceLength - 2
    <3>1. Nmea!Character \in {"star", "text"}
      BY <1>3, <2>4 DEF Nmea!Character, NmeaBounds
    <3>2. inSentence /\ nmeaLength = nmeaAt - 2 /\ nmeaSum = nmeaAt - 1
          /\ (nmeaAt >= 3 => text = Nmea!Current)
      BY <1>1, <1>3, <2>4 DEF Nmea!InPlace
    <3>3. nmeaLength < BufferLength
      BY <1>1, <1>3, <2>4, <3>2 DEF NmeaBounds
    <3>4. Stored(Nmea!Character, nmeaAt)
      BY <1>1, <1>4, <3>1, <3>2, <3>3 DEF Began, Ignored, Ended, Overflowed, NmeaBounds
    <3>5. Nmea!Fits(nmeaAt)
      BY <1>1, <2>4, <3>2 DEF Nmea!Fits
    <3>6. inSentence' /\ nmeaLength' = nmeaAt - 1 /\ nmeaSum' = nmeaAt /\ text' = Nmea!Current
          /\ fix' = fix
      BY <1>1, <3>2, <3>4, <3>5 DEF Stored
    <3>7. Nmea!InPlace'
      BY <1>1, <1>3, <1>6, <2>1, <2>2, <2>4, <3>6 DEF Nmea!InPlace, NmeaBounds
    <3>8. Nmea!Collected'
      BY <1>1, <1>3, <1>6, <2>1, <2>4, <3>6 DEF Nmea!Collected, NmeaBounds
    <3> QED
      BY <3>7, <3>8
  <2>5. CASE nmeaAt = Nmea!SentenceLength - 1
    <3>1. Nmea!Character = "end"
      BY <1>3, <2>5 DEF Nmea!Character, NmeaBounds
    <3>2. inSentence /\ nmeaLength = nmeaAt - 2 /\ nmeaSum = nmeaAt - 1 /\ text = Nmea!Current
      BY <1>1, <1>3, <2>5 DEF Nmea!InPlace, NmeaBounds
    <3>3. Ended("end")
      BY <1>4, <3>1, <3>2 DEF Began, Ignored, Overflowed, Stored
    <3>4. nmeaSum = BodyLength + 3 /\ nmeaLength # 0
      BY <1>3, <2>5, <3>2 DEF NmeaBounds
    <3>5. ~inSentence'
      BY <3>3 DEF Ended
    <3>6. Nmea!InPlace'
      BY <1>3, <1>6, <2>1, <2>5, <3>5 DEF Nmea!InPlace, NmeaBounds
    <3>7. /\ text.epoch = epoch /\ text.usable = usable /\ text.type = sentence
      BY <3>2 DEF Nmea!Current
    <3>8. usable => Accepted
      BY <3>3, <3>4, <3>7 DEF Ended
    <3>9. usable => /\ fix'.position = epoch /\ fix'.stamp = epoch
                    /\ sentence = "GGA" => fix'.altitude = epoch
                    /\ sentence = "RMC" => /\ fix'.speed = epoch /\ fix'.valid
                                           /\ fix'.altitude = fix.altitude
      BY <1>1, <3>7, <3>8 DEF Accepted
    <3>10. Nmea!Collected'
      BY <1>1, <2>1, <3>9 DEF Nmea!Collected
    <3> QED
      BY <3>6, <3>10
  <2> QED
    BY <1>1, <1>3, <2>1, <2>3, <2>4, <2>5 DEF NmeaBounds
<1> QED
  BY <1>3, <1>5, <1>6 DEF NmeaMoved

\* How late a whole sentence may be decoded, and what that takes.
LEMMA OverdueKept ==
  ASSUME NmeaBounds, Nmea!NmeaInv, NEW c \in NmeaCharacters, NEW place \in {0, nmeaAt},
         Nmea!ParseByte(c, place), Nmea!Advance,
         \/ c = Nmea!Character /\ place = nmeaAt /\ nmeaFaults' = nmeaFaults
         \/ place = 0 /\ nmeaFaults' = nmeaFaults + 1
  PROVE  Nmea!Overdue' /\ (fix'.position = fix'.stamp \/ nmeaFaults' >= 3)
<1>1. Nmea!NmeaTypes /\ Nmea!Overdue /\ (fix.position = fix.stamp \/ nmeaFaults >= 3)
  BY DEF Nmea!NmeaInv
<1> USE <1>1 DEF Nmea!NmeaTypes
<1>2. /\ NmeaMoved /\ Nmea!SentenceLength \in Nat /\ Nmea!SentenceLength = BodyLength + 5 
  BY NmeaMoving
<1>3. place \in Nat /\ nmeaFaults' \in Nat /\ nmeaFaults <= nmeaFaults'
      /\ Nmea!SentenceLength' = Nmea!SentenceLength
  BY <1>2 DEF Nmea!SentenceLength
<1>4. /\ Began(c) \/ Ignored(c) \/ Ended(c) \/ Overflowed(c) \/ Stored(c, place)
      /\ nmeaSum' \in Nat
  BY <1>3, NmeaParsing
<1>5. CASE Began(c)
  <2>1. nmeaSum' # BodyLength + 3 /\ UNCHANGED fix
    BY <1>5 DEF Began, NmeaBounds
  <2> QED
    BY <1>3, <2>1 DEF Nmea!Overdue
<1>6. CASE Ignored(c) \/ Overflowed(c)
  <2>1. ~inSentence' /\ UNCHANGED fix
    BY <1>6 DEF Ignored, Overflowed, Nmea!parser
  <2> QED
    BY <1>3, <2>1 DEF Nmea!Overdue
<1>7. CASE Ended(c)
  <2>1. Nmea!Overdue'
    BY <1>7 DEF Ended, Nmea!Overdue
  <2>2. CASE nmeaSum = BodyLength + 3 /\ Accepted /\ ~(nmeaFaults' >= 3)
    <3>1. inSentence /\ c = "end"
      BY <1>7 DEF Ended
    <3>2. ~(nmeaAt = 1 /\ nmeaFaults >= 2)
      <4>1. nmeaAt = 1 => Nmea!Character = "dollar"
        BY <1>2 DEF Nmea!Character, NmeaBounds
      <4> QED
        BY <2>2, <3>1, <4>1
    <3>3. text = Nmea!Current
      BY <1>3, <2>2, <3>1, <3>2 DEF Nmea!Overdue
    <3> QED
      BY <2>1, <2>2, <3>3 DEF Accepted, Nmea!Current
  <2> QED
    BY <1>3, <1>7, <2>1, <2>2 DEF Ended
<1>8. CASE Stored(c, place)
  <2>1. UNCHANGED fix
    BY <1>8 DEF Stored
  <2>2. CASE inSentence' /\ nmeaSum' = BodyLength + 3
    <3>1. Nmea!Fits(place) /\ place = BodyLength + 3 /\ text' = Nmea!Current
      BY <1>8, <2>2 DEF Stored, NmeaBounds
    <3>2. nmeaAt = Nmea!SentenceLength - 2
      BY <1>2, <3>1 DEF NmeaBounds
    <3>3. nmeaAt' = Nmea!SentenceLength - 1 /\ Nmea!Current' = Nmea!Current
      BY <1>2, <3>2 DEF NmeaMoved, Nmea!Current
    <3>4. Nmea!Overdue'
      BY <1>2, <1>3, <3>1, <3>3 DEF Nmea!Overdue
    <3> QED
      BY <1>3, <2>1, <3>4
  <2> QED
    BY <1>3, <2>1, <2>2 DEF Nmea!Overdue
<1> QED
  BY <1>4, <1>5, <1>6, <1>7, <1>8

LEMMA NmeaStep == ASSUME NmeaBounds, Nmea!NmeaInv, [Nmea!Next]_(Nmea!vars) PROVE Nmea!NmeaInv'
<1>1. /\ Nmea!NmeaTypes /\ Nmea!InPlace /\ Nmea!Collected /\ Nmea!InOrder /\ Nmea!Overdue
      /\ fix.position = fix.stamp \/ nmeaFaults >= 3
  BY DEF Nmea!NmeaInv
<1>2. ASSUME Nmea!Deliver PROVE Nmea!NmeaInv'
  <2>1. Nmea!ParseByte(Nmea!Character, nmeaAt) /\ Nmea!Advance
        /\ garbled' = (garbled /\ ~Nmea!NewEpoch) /\ nmeaFaults' = nmeaFaults
    BY <1>2 DEF Nmea!Deliver
  <2>2. Nmea!Character \in NmeaCharacters /\ nmeaAt \in Nat
    BY <1>1 DEF Nmea!Character, NmeaCharacters, Nmea!NmeaTypes
  <2>3. Nmea!InPlace' /\ Nmea!Collected'
    BY <2>1, Delivered
  <2>4. Nmea!InOrder'
    BY <1>1, <2>1, <2>2, OrderKept
  <2>5. Nmea!Overdue' /\ (fix'.position = fix'.stamp \/ nmeaFaults' >= 3)
    BY <2>1, <2>2, OverdueKept
  <2>6. Nmea!NmeaTypes'
    <3>1. Nmea!SentenceLength' = Nmea!SentenceLength
      BY DEF Nmea!SentenceLength
    <3>2. garbled' \in BOOLEAN
      BY <1>1, <2>1 DEF Nmea!NmeaTypes
    <3> QED
      BY <1>1, <2>1, <2>2, <3>1, <3>2, NmeaParsing, NmeaMoving DEF Nmea!NmeaTypes
  <2> QED
    BY <2>3, <2>4, <2>5, <2>6 DEF Nmea!NmeaInv
<1>3. ASSUME NEW c \in NmeaCharacters, Nmea!ParseByte(c, 0), Nmea!Advance,
             garbled' = ~Nmea!NewEpoch,
             nmeaFaults' = nmeaFaults + 1
      PROVE  Nmea!NmeaInv'
  <2>1. Nmea!InOrder'
    BY <1>1, <1>3, OrderKept
  <2>2. Nmea!Overdue' /\ (fix'.position = fix'.stamp \/ nmeaFaults' >= 3)
    BY <1>3, OverdueKept
  <2>3. Nmea!NmeaTypes'
    <3>1. Nmea!SentenceLength' = Nmea!SentenceLength
      BY DEF Nmea!SentenceLength
    <3>2. garbled' \in BOOLEAN /\ nmeaFaults' \in Nat
      BY <1>1, <1>3 DEF Nmea!NmeaTypes
    <3> QED
      BY <1>1, <1>3, <3>1, <3>2, NmeaParsing, NmeaMoving DEF Nmea!NmeaTypes
  <2>4. Nmea!InPlace' /\ Nmea!Collected'
    <3>1. NmeaMoved /\ Nmea!SentenceLength \in Nat
      BY <1>1, <1>3, NmeaMoving
    <3>2. Nmea!NewEpoch => nmeaAt' = 1 /\ sentence' = "GGA"
      BY <1>1, <3>1 DEF NmeaMoved, Nmea!NewEpoch, Nmea!NmeaTypes
    <3>3. ~garbled' => Nmea!NewEpoch
      BY <1>3
    <3> QED
      BY <1>1, <3>2, <3>3, <2>3 DEF Nmea!InPlace, Nmea!Collected, NmeaBounds, Nmea!SentenceLength
  <2> QED
    BY <2>1, <2>2, <2>3, <2>4 DEF Nmea!NmeaInv
<1>4. ASSUME Nmea!LoseCharacter PROVE Nmea!NmeaInv'
  <2>1. /\ Nmea!Advance /\ garbled' = ~Nmea!NewEpoch /\ nmeaFaults' = nmeaFaults + 1
           /\ UNCHANGED <<Nmea!parser, fix>>
    BY <1>4 DEF Nmea!LoseCharacter
  <2>2. /\ NmeaMoved /\ epoch' \in Nat \ {0} /\ epoch <= epoch' /\ sentence' \in {"GGA", "RMC"}
        /\ nmeaAt' \in 1 .. Nmea!SentenceLength /\ usable' \in BOOLEAN
        /\ Nmea!SentenceLength \in Nat /\ Nmea!SentenceLength = BodyLength + 5
        /\ Nmea!SentenceLength' = Nmea!SentenceLength
    BY <1>1, <2>1, NmeaMoving DEF Nmea!SentenceLength
  <2>3. UNCHANGED <<inSentence, nmeaLength, nmeaSum, text, fix>> /\ garbled' \in BOOLEAN
        /\ nmeaFaults' \in Nat
    BY <1>1, <2>1 DEF Nmea!parser, Nmea!NmeaTypes
  <2>4. Nmea!NmeaTypes'
    BY <1>1, <2>2, <2>3 DEF Nmea!NmeaTypes
  <2>5. Nmea!InOrder'
    BY <1>1, <2>2, <2>3 DEF Nmea!NmeaTypes, Nmea!InOrder
  <2>6. Nmea!InPlace' /\ Nmea!Collected'
    <3>1. Nmea!NewEpoch => nmeaAt' = 1 /\ sentence' = "GGA"
      BY <1>1, <2>2 DEF NmeaMoved, Nmea!NewEpoch, Nmea!NmeaTypes
    <3>2. ~garbled' => Nmea!NewEpoch
      BY <2>1
    <3> QED
      BY <2>2, <3>1, <3>2 DEF Nmea!InPlace, Nmea!Collected, NmeaBounds
  <2>7. Nmea!Overdue'
    <3> SUFFICES ASSUME inSentence, nmeaSum = BodyLength + 3
                 PROVE  Nmea!Overdue'
      BY <2>3 DEF Nmea!Overdue
    <3>1. CASE nmeaAt = Nmea!SentenceLength - 1 /\ text = Nmea!Current
      <4>1. nmeaAt' = Nmea!SentenceLength /\ Nmea!Current' = Nmea!Current /\ nmeaFaults' >= 1
        BY <1>1, <2>1, <2>2, <3>1 DEF NmeaMoved, Nmea!Current, Nmea!NmeaTypes
      <4> QED
        BY <2>2, <2>3, <3>1, <4>1 DEF Nmea!Overdue
    <3>2. CASE nmeaAt = Nmea!SentenceLength /\ nmeaFaults >= 1
      <4>1. nmeaAt' = 1 /\ nmeaFaults' >= 2
        BY <1>1, <2>1, <2>2, <3>2 DEF NmeaMoved, Nmea!NmeaTypes
      <4> QED
        BY <4>1 DEF Nmea!Overdue
    <3>3. CASE nmeaFaults >= 2
      <4>1. nmeaFaults' >= 3
        BY <1>1, <2>1, <3>3 DEF Nmea!NmeaTypes
      <4> QED
        BY <4>1 DEF Nmea!Overdue
    <3> QED
      BY <1>1, <3>1, <3>2, <3>3 DEF Nmea!Overdue, Nmea!NmeaTypes
  <2> QED
    BY <1>1, <2>1, <2>3, <2>4, <2>5, <2>6, <2>7 DEF Nmea!NmeaInv, Nmea!NmeaTypes
<1>5. CASE UNCHANGED Nmea!vars
  BY <1>1, <1>5
     DEF Nmea!vars, Nmea!sent, Nmea!parser, Nmea!NmeaInv, Nmea!NmeaTypes, Nmea!InPlace,
         Nmea!Collected, Nmea!InOrder, Nmea!Overdue, Nmea!Current, Nmea!SentenceLength
<1>6. ASSUME Nmea!Damage PROVE Nmea!NmeaInv'
  BY <1>3, <1>6 DEF Nmea!Damage, NmeaCharacters
<1> QED
  BY <1>2, <1>4, <1>5, <1>6 DEF Nmea!Next

THEOREM NmeaInvariant == ASSUME NmeaBounds PROVE Nmea!Spec => []Nmea!NmeaInv
<1>1. Nmea!Init => Nmea!NmeaInv
  <2> SUFFICES ASSUME Nmea!Init PROVE Nmea!NmeaInv
    OBVIOUS
  <2> USE DEF Nmea!Init
  <2>1. Nmea!SentenceLength \in Nat /\ Nmea!SentenceLength = BodyLength + 5
    BY DEF NmeaBounds, Nmea!SentenceLength
  <2>2. Nmea!NmeaTypes
    <3>1. /\ Nmea!NoText \in [type : {"GGA", "RMC", "none"}, epoch : Nat, usable : BOOLEAN]
          /\ Nmea!NoFix \in [position : Nat, altitude : Nat, speed : Nat, valid : BOOLEAN,
                        stamp : Nat]
      BY DEF Nmea!NoText, Nmea!NoFix
    <3>2. epoch \in Nat \ {0} /\ nmeaAt \in 1 .. Nmea!SentenceLength
      BY <2>1 DEF NmeaBounds
    <3> QED
      BY <3>1, <3>2 DEF Nmea!NmeaTypes
  <2>3. Nmea!InPlace /\ Nmea!Collected /\ Nmea!InOrder /\ Nmea!Overdue /\ fix.position = fix.stamp
    BY <2>1 DEF NmeaBounds, Nmea!InPlace, Nmea!Collected, Nmea!InOrder, Nmea!Overdue, Nmea!NoFix
  <2> QED
    BY <2>2, <2>3 DEF Nmea!NmeaInv
<1>2. Nmea!NmeaInv /\ [Nmea!Next]_(Nmea!vars) => Nmea!NmeaInv'
  BY NmeaStep
<1> QED
  BY <1>1, <1>2, PTL DEF Nmea!Spec

THEOREM PairsMakeFixes == ASSUME NmeaBounds PROVE Nmea!Spec => []Nmea!PairMakesFix
<1>1. Nmea!NmeaInv => Nmea!PairMakesFix
  <2> SUFFICES ASSUME Nmea!NmeaInv PROVE Nmea!PairMakesFix
    OBVIOUS
  <2>1. Nmea!NmeaTypes /\ Nmea!Collected /\ Nmea!InOrder
        /\ (fix.position = fix.stamp \/ nmeaFaults >= 3)
    BY DEF Nmea!NmeaInv
  <2>2. ASSUME sentence = "RMC", nmeaAt = Nmea!SentenceLength, usable, ~garbled
        PROVE  fix = [position |-> epoch, altitude |-> epoch, speed |-> epoch,
                      valid |-> TRUE, stamp |-> epoch]
    <3>1. /\ fix.position = epoch /\ fix.altitude = epoch /\ fix.stamp = epoch
          /\ fix.speed = epoch /\ fix.valid = TRUE
      BY <2>1, <2>2 DEF Nmea!Collected, Nmea!NmeaTypes
    <3> QED
      BY <2>1, <3>1 DEF Nmea!NmeaTypes
  <2> QED
    BY <2>1, <2>2 DEF Nmea!PairMakesFix, Nmea!InOrder
<1> QED
  BY <1>1, NmeaInvariant, PTL

(***************************************************************************)
(* The co-simulation hosts.                                                *)
(***************************************************************************)
\* No step changes which program runs.
LEMMA HostKeeps == ASSUME [Host!Next]_(Host!vars) PROVE hostProgram' = hostProgram
  BY DEF Host!Next, Host!Trim, Host!TrimParse, Host!TrimPreflight, Host!TrimBuild, Host!TrimLog,
     Host!TrimConfig, Host!TrimFirstRow, Host!TrimLoop, Host!TrimEnd, Host!Autopilot,
     Host!AutopilotParse, Host!AutopilotPreflight, Host!AutopilotBuild, Host!FirstCommands,
     Host!AutopilotLog, Host!AutopilotConfig, Host!AutopilotFirstRow, Host!AutopilotLoop,
     Host!AutopilotEnd, Host!Rocket, Host!RocketParse, Host!RocketPreflight, Host!RocketBuild,
     Host!RocketLog, Host!RocketConfig, Host!RocketFirstRow, Host!RocketLoop, Host!RocketEnd,
     Host!Step, Host!StepThrows, Host!Preflight, Host!Build, Host!OpenTruthLog,
     Host!WriteRunConfig, Host!LogFirstRow, Host!FinishStepOf, Host!Terminate, Host!From,
     Host!Parsing, Host!vars

\* The links of a program start at its plant, or at a model its plant is linked to.
LEMMA LinksFromPlant ==
  ASSUME hostProgram \in Host!Programs, NEW link \in Host!Links
  PROVE  link[1] = Host!Plant \/ <<Host!Plant, link[1]>> \in Host!Links
<1>1. CASE hostProgram = "trim"
  BY <1>1 DEF Host!Links, Host!Plant, Host!TrimLinks, Host!PlantTo, Host!Sensors
<1>2. CASE hostProgram = "rocket"
  BY <1>2 DEF Host!Links, Host!Plant, Host!RocketLinks, Host!PlantTo, Host!Sensors
<1>3. CASE hostProgram = "autopilot"
  <2>1. Host!Links = Host!AutopilotLinks /\ Host!Plant = "f16"
    BY <1>3 DEF Host!Links, Host!Plant
  <2>2. <<"f16", "ap">> \in Host!AutopilotLinks
    BY DEF Host!AutopilotLinks, Host!PlantTo, Host!Sensors
  <2>3. CASE link = <<"ap", "f16">>
    BY <2>1, <2>2, <2>3
  <2>4. CASE link \in Host!PlantTo("f16", Host!Sensors \cup {"radalt", "ap"})
    BY <2>1, <2>4 DEF Host!PlantTo
  <2> QED
    BY <2>1, <2>3, <2>4 DEF Host!AutopilotLinks
<1> QED
  BY <1>1, <1>2, <1>3 DEF Host!Programs

\* What the steps between two of the simulation do to inputs and row, by the place
\* the program is at: the command line, setting up, a step, what follows it.
HostGoes(here, next) == stage = here /\ stage' = next /\ UNCHANGED Host!running
LoadsModels ==
  /\ stage = "build" /\ stage' = (IF hostProgram = "autopilot" THEN "schedule" ELSE "log")
  /\ inputs' = [inputs EXCEPT !.linked = [link \in Host!Links |-> 0]]
  /\ UNCHANGED <<hostTime, field, refused, row>>
LogsFirst ==
  /\ stage = "first row" /\ stage' = "loop" /\ row' = Host!Row(0, inputs)
  /\ UNCHANGED <<hostTime, inputs, field, refused>>
FinishesStep == stage = "stepped" /\ stage' = "loop" /\ Host!FinishStep /\ UNCHANGED hostTime

LEMMA HostMoves ==
  ASSUME hostProgram \in Host!Programs, Host!Next
  PROVE  \/ stage = "parse" /\ stage' \in {"parse", "found", "failed"} /\ UNCHANGED Host!running
         \/ HostGoes("found", "build") \/ LoadsModels \/ Host!FirstCommands
         \/ HostGoes("log", "config") \/ HostGoes("config", "first row") \/ LogsFirst
         \/ Host!Step \/ FinishesStep
         \/ stage' \in {"failed", "done"} /\ UNCHANGED Host!running
<1>1. ASSUME Host!TrimParse \/ Host!AutopilotParse \/ Host!RocketParse
      PROVE  stage = "parse" /\ stage' \in {"parse", "found", "failed"} /\ UNCHANGED Host!running
  <2>1. stage = "parse"
    BY <1>1 DEF Host!TrimParse, Host!AutopilotParse, Host!RocketParse, Host!Parsing
  <2>2. Host!FindCase \/ Host!BeginSecondPass
        \/ (\E known \in {Host!TrimOptions, Host!AutopilotOptions, Host!RocketOptions} :
               Host!TakeOption(known))
          \/ Host!CheckPeriod \/ Host!Accept
    BY <1>1 DEF Host!TrimParse, Host!AutopilotParse, Host!RocketParse
  <2>3. UNCHANGED Host!running
    BY <2>2 DEF Host!FindCase, Host!BeginSecondPass, Host!TakeOption, Host!CheckPeriod, Host!Accept
  <2>4. stage' \in {stage, "found", "failed"}
    BY <2>2 DEF Host!FindCase, Host!BeginSecondPass, Host!TakeOption, Host!CheckPeriod, Host!Accept
  <2> QED
    BY <2>1, <2>3, <2>4
<1>2. ASSUME NEW p \in Host!Programs, NEW links, Host!From(p, "build"), Host!Build(p, links),
             hostProgram = p => links = Host!Links
      PROVE  LoadsModels \/ (stage' = "failed" /\ UNCHANGED Host!running)
  BY <1>2 DEF Host!Build, Host!From, LoadsModels, Host!running
<1>3. CASE Host!Trim
  <2>1. /\ Host!TrimBuild => Host!Build("trim", Host!TrimLinks) /\ Host!From("trim", "build")
        /\ hostProgram = "trim" => Host!TrimLinks = Host!Links
    BY DEF Host!TrimBuild, Host!Build, Host!Links
  <2> QED
    BY <1>1, <1>2, <1>3, <2>1
       DEF Host!Programs, Host!Trim, Host!TrimPreflight, Host!TrimLog, Host!TrimConfig,
           Host!TrimFirstRow, Host!TrimLoop, Host!TrimEnd, Host!Preflight, Host!OpenTruthLog,
           Host!WriteRunConfig, Host!LogFirstRow, Host!FinishStepOf, Host!Terminate, Host!From,
           HostGoes, LogsFirst, FinishesStep
<1>4. CASE Host!Autopilot
  <2>1. /\ Host!AutopilotBuild =>
           Host!Build("autopilot", Host!AutopilotLinks) /\ Host!From("autopilot", "build")
        /\ hostProgram = "autopilot" => Host!AutopilotLinks = Host!Links
    BY DEF Host!AutopilotBuild, Host!Build, Host!Links
  <2> QED
    BY <1>1, <1>2, <1>4, <2>1
       DEF Host!Programs, Host!Autopilot, Host!AutopilotPreflight, Host!AutopilotLog,
           Host!AutopilotConfig, Host!AutopilotFirstRow, Host!AutopilotLoop, Host!AutopilotEnd,
           Host!Preflight, Host!OpenTruthLog, Host!WriteRunConfig, Host!LogFirstRow,
           Host!FinishStepOf, Host!Terminate, Host!From, HostGoes, LogsFirst, FinishesStep
<1>5. CASE Host!Rocket
  <2>1. /\ Host!RocketBuild =>
           Host!Build("rocket", Host!RocketLinks) /\ Host!From("rocket", "build")
        /\ hostProgram = "rocket" => Host!RocketLinks = Host!Links
    BY DEF Host!RocketBuild, Host!Build, Host!Links
  <2> QED
    BY <1>1, <1>2, <1>5, <2>1
       DEF Host!Programs, Host!Rocket, Host!RocketPreflight, Host!RocketLog, Host!RocketConfig,
           Host!RocketFirstRow, Host!RocketLoop, Host!RocketEnd, Host!Preflight,
           Host!OpenTruthLog, Host!WriteRunConfig, Host!LogFirstRow, Host!FinishStepOf,
           Host!Terminate, Host!From, HostGoes, LogsFirst, FinishesStep
<1>6. CASE Host!StepThrows
  BY <1>6 DEF Host!StepThrows, Host!Fail
<1> QED
  BY <1>3, <1>4, <1>5, <1>6 DEF Host!Next

LEMMA LoopStep == ASSUME Host!LoopInv, [Host!Next]_(Host!vars) PROVE Host!LoopInv'
<1>1. hostProgram' = hostProgram
  BY HostKeeps
<1>2. Host!Links' = Host!Links /\ Host!Plant' = Host!Plant
  BY <1>1 DEF Host!Links, Host!Plant
<1>3. hostProgram \in Host!Programs /\ hostTime \in Nat
  BY DEF Host!LoopInv
<1>4. /\ inputs = [linked |-> inputs.linked, field |-> inputs.field, command |-> inputs.command]
      /\ DOMAIN inputs = {"linked", "field", "command"}
  BY DEF Host!LoopInv
<1>5. CASE UNCHANGED Host!running /\ stage' \in {"failed", "done"}
  BY <1>1, <1>3, <1>4, <1>5 DEF Host!LoopInv, Host!running
<1>6. CASE UNCHANGED Host!running /\ stage = "parse" /\ stage' \in {"parse", "found", "failed"}
  BY <1>1, <1>6 DEF Host!LoopInv, Host!running
<1>7. CASE HostGoes("found", "build")
  BY <1>1, <1>7 DEF Host!LoopInv, HostGoes, Host!running
<1>8. CASE HostGoes("log", "config") \/ HostGoes("config", "first row")
  <2>1. Host!Scheduled(hostTime)' = Host!Scheduled(hostTime)
    BY <1>1, <1>8 DEF Host!Scheduled, HostGoes, Host!running
  <2>2. Host!Carried' <=> Host!Carried
    BY <1>2, <1>8 DEF Host!Carried, HostGoes, Host!running
  <2> QED
    BY <1>1, <1>8, <2>1, <2>2 DEF Host!LoopInv, HostGoes, Host!running
<1>9. CASE LoadsModels
  <2>1. /\ inputs'.linked = [link \in Host!Links |-> 0] /\ inputs'.field = inputs.field
        /\ inputs'.command = inputs.command
        /\ inputs' = [linked |-> inputs'.linked, field |-> inputs'.field,
                      command |-> inputs'.command]
    BY <1>4, <1>9 DEF LoadsModels
  <2>2. hostTime = 0 /\ hostTime' = 0 /\ inputs.command = Host!Unknown
    BY <1>9 DEF LoadsModels, Host!LoopInv
  <2>3. Host!Carried'
    BY <1>2, <2>1, <2>2 DEF Host!Carried
  <2>4. hostProgram # "autopilot" => Host!Scheduled(hostTime)' = Host!Unknown
    BY <1>1 DEF Host!Scheduled
  <2> QED
    BY <1>1, <1>3, <1>9, <2>1, <2>2, <2>3, <2>4 DEF Host!LoopInv, LoadsModels
<1>10. CASE Host!FirstCommands
  <2>1. stage = "schedule" /\ stage' = "log" /\ inputs' = Host!WriteCommands(inputs, 0)
        /\ hostTime' = hostTime
    BY <1>10 DEF Host!FirstCommands, Host!From
  <2>2. /\ inputs'.linked = inputs.linked /\ inputs'.field = inputs.field
        /\ inputs'.command = Host!Scheduled(0)
        /\ inputs' = [linked |-> inputs'.linked, field |-> inputs'.field,
                      command |-> inputs'.command]
    BY <1>4, <2>1 DEF Host!WriteCommands
  <2>3. hostTime = 0 /\ Host!Carried
    BY <2>1 DEF Host!LoopInv
  <2>4. Host!Carried'
    BY <1>2, <2>1, <2>2, <2>3 DEF Host!Carried
  <2>5. Host!Scheduled(hostTime)' = Host!Scheduled(0)
    BY <1>1, <2>1, <2>3 DEF Host!Scheduled
  <2> QED
    BY <1>1, <1>3, <2>1, <2>2, <2>3, <2>4, <2>5 DEF Host!LoopInv
<1>11. CASE LogsFirst
  <2>1. stage = "first row" /\ stage' = "loop" /\ UNCHANGED <<hostTime, inputs>>
    BY <1>11 DEF LogsFirst
  <2>2. hostTime = 0 /\ Host!Carried /\ inputs.command = Host!Scheduled(hostTime)
    BY <2>1 DEF Host!LoopInv
  <2>3. row' = Host!Row(hostTime, inputs)'
    BY <1>1, <1>11, <2>1, <2>2
       DEF LogsFirst, Host!Row, Host!TrimRow, Host!AutopilotRow, Host!RocketRow
  <2>4. Host!Carried' /\ inputs'.command = Host!Scheduled(hostTime)'
    BY <1>1, <1>2, <2>1, <2>2 DEF Host!Carried, Host!Scheduled
  <2>5. inputs'.field = Host!Unknown /\ Host!FieldSampled'
    BY <2>1, <2>2 DEF Host!FieldSampled, Host!LoopInv
  <2> QED
    BY <1>1, <1>3, <1>4, <2>1, <2>2, <2>3, <2>4, <2>5 DEF Host!LoopInv
<1>12. CASE Host!Step
  <2>1. /\ stage = "loop" /\ stage' = "stepped" /\ hostTime' = hostTime + 1 /\ hostTime' \in Nat
        /\ inputs' = [inputs EXCEPT !.linked =
                       [link \in DOMAIN @ |-> Host!Output(link[1], hostTime')]]
    BY <1>3, <1>12 DEF Host!Step
  <2>2. Host!Carried
    BY <2>1 DEF Host!LoopInv
  <2>3. /\ inputs'.linked = [link \in Host!Links |-> Host!Output(link[1], hostTime')]
        /\ inputs' = [linked |-> inputs'.linked, field |-> inputs'.field,
                      command |-> inputs'.command]
    BY <1>4, <2>1, <2>2 DEF Host!Carried
  <2>4. ASSUME NEW link \in Host!Links
        PROVE  Host!Output(link[1], hostTime') = IF link[1] = Host!Plant THEN hostTime'
               ELSE hostTime' - 1
    <3>1. CASE link[1] # Host!Plant
      <4>1. <<Host!Plant, link[1]>> \in Host!Links
        BY <1>3, <3>1, LinksFromPlant
      <4>2. inputs.linked[<<Host!Plant, link[1]>>] = hostTime
        BY <2>2, <4>1 DEF Host!Carried
      <4> QED
        BY <1>3, <2>1, <3>1, <4>2 DEF Host!Output
    <3> QED
      BY <3>1 DEF Host!Output
  <2>5. Host!Carried'
    BY <1>2, <1>3, <2>1, <2>3, <2>4 DEF Host!Carried
  <2> QED
    BY <1>1, <1>3, <2>1, <2>3, <2>5 DEF Host!LoopInv
<1>13. CASE FinishesStep
  <2>1. stage = "stepped" /\ stage' = "loop" /\ hostTime' = hostTime /\ Host!EvaluateField
        /\ inputs' = Host!WriteCommands([inputs EXCEPT !.field = field'], hostTime)
        /\ row' = Host!Row(hostTime, inputs')
    BY <1>13 DEF FinishesStep, Host!FinishStep
  <2>2. /\ inputs'.linked = inputs.linked /\ inputs'.field = field'
        /\ inputs'.command = Host!Scheduled(hostTime)
        /\ inputs' = [linked |-> inputs'.linked, field |-> inputs'.field,
                      command |-> inputs'.command]
    BY <1>4, <2>1 DEF Host!WriteCommands
  <2>3. Host!Carried
    BY <2>1 DEF Host!LoopInv
  <2>4. row' = Host!Row(hostTime, inputs)'
    BY <1>1, <2>1 DEF Host!Row, Host!TrimRow, Host!AutopilotRow, Host!RocketRow
  <2>5. Host!Carried' /\ inputs'.command = Host!Scheduled(hostTime)'
    BY <1>1, <1>2, <2>1, <2>2, <2>3 DEF Host!Carried, Host!Scheduled
  <2>6. Host!FieldSampled' /\ hostTime' # 0
    BY <2>1, <2>2 DEF Host!EvaluateField, Host!FieldSampled, Host!LoopInv
  <2> QED
    BY <1>1, <1>3, <2>1, <2>2, <2>4, <2>5, <2>6 DEF Host!LoopInv
<1>14. CASE UNCHANGED Host!vars
  BY <1>2, <1>14
     DEF Host!vars, Host!running, Host!LoopInv, Host!Carried, Host!Scheduled, Host!Row,
         Host!TrimRow, Host!AutopilotRow, Host!RocketRow, Host!FieldSampled
<1> QED
  BY <1>3, <1>5, <1>6, <1>7, <1>8, <1>9, <1>10, <1>11, <1>12, <1>13, <1>14, HostMoves

\* The inductive invariant of the hosts' loop: which plant state everything the
\* simulation will sample next was computed from, at each place of the program.
THEOREM LoopInvariant == Host!Spec => []Host!LoopInv
<1>1. Host!Init => Host!LoopInv
  BY DEF Host!Init, Host!LoopInv, Host!Programs, Host!NoInputs, Host!Unknown
<1>2. Host!LoopInv /\ [Host!Next]_(Host!vars) => Host!LoopInv'
  BY LoopStep
<1> QED
  BY <1>1, <1>2, PTL DEF Host!Spec

\* The rows are those the next step samples.
THEOREM RowsAreSampled == Host!Spec => [][Host!LoggedInputsAreSampled]_(Host!vars)
<1>1. Host!LoopInv => Host!LoggedInputsAreSampled
  BY DEF Host!LoopInv, Host!Carried, Host!LoggedInputsAreSampled, Host!Step
<1> QED
  BY <1>1, LoopInvariant, PTL

\* The greatest of a set of positions is the one no other is behind.
LEMMA GreatestPosition ==
  ASSUME NEW S \in SUBSET Nat, NEW m \in S, \A i \in S : i <= m
  PROVE  Host!Max(S) = m
<1>1. Host!Max(S) \in S /\ \A i \in S : Host!Max(S) >= i
  BY DEF Host!Max
<1>2. m \in Nat /\ Host!Max(S) \in Nat /\ Host!Max(S) <= m /\ Host!Max(S) >= m
  BY <1>1
<1> QED
  BY <1>2

\* The first pass past one more argument.
LEMMA OneMoreArgument ==
  ASSUME NEW k \in 1 .. Len(args) - 1, args \in Seq(Host!Arguments)
  PROVE  /\ Host!Arg(k) # "case" => Host!CasesBefore(k + 1) = Host!CasesBefore(k)
         /\ Host!Arg(k) = "case" => /\ Host!CasesBefore(k + 1) = Host!CasesBefore(k) \cup {k}
                              /\ Host!Max(Host!CasesBefore(k + 1)) = k
<1>1. Len(args) \in Nat
  OBVIOUS
<1>2. Host!Arg(k) # "case" => Host!CasesBefore(k + 1) = Host!CasesBefore(k)
  BY <1>1 DEF Host!CasesBefore
<1>3. ASSUME Host!Arg(k) = "case" PROVE Host!CasesBefore(k + 1) = Host!CasesBefore(k) \cup {k}
  BY <1>1, <1>3 DEF Host!CasesBefore
<1>4. ASSUME Host!Arg(k) = "case" PROVE Host!Max(Host!CasesBefore(k + 1)) = k
  <2>1. /\ Host!CasesBefore(k + 1) \in SUBSET Nat /\ k \in Host!CasesBefore(k + 1)
        /\ \A i \in Host!CasesBefore(k + 1) : i <= k
    BY <1>1, <1>4 DEF Host!CasesBefore
  <2> QED
    BY <2>1, GreatestPosition
<1> QED
  BY <1>2, <1>3, <1>4

\* The second pass past one more name: the last of its kind so far.
LEMMA OneMoreName ==
  ASSUME args' = args, names' = names \cup {hostAt}, hostAt \in Nat,
         \A i \in names : i \in 1 .. hostAt - 2,
         NEW option
  PROVE  /\ Host!Arg(hostAt) = option =>
            Host!Given(option)' # {} /\ Host!LastGiven(option)' = Host!Arg(hostAt + 1)
         /\ Host!Arg(hostAt) # option => /\ Host!Given(option)' = Host!Given(option)
                             /\ Host!LastGiven(option)' = Host!LastGiven(option)
<1>1. Host!Given(option)' = {i \in names \cup {hostAt} : Host!Arg(i) = option}
  BY DEF Host!Given, Host!Arg
<1>2. CASE Host!Arg(hostAt) = option
  <2>1. /\ Host!Given(option)' \in SUBSET Nat /\ hostAt \in Host!Given(option)'
        /\ \A i \in Host!Given(option)' : i <= hostAt
    BY <1>1, <1>2
  <2>2. Host!Max(Host!Given(option)') = hostAt
    BY <2>1, GreatestPosition
  <2> QED
    BY <1>2, <2>1, <2>2 DEF Host!LastGiven, Host!Arg
<1>3. CASE Host!Arg(hostAt) # option
  <2>1. Host!Given(option)' = Host!Given(option)
    BY <1>1, <1>3 DEF Host!Given
  <2> QED
    BY <1>3, <2>1 DEF Host!LastGiven, Host!Arg
<1> QED
  BY <1>2, <1>3

\* What neither pass changes, and what depends on it alone.
LEMMA ParseKeeps ==
  ASSUME hostProgram' = hostProgram, args' = args
  PROVE  /\ Host!Defaults' = Host!Defaults
         /\ \A k : Host!CasesBefore(k)' = Host!CasesBefore(k)
            /\ Host!CaseFound(k)' = Host!CaseFound(k)
<1>1. Host!Defaults' = Host!Defaults
  BY DEF Host!Defaults
<1>2. \A k : Host!CasesBefore(k)' = Host!CasesBefore(k)
  BY DEF Host!CasesBefore, Host!Arg
<1> QED
  BY <1>1, <1>2 DEF Host!CaseFound, Host!Arg

LEMMA FindCaseStep ==
  ASSUME Host!ParseInv, stage = "parse", hostProgram' = hostProgram, Host!FindCase, stage' = "parse"
  PROVE  pass' = 1 /\ Host!FirstPass'
<1>1. /\ hostProgram # "rocket" /\ names = {} /\ args \in Seq(Host!Arguments)
      /\ pass = 1 /\ hostAt \in 1 .. Len(args) - 1 /\ Len(args) \in Nat /\ Host!FirstPass
  BY DEF Host!ParseInv, Host!FindCase, Host!FirstPass, Host!SecondPass
<1>2. /\ hostAt' = hostAt + 1 /\ args' = args /\ pass' = pass /\ names' = names
      /\ \/ Host!Arg(hostAt) # "case" /\ options' = options
         \/ Host!Arg(hostAt) = "case" /\ Host!Arg(hostAt + 1) \in Host!Cases
            /\ Host!ApplyCase(Host!Arg(hostAt + 1))
  BY <1>1 DEF Host!FindCase
<1>3. /\ Host!Defaults' = Host!Defaults
      /\ Host!CasesBefore(hostAt)' = Host!CasesBefore(hostAt + 1)
         /\ Host!CaseFound(hostAt)' = Host!CaseFound(hostAt + 1)
  BY <1>2, ParseKeeps
<1>4. hostAt' \in 1 .. Len(args') + 1
  BY <1>1, <1>2
<1>5. CASE Host!Arg(hostAt) # "case"
  <2>1. Host!CasesBefore(hostAt + 1) = Host!CasesBefore(hostAt) /\ options' = options
    BY <1>1, <1>2, <1>5, OneMoreArgument
  <2>2. Host!CaseFound(hostAt + 1) = Host!CaseFound(hostAt)
    BY <2>1 DEF Host!CaseFound
  <2>3. \A i \in Host!CasesBefore(hostAt)' : Host!Arg(i + 1)' \in Host!Cases
    BY <1>1, <1>2, <1>3, <2>1 DEF Host!FirstPass, Host!Arg
  <2> QED
    BY <1>1, <1>2, <1>3, <1>4, <2>1, <2>2, <2>3 DEF Host!FirstPass
<1>6. CASE Host!Arg(hostAt) = "case"
  <2>1. /\ Host!CasesBefore(hostAt + 1) = Host!CasesBefore(hostAt) \cup {hostAt}
           /\ Host!Max(Host!CasesBefore(hostAt + 1)) = hostAt
        /\ Host!Arg(hostAt + 1) \in Host!Cases /\ Host!ApplyCase(Host!Arg(hostAt + 1))
    BY <1>1, <1>2, <1>6, OneMoreArgument
  <2>2. Host!CaseFound(hostAt + 1) = Host!Arg(hostAt + 1)
    BY <1>1, <2>1 DEF Host!CaseFound
  <2>3. \A i \in Host!CasesBefore(hostAt)' : Host!Arg(i + 1)' \in Host!Cases
    BY <1>1, <1>2, <1>3, <2>1 DEF Host!FirstPass, Host!Arg
  <2>4. options' = [case |-> IF hostProgram = "autopilot" THEN Host!Arg(hostAt + 1)
                             ELSE Host!Defaults.case,
                    setting |-> Host!DefaultOf(Host!Arg(hostAt + 1)), csv |-> "results"]
    BY <1>1, <2>1 DEF Host!ApplyCase, Host!FirstPass
  <2> QED
    BY <1>1, <1>2, <1>3, <1>4, <2>2, <2>3, <2>4 DEF Host!FirstPass
<1> QED
  BY <1>2, <1>5, <1>6

LEMMA BeginSecondPassStep ==
  ASSUME Host!ParseInv, stage = "parse", hostProgram' = hostProgram, Host!BeginSecondPass
  PROVE  pass' = 2 /\ Host!SecondPass'
<1>1. /\ hostProgram # "rocket" /\ names = {} /\ args \in Seq(Host!Arguments)
      /\ hostAt \in 1 .. Len(args) + 1 /\ hostAt >= Len(args) /\ Len(args) \in Nat /\ Host!FirstPass
  BY DEF Host!ParseInv, Host!BeginSecondPass, Host!FirstPass
<1>2. /\ pass' = 2 /\ hostAt' = 1 /\ args' = args /\ names' = {} /\ options' = options
  BY <1>1 DEF Host!BeginSecondPass
<1>3. Host!CasesBefore(hostAt) = Host!CasesBefore(Len(args))
  BY <1>1 DEF Host!CasesBefore
<1>4. /\ Host!CaseFound(hostAt) = Host!CaseFound(Len(args)) /\ Host!Defaults' = Host!Defaults
      /\ Host!CasesBefore(Len(args))' = Host!CasesBefore(Len(args))
      /\ Host!CaseFound(Len(args))' = Host!CaseFound(Len(args))
  BY <1>2, <1>3, ParseKeeps DEF Host!CaseFound
<1>5. \A option : Host!Given(option)' = {}
  BY <1>2 DEF Host!Given
<1>6. \A i \in Host!CasesBefore(Len(args))' : Host!Arg(i + 1)' \in Host!Cases /\ ~(i < hostAt' - 1)
  BY <1>1, <1>2, <1>3, <1>4 DEF Host!FirstPass, Host!Arg, Host!CasesBefore
<1> QED
  BY <1>1, <1>2, <1>3, <1>4, <1>5, <1>6 DEF Host!FirstPass, Host!SecondPass

\* Behind a `--case' in the first pass stands the number of a case, which the second
\* pass takes for no name: a `--case' that is a value is the last thing it accepts.
LEMMA NoNameBehindCase ==
  ASSUME Host!SecondPass, hostProgram # "rocket", args \in Seq(Host!Arguments), hostAt <= Len(args),
         Host!Arg(hostAt) \in {"case", "set", "csv", "no-cocom"}
  PROVE  \A i \in Host!CasesBefore(Len(args)) : i < hostAt => i \in names
<1>1. Len(args) \in Nat /\ hostAt \in Nat
  BY DEF Host!SecondPass
<1>2. SUFFICES ASSUME NEW i \in Host!CasesBefore(Len(args)), i < hostAt PROVE i \in names
  OBVIOUS
<1>3. Host!Arg(i + 1) \in Host!Cases /\ (i < hostAt - 1 => i \in names) /\ i \in Nat
  BY <1>1, <1>2 DEF Host!SecondPass, Host!CasesBefore
<1>4. i # hostAt - 1
  BY <1>1, <1>3 DEF Host!Cases
<1> QED
  BY <1>1, <1>2, <1>3, <1>4

LEMMA TakeOptionStep ==
  ASSUME Host!ParseInv, stage = "parse", hostProgram' = hostProgram, stage' = "parse",
         NEW known \in {Host!TrimOptions, Host!AutopilotOptions, Host!RocketOptions},
         hostProgram = "rocket" => known = Host!RocketOptions,
         Host!TakeOption(known)
  PROVE  pass' = 2 /\ Host!SecondPass'
<1>1. /\ pass = 2 /\ Host!SecondPass /\ hostAt \in 1 .. Len(args) /\ args \in Seq(Host!Arguments)
      /\ Len(args) \in Nat
  BY DEF Host!ParseInv, Host!TakeOption, Host!SecondPass
<1>2. args' = args /\ pass' = 2
  BY <1>1 DEF Host!TakeOption
<1>3. /\ Host!CaseFound(Len(args))' = Host!CaseFound(Len(args)) /\ Host!Defaults' = Host!Defaults
      /\ Host!CasesBefore(Len(args))' = Host!CasesBefore(Len(args))
  BY <1>2, ParseKeeps
<1>4. CASE Host!Arg(hostAt) = "no-cocom"
  <2>1. hostAt' = hostAt + 1 /\ UNCHANGED <<options, names>>
    BY <1>1, <1>4 DEF Host!TakeOption
  <2>2. hostAt' \in 1 .. Len(args') + 1
    BY <1>1, <1>2, <2>1
  <2>3. \A i \in names' : i \in 1 .. hostAt' - 2 /\ Host!Arg(i)' \in {"case", "set", "csv"}
    BY <1>1, <1>2, <2>1 DEF Host!SecondPass, Host!Arg
  <2>4. hostProgram' # "rocket" =>
          \A i \in Host!CasesBefore(Len(args))' : Host!Arg(i + 1)' \in Host!Cases
          /\ (i < hostAt' - 1 => i \in names')
    BY <1>1, <1>2, <1>3, <1>4, <2>1, NoNameBehindCase DEF Host!SecondPass, Host!Arg
  <2>5. \A option : Host!Given(option)' = Host!Given(option)
        /\ Host!LastGiven(option)' = Host!LastGiven(option)
    BY <1>2, <2>1 DEF Host!Given, Host!LastGiven, Host!Arg
  <2> QED
    BY <1>1, <1>2, <1>3, <2>1, <2>2, <2>3, <2>4, <2>5 DEF Host!SecondPass
<1>5. CASE Host!Arg(hostAt) # "no-cocom"
  <2>1. /\ Host!Arg(hostAt) \in known /\ hostAt < Len(args)
           /\ options' = Host!Applied(Host!Arg(hostAt), Host!Arg(hostAt + 1))
        /\ names' = names \cup {hostAt} /\ hostAt' = hostAt + 2
    BY <1>1, <1>5 DEF Host!TakeOption
  <2>2. Host!Arg(hostAt) \in {"case", "set", "csv"}
        /\ (hostProgram = "rocket" => Host!Arg(hostAt) # "case")
    BY <2>1 DEF Host!TrimOptions, Host!AutopilotOptions, Host!RocketOptions
  <2>3. hostAt' \in 1 .. Len(args') + 1
    BY <1>1, <1>2, <2>1
  <2>4. \A i \in names' : i \in 1 .. hostAt' - 2 /\ Host!Arg(i)' \in {"case", "set", "csv"}
    BY <1>1, <1>2, <2>1, <2>2 DEF Host!SecondPass, Host!Arg
  <2>5. hostProgram' # "rocket" =>
          \A i \in Host!CasesBefore(Len(args))' : Host!Arg(i + 1)' \in Host!Cases
          /\ (i < hostAt' - 1 => i \in names')
    <3> SUFFICES ASSUME hostProgram # "rocket", NEW i \in Host!CasesBefore(Len(args))
                 PROVE  Host!Arg(i + 1) \in Host!Cases /\ (i < hostAt' - 1 => i \in names')
      BY <1>2, <1>3 DEF Host!Arg
    <3>1. Host!Arg(i + 1) \in Host!Cases /\ i \in Nat
      BY <1>1 DEF Host!SecondPass, Host!CasesBefore
    <3>2. i < hostAt => i \in names
      BY <1>1, <2>2, NoNameBehindCase
    <3> QED
      BY <1>1, <2>1, <3>1, <3>2
  <2>6. \A option :
          /\ Host!Arg(hostAt) = option =>
             Host!Given(option)' # {} /\ Host!LastGiven(option)' = Host!Arg(hostAt + 1)
          /\ Host!Arg(hostAt) # option => /\ Host!Given(option)' = Host!Given(option)
                              /\ Host!LastGiven(option)' = Host!LastGiven(option)
    <3>1. hostAt \in Nat /\ \A i \in names : i \in 1 .. hostAt - 2
      BY <1>1 DEF Host!SecondPass
    <3> QED
      BY <1>2, <2>1, <3>1, OneMoreName
  <2>7. hostProgram' = "rocket" => Host!Given("case")' = {}
    BY <1>1, <2>2, <2>6 DEF Host!SecondPass
  <2> DEFINE Found == Host!CaseFound(Len(args))
             Now ==
               [case |-> IF Host!Given("case") # {} THEN Host!LastGiven("case")
                         ELSE IF hostProgram = "autopilot" THEN Found ELSE Host!Defaults.case,
                setting |-> IF Host!Given("set") = {} THEN Host!DefaultOf(Found)
                            ELSE Host!Explicit(Host!LastGiven("set")),
                csv |-> IF Host!Given("csv") = {} THEN "results" ELSE Host!LastGiven("csv")]
  <2>8. options = Now
    BY <1>1 DEF Host!SecondPass
  <2>9. options' = [case |-> IF Host!Arg(hostAt) = "case" THEN Host!Arg(hostAt + 1) ELSE Now.case,
                    setting |-> IF Host!Arg(hostAt) = "set" THEN Host!Explicit(Host!Arg(hostAt + 1))
                                ELSE Now.setting,
                    csv |-> IF Host!Arg(hostAt) = "csv" THEN Host!Arg(hostAt + 1) ELSE Now.csv]
    BY <2>1, <2>2, <2>8 DEF Host!Applied
  <2>10. options' = [case |-> IF Host!Given("case")' # {} THEN Host!LastGiven("case")'
                              ELSE IF hostProgram = "autopilot" THEN Found ELSE Host!Defaults.case,
                     setting |-> IF Host!Given("set")' = {} THEN Host!DefaultOf(Found)
                                 ELSE Host!Explicit(Host!LastGiven("set")'),
                     csv |-> IF Host!Given("csv")' = {} THEN "results" ELSE Host!LastGiven("csv")']
    BY <2>6, <2>9
  <2> QED
    BY <1>2, <1>3, <2>3, <2>4, <2>5, <2>7, <2>10 DEF Host!SecondPass
<1> QED
  BY <1>2, <1>4, <1>5

LEMMA ParseStep == ASSUME Host!ParseInv, [Host!Next]_(Host!vars) PROVE Host!ParseInv'
<1>1. hostProgram' = hostProgram /\ hostProgram \in Host!Programs /\ args \in Seq(Host!Arguments)
  BY HostKeeps DEF Host!ParseInv
<1>2. ASSUME Host!TrimParse \/ Host!AutopilotParse \/ Host!RocketParse
      PROVE  Host!ParseInv'
  <2>1. stage = "parse"
    BY <1>2 DEF Host!TrimParse, Host!AutopilotParse, Host!RocketParse, Host!Parsing
  <2>2. \/ Host!FindCase \/ Host!BeginSecondPass
        \/ \E known \in {Host!TrimOptions, Host!AutopilotOptions, Host!RocketOptions} :
             Host!TakeOption(known) /\ (hostProgram = "rocket" => known = Host!RocketOptions)
        \/ Host!CheckPeriod \/ Host!Accept
    BY <1>2 DEF Host!TrimParse, Host!AutopilotParse, Host!RocketParse, Host!Parsing
  <2>3. args' = args \/ (args' = <<>> /\ stage' = "found")
    BY <2>2
       DEF Host!FindCase, Host!BeginSecondPass, Host!TakeOption, Host!CheckPeriod, Host!Accept,
           Host!parsing
  <2>4. args' \in Seq(Host!Arguments)
    <3>1. <<>> \in Seq(Host!Arguments)
      BY EmptySeq
    <3> QED
      BY <1>1, <2>3, <3>1
  <2>5. stage' = "parse" =>
          \/ Host!FindCase \/ Host!BeginSecondPass
          \/ \E known \in {Host!TrimOptions, Host!AutopilotOptions, Host!RocketOptions} :
               Host!TakeOption(known) /\ (hostProgram = "rocket" => known = Host!RocketOptions)
    BY <2>2 DEF Host!CheckPeriod, Host!Accept
  <2>6. stage' = "parse" => (pass' = 1 /\ Host!FirstPass') \/ (pass' = 2 /\ Host!SecondPass')
    BY <1>1, <2>1, <2>5, FindCaseStep, BeginSecondPassStep, TakeOptionStep
  <2> QED
    BY <1>1, <2>4, <2>6 DEF Host!ParseInv
<1>3. CASE Host!Next /\ stage # "parse"
  <2>1. UNCHANGED Host!parsing /\ stage' # "parse"
    BY <1>3
       DEF Host!Next, Host!Trim, Host!TrimParse, Host!TrimPreflight, Host!TrimBuild,
           Host!TrimLog, Host!TrimConfig, Host!TrimFirstRow, Host!TrimLoop, Host!TrimEnd,
           Host!Autopilot, Host!AutopilotParse, Host!AutopilotPreflight, Host!AutopilotBuild,
           Host!FirstCommands, Host!AutopilotLog, Host!AutopilotConfig, Host!AutopilotFirstRow,
           Host!AutopilotLoop, Host!AutopilotEnd, Host!Rocket, Host!RocketParse,
           Host!RocketPreflight, Host!RocketBuild, Host!RocketLog, Host!RocketConfig,
           Host!RocketFirstRow, Host!RocketLoop, Host!RocketEnd, Host!Step, Host!StepThrows,
           Host!Preflight, Host!Build, Host!OpenTruthLog, Host!WriteRunConfig, Host!LogFirstRow,
           Host!FinishStepOf, Host!Terminate, Host!From, Host!Parsing, Host!Fail
  <2> QED
    BY <1>1, <2>1 DEF Host!parsing, Host!ParseInv
<1>4. CASE UNCHANGED Host!vars
  <2>1. UNCHANGED <<hostProgram, args, pass, hostAt, options, names, stage>>
    BY <1>4 DEF Host!vars, Host!parsing
  <2>2. /\ Host!Defaults' = Host!Defaults
        /\ \A k : Host!CasesBefore(k)' = Host!CasesBefore(k)
           /\ Host!CaseFound(k)' = Host!CaseFound(k)
    BY <2>1, ParseKeeps
  <2>3. \A option : Host!Given(option)' = Host!Given(option)
        /\ Host!LastGiven(option)' = Host!LastGiven(option)
    BY <2>1 DEF Host!Given, Host!LastGiven, Host!Arg
  <2>4. (Host!FirstPass' <=> Host!FirstPass) /\ (Host!SecondPass' <=> Host!SecondPass)
    BY <2>1, <2>2, <2>3 DEF Host!FirstPass, Host!SecondPass, Host!Arg
  <2> QED
    BY <2>1, <2>4 DEF Host!ParseInv
<1>5. CASE Host!Next /\ stage = "parse"
  <2>1. Host!TrimParse \/ Host!AutopilotParse \/ Host!RocketParse
    BY <1>5
       DEF Host!Next, Host!Trim, Host!TrimPreflight, Host!TrimBuild, Host!TrimLog,
           Host!TrimConfig, Host!TrimFirstRow, Host!TrimLoop, Host!TrimEnd, Host!Autopilot,
           Host!AutopilotPreflight, Host!AutopilotBuild, Host!FirstCommands, Host!AutopilotLog,
           Host!AutopilotConfig, Host!AutopilotFirstRow, Host!AutopilotLoop, Host!AutopilotEnd,
           Host!Rocket, Host!RocketPreflight, Host!RocketBuild, Host!RocketLog,
           Host!RocketConfig, Host!RocketFirstRow, Host!RocketLoop, Host!RocketEnd, Host!Step,
           Host!StepThrows, Host!Preflight, Host!Build, Host!OpenTruthLog, Host!WriteRunConfig,
           Host!LogFirstRow, Host!FinishStepOf, Host!Terminate, Host!From
  <2> QED
    BY <1>2, <2>1
<1> QED
  BY <1>3, <1>4, <1>5

\* The inductive invariant of parse_args(): what either pass has made of the arguments
\* behind it, and that the second has taken every case the first one found.
THEOREM ParseInvariant == Host!Spec => []Host!ParseInv
<1>1. Host!Init => Host!ParseInv
  <2> SUFFICES ASSUME Host!Init PROVE Host!ParseInv
    OBVIOUS
  <2>1. PICK n \in 0 .. MaxArgs : args \in [1 .. n -> Host!Arguments]
    BY DEF Host!Init, Host!Lines
  <2>2. n \in Nat /\ args \in Seq(Host!Arguments) /\ Len(args) \in Nat
    BY <2>1
  <2>3. hostProgram \in Host!Programs /\ hostAt = 1 /\ names = {} /\ options = Host!Defaults
    BY DEF Host!Init
  <2>4. Host!CasesBefore(1) = {} /\ \A option : Host!Given(option) = {}
    BY <2>2, <2>3 DEF Host!CasesBefore, Host!Given
  <2>5. Host!Defaults = [case |-> Host!Defaults.case,
                         setting |-> Host!DefaultOf(Host!Defaults.case),
                    csv |-> "results"]
    BY <2>3
       DEF Host!Defaults, Host!Programs, Host!TrimDefaults, Host!AutopilotDefaults,
           Host!RocketDefaults, Host!OptionsOf
  <2>6. CASE hostProgram = "rocket"
    <3>1. pass = 2 /\ Host!CaseFound(Len(args)) = Host!Defaults.case
      BY <2>6 DEF Host!Init, Host!CaseFound
    <3>2. Host!SecondPass
      BY <2>2, <2>3, <2>4, <2>5, <2>6, <3>1 DEF Host!SecondPass
    <3> QED
      BY <2>2, <2>3, <3>1, <3>2 DEF Host!ParseInv
  <2>7. CASE hostProgram # "rocket"
    <3>1. pass = 1 /\ Host!CaseFound(1) = Host!Defaults.case
      BY <2>4, <2>7 DEF Host!Init, Host!CaseFound
    <3>2. Host!FirstPass
      BY <2>2, <2>3, <2>4, <2>5, <2>7, <3>1 DEF Host!FirstPass
    <3> QED
      BY <2>2, <2>3, <3>1, <3>2 DEF Host!ParseInv
  <2> QED
    BY <2>6, <2>7
<1>2. Host!ParseInv /\ [Host!Next]_(Host!vars) => Host!ParseInv'
  BY ParseStep
<1> QED
  BY <1>1, <1>2, PTL DEF Host!Spec

THEOREM OptionsWin == Host!Spec => [][Host!ExplicitOptionsWin]_(Host!vars)
<1>1. Host!ParseInv => Host!ExplicitOptionsWin
  <2> SUFFICES ASSUME Host!ParseInv, Host!Accept
               PROVE  options = [case |-> Host!CaseGiven,
                       setting |-> IF Host!Given("set") = {} THEN Host!DefaultOf(Host!CaseGiven)
                                   ELSE Host!Explicit(Host!LastGiven("set")),
                       csv |-> IF Host!Given("csv") = {} THEN "results" ELSE Host!LastGiven("csv")]
    BY DEF Host!ExplicitOptionsWin
  <2>1. /\ Host!SecondPass /\ args \in Seq(Host!Arguments) /\ Len(args) \in Nat
        /\ hostAt = Len(args) + 1
    BY DEF Host!ParseInv, Host!Accept, Host!SecondPass
  <2>2. hostProgram # "rocket" => Host!Given("case") = Host!CasesBefore(Len(args))
    <3> SUFFICES ASSUME hostProgram # "rocket", NEW i
                 PROVE  i \in Host!Given("case") <=> i \in Host!CasesBefore(Len(args))
      OBVIOUS
    <3>1. i \in Host!Given("case") => i \in Host!CasesBefore(Len(args))
      BY <2>1 DEF Host!SecondPass, Host!Given, Host!CasesBefore
    <3>2. i \in Host!CasesBefore(Len(args)) => i \in names /\ Host!Arg(i) = "case"
      BY <2>1 DEF Host!SecondPass, Host!CasesBefore
    <3> QED
      BY <3>1, <3>2 DEF Host!Given
  <2>3. Host!CaseFound(Len(args)) = Host!CaseGiven
    <3>1. hostProgram = "rocket" => Host!Given("case") = {}
      BY <2>1 DEF Host!SecondPass
    <3> QED
      BY <2>2, <3>1 DEF Host!CaseFound, Host!CaseGiven, Host!LastGiven
  <2>4. (IF Host!Given("case") # {} THEN Host!LastGiven("case")
         ELSE IF hostProgram = "autopilot" THEN Host!CaseFound(Len(args)) ELSE Host!Defaults.case)
           = Host!CaseGiven
    BY <2>3 DEF Host!CaseGiven
  <2> QED
    BY <2>1, <2>3, <2>4 DEF Host!SecondPass
<1> QED
  BY <1>1, ParseInvariant, PTL
=============================================================================

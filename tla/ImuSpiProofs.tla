---------------------------- MODULE ImuSpiProofs -----------------------------
(***************************************************************************)
(* Theorems about ImuSpi for any sizes of frame, FIFO, burst and caller,   *)
(* any number of frames, and whatever times out: one lemma per part of the *)
(* invariant.                                                              *)
(***************************************************************************)
EXTENDS ImuSpi, SequenceTheorems, TLAPS

\* What the sizes are.
LEMMA Sizes ==
  /\ MaxFrames \in Nat /\ FrameBytes \in Nat \ {0} /\ FifoBytes \in Nat \ {0}
  /\ MaxBurst \in Nat \ {0} /\ Capacity \in Nat \ {0}
  BY SizesAssumption

(***************************************************************************)
(* Bytes and frames.                                                       *)
(***************************************************************************)
\* Where the j-th byte of the frame behind n others is, and that no other frame's
\* bytes are there.
LEMMA Positions ==
  ASSUME NEW f \in Nat \ {0}, NEW n \in Nat
  PROVE  /\ n * f \in Nat /\ (n + 1) * f = n * f + f
         /\ \A j \in 1 .. f : /\ ((n * f + j) - 1) \div f = n
                             /\ ((n * f + j) - 1) % f = j - 1
         /\ \A p \in 1 .. n * f : ((p - 1) \div f) + 1 \in 1 .. n
<1>1. n * f \in Nat /\ (n + 1) * f = n * f + f
  OBVIOUS
<1>2. ASSUME NEW j \in 1 .. f
      PROVE  ((n * f + j) - 1) \div f = n /\ ((n * f + j) - 1) % f = j - 1
  OBVIOUS
<1>3. ASSUME NEW p \in 1 .. n * f
      PROVE  ((p - 1) \div f) + 1 \in 1 .. n
  <2> DEFINE q == (p - 1) \div f
             r == (p - 1) % f
  <2>1. q \in Int /\ r \in 0 .. f - 1 /\ p - 1 = f * q + r
    OBVIOUS
  <2> HIDE DEF q, r
  <2>2. q >= 0
    <3>1. q < 0 => f * q <= 0 - f
      BY <2>1
    <3> QED
      BY <1>1, <2>1, <3>1
  <2>3. q < n
    <3>1. q >= n => f * q >= n * f
      BY <2>1
    <3> QED
      BY <1>1, <2>1, <3>1
  <2> QED
    BY <2>1, <2>2, <2>3 DEF q
<1> QED
  BY <1>1, <1>2, <1>3

\* The bytes of a frame.
LEMMA FrameProperties ==
  ASSUME NEW k \in Frames
  PROVE  /\ FrameOf(k) \in Seq(Bytes) /\ Len(FrameOf(k)) = FrameBytes
         /\ \A j \in 1 .. FrameBytes : FrameOf(k)[j] = <<k, j>>
  BY Sizes DEF FrameOf, Bytes, Frames

\* A byte of the stream, by its frame and its place there,
LEMMA StreamByteAt ==
  ASSUME NEW w, NEW n \in Nat, NEW j \in 1 .. FrameBytes
  PROVE  StreamByte(w, n * FrameBytes + j) = <<w[n + 1], j>>
<1>1. /\ ((n * FrameBytes + j) - 1) \div FrameBytes = n
      /\ ((n * FrameBytes + j) - 1) % FrameBytes = j - 1
  BY Sizes, Positions
<1> QED
  BY <1>1 DEF StreamByte

\* and that a frame more leaves the bytes before it where they are.
LEMMA StreamByteKept ==
  ASSUME NEW w, NEW v, NEW n \in Nat, \A i \in 1 .. n : v[i] = w[i]
  PROVE  \A p \in 1 .. n * FrameBytes : StreamByte(v, p) = StreamByte(w, p)
  BY Sizes, Positions DEF StreamByte

(***************************************************************************)
(* The types.                                                              *)
(***************************************************************************)
\* What a byte handed to the parser leaves of the types.
LEMMA ParserTypes ==
  ASSUME held \in Seq(Bytes), Len(held) < FrameBytes, decoded \in Seq(Frames), polled \in Nat,
         NEW byte \in Bytes, Parse(byte)
  PROVE  /\ held' \in Seq(Bytes) /\ Len(held') < FrameBytes
         /\ decoded' \in Seq(Frames) /\ polled' \in Nat
<1> USE Sizes
<1> DEFINE bytes == IF held = <<>> /\ byte[2] # 1 THEN <<>> ELSE Append(held, byte)
<1>1. bytes \in Seq(Bytes) /\ Len(bytes) \in Nat
  <2>1. Append(held, byte) \in Seq(Bytes) /\ <<>> \in Seq(Bytes)
    BY AppendProperties, EmptySeq
  <2> QED
    BY <2>1, LenProperties
<1>2. /\ Len(bytes) < FrameBytes => held' = bytes /\ UNCHANGED <<decoded, polled>>
      /\ ~(Len(bytes) < FrameBytes) =>
           /\ held' = <<>>
           /\ \/ /\ bytes = FrameOf(byte[1])
                 /\ decoded' = Append(decoded, byte[1]) /\ polled' = polled + 1
              \/ UNCHANGED <<decoded, polled>>
  BY DEF Parse
<1>3. bytes = FrameOf(byte[1]) => byte[1] \in Frames
  <2>1. byte # Dummy => byte[1] \in Frames
    BY DEF Bytes
  <2>2. byte = Dummy => bytes = <<>> \/ bytes = Append(held, byte)
    OBVIOUS
  <2>3. \A s \in Seq(Bytes) : Append(s, Dummy)[Len(s) + 1] = Dummy /\ Len(Append(s, Dummy)) = Len(s) + 1
    BY AppendProperties DEF Bytes
  <2>4. byte = Dummy => bytes # FrameOf(byte[1])
    <3> SUFFICES ASSUME byte = Dummy, bytes = FrameOf(0) PROVE FALSE
      BY DEF Dummy
    <3>1. Len(FrameOf(0)) = FrameBytes /\ \A j \in 1 .. FrameBytes : FrameOf(0)[j] = <<0, j>>
      BY DEF FrameOf
    <3>2. CASE bytes = <<>>
      BY <3>1, <3>2
    <3>3. CASE bytes = Append(held, Dummy)
      <4>1. Len(held) \in Nat
        BY LenProperties
      <4>2. Len(held) + 1 = FrameBytes /\ FrameOf(0)[Len(held) + 1] = Dummy
        BY <2>3, <3>1, <3>3
      <4>3. Len(held) + 1 \in 1 .. FrameBytes
        BY <4>1, <4>2
      <4>4. Dummy = <<0, Len(held) + 1>>
        BY <3>1, <4>2, <4>3
      <4> QED
        BY <4>1, <4>4 DEF Dummy
    <3> QED
      BY <2>2, <3>2, <3>3
  <2> QED
    BY <2>1, <2>4
<1> HIDE DEF bytes
<1>4. CASE Len(bytes) < FrameBytes
  BY <1>1, <1>2, <1>4
<1>5. CASE ~(Len(bytes) < FrameBytes)
  <2>1. held' \in Seq(Bytes) /\ Len(held') = 0
    BY <1>2, <1>5, EmptySeq
  <2>2. CASE UNCHANGED <<decoded, polled>>
    BY <2>1, <2>2, <1>5
  <2>3. CASE bytes = FrameOf(byte[1]) /\ decoded' = Append(decoded, byte[1]) /\ polled' = polled + 1
    <3>1. byte[1] \in Frames
      BY <1>3, <2>3
    <3>2. decoded' \in Seq(Frames) /\ polled' \in Nat
      BY <2>3, <3>1, AppendProperties
    <3> QED
      BY <2>1, <3>2
  <2> QED
    BY <1>2, <1>5, <2>2, <2>3
<1> QED
  BY <1>4, <1>5

\* Whatever the step, the types are kept.
LEMMA TypesKept ==
  ASSUME TypeOK, AnswersTyped, WireInv, ReadsInv, Next
  PROVE  TypeOK' /\ AnswersTyped'
<1> USE Sizes
<1>1. CASE \/ ReadLevel \/ DriveLine \/ Terminate \/ Drained \/ DrainExpires \/ ClearLevels
           \/ StoreShutdown \/ CheckStop \/ NothingPosted \/ StoreComplete
  <2>1. /\ UNCHANGED <<attached, mosi, miso, fifo, sticky, sampled, written, driver, transfer, rx>>
        /\ UNCHANGED <<remaining, held, decoded, polled, told>>
        /\ present' \in {present, 0} /\ line' \in {line, level, 0} /\ level' \in {level, 0, 1}
        /\ stopRequested' \in {stopRequested, 1} /\ expired' \in {expired, 1}
        /\ phase' \in {phase, "Complete", "Shutdown"}
        /\ fmu' \in {fmu, "stepped", "driving", "drain", "stopping", "cleared", "down"}
        /\ service' \in {service, "check", "poll", "none"}
    BY <1>1 DEF ReadLevel, DriveLine, Terminate, Drained, DrainExpires, ClearLevels,
         StoreShutdown,
       CheckStop, NothingPosted, StoreComplete, region, slave, caller, parsed
  <2> QED
    BY <2>1 DEF TypeOK, AnswersTyped
<1>2. CASE \/ LoadPhase \/ SeeShutdown \/ TimeOut \/ Release \/ Attach \/ Identified \/ Started
           \/ BeginPoll \/ Leave
  <2>1. /\ UNCHANGED <<present, line, mosi, miso, slave, thread>>
        /\ UNCHANGED <<rx, remaining, held, decoded, told>>
        /\ attached' \in {attached, 0, 1} /\ phase' \in {phase, "Idle"} /\ polled' \in {polled, 0}
        /\ driver' \in {driver, "identify", "start", "watch", "status", "ended"}
        /\ transfer' \in {"none", "load", "post", "failed", "done"}
    BY <1>2 DEF LoadPhase, SeeShutdown, TimeOut, Release, Attach, Identified, Started,
         BeginPoll, Leave,
       region, parsed, Continue, Pause
  <2> QED
    BY <2>1 DEF TypeOK, AnswersTyped, slave, thread
<1>3. CASE Post
  <2>1. /\ UNCHANGED <<attached, present, line, miso, slave, thread, driver, rx, remaining, parsed>>
        /\ transfer' = "wait" /\ phase' = "Posted" /\ mosi' = Request /\ transfer = "post"
    BY <1>3 DEF Post
  <2>2. driver \in {"identify", "start", "status", "burst"}
    BY <2>1 DEF WireInv, TypeOK
  <2>3. Request.kind = driver /\ Request.bytes \in 0 .. MaxBurst
    BY <2>2 DEF Request, Transfer, TypeOK
  <2> QED
    BY <2>1, <2>2, <2>3 DEF TypeOK, AnswersTyped, slave, thread, parsed
<1>4. CASE SeeComplete
  BY <1>4 DEF SeeComplete, TypeOK, AnswersTyped, region, slave, thread, parsed
<1>5. CASE TakeStatus
  <2>1. /\ UNCHANGED <<region, slave, thread, rx, held, decoded, polled>>
        /\ told' = IF rx.overflow = 1 THEN rx.at ELSE told
        /\ remaining' = Budget(rx.count)
        /\ driver' \in {"watch", "burst"} /\ transfer' \in {"none", "load"}
    BY <1>5 DEF TakeStatus, Pause, Continue
  <2>2. Capacity * FrameBytes \in Nat
    BY Positions
  <2>3. remaining' \in 0 .. FifoBytes /\ told' \in 0 .. sampled
    BY <2>1, <2>2 DEF AnswersTyped, Answers, Budget
  <2> QED
    BY <2>1, <2>3 DEF TypeOK, AnswersTyped, region, slave, thread
<1>6. CASE TakeByte
  <2>1. /\ UNCHANGED <<region, slave, thread, told>>
        /\ driver = "burst" /\ transfer = "done"
        /\ Parse(Head(rx.bytes)) /\ rx' = [rx EXCEPT !.bytes = Tail(@)] /\ remaining' = remaining - 1
        /\ driver' \in {driver, "watch", "burst"} /\ transfer' \in {transfer, "none", "load"}
    BY <1>6 DEF TakeByte, Pause, Continue
  <2>2. Up /\ ~AnswerLost /\ Answered /\ Answer = rx /\ InFlight = rx.bytes
    BY <2>1 DEF Up, AnswerLost, Answered, Answer, InFlight
  <2>3. rx.bytes \in Seq(Bytes) /\ rx.bytes # <<>> /\ remaining \in 1 .. FifoBytes
    <3>1. rx.bytes \in Seq(Bytes) /\ remaining \in 0 .. FifoBytes
      BY DEF AnswersTyped, Answers, TypeOK
    <3>2. remaining > 0 /\ Len(rx.bytes) >= 1
      BY <2>1, <2>2, <3>1 DEF ReadsInv, Live
    <3>3. rx.bytes # <<>>
      BY <3>2, EmptySeq
    <3> QED
      BY <3>1, <3>2, <3>3
  <2>4. Head(rx.bytes) \in Bytes /\ Tail(rx.bytes) \in Seq(Bytes)
    BY <2>3, HeadTailProperties
  <2>5. /\ held' \in Seq(Bytes) /\ Len(held') < FrameBytes
        /\ decoded' \in Seq(Frames) /\ polled' \in Nat
    BY <2>1, <2>4, ParserTypes DEF TypeOK, AnswersTyped
  <2>6. rx' \in Answers /\ rx'.at = rx.at
    BY <2>1, <2>4 DEF AnswersTyped, Answers
  <2>7. remaining' \in 0 .. FifoBytes
    BY <2>1, <2>3
  <2>8. /\ UNCHANGED <<phase, attached, present, line, mosi, miso, fifo, sticky, sampled, written>>
        /\ UNCHANGED <<fmu, level, stopRequested, service, expired, told>>
        /\ driver' \in {"watch", "burst"} /\ transfer' \in {"none", "load", "done"}
    BY <2>1 DEF region, slave, thread
  <2>9. TypeOK'
    BY <2>5, <2>7, <2>8 DEF TypeOK
  <2>10. AnswersTyped'
    BY <2>5, <2>6, <2>8 DEF AnswersTyped
  <2> QED
    BY <2>9, <2>10
<1>7. CASE PushFrame
  <2>1. /\ UNCHANGED <<region, level, stopRequested, service, expired, caller>>
        /\ fmu' = "sampling" /\ sampled' = sampled + 1 /\ sampled < MaxFrames
        /\ FrameBytes > FifoBytes - Len(fifo) => sticky' = 1 /\ UNCHANGED <<fifo, written>>
        /\ ~(FrameBytes > FifoBytes - Len(fifo)) =>
             /\ fifo' = fifo \o FrameOf(sampled + 1)
             /\ written' = Append(written, sampled + 1)
             /\ UNCHANGED sticky
    BY <1>7 DEF PushFrame
  <2>2. sampled + 1 \in Frames /\ sampled' \in 0 .. MaxFrames
    BY <2>1 DEF TypeOK, Frames
  <2>3. fifo' \in Seq(Bytes) /\ Len(fifo') <= FifoBytes /\ written' \in Seq(Frames)
    <3>1. CASE FrameBytes > FifoBytes - Len(fifo)
      BY <2>1, <3>1 DEF TypeOK
    <3>2. CASE ~(FrameBytes > FifoBytes - Len(fifo))
      <4> DEFINE s == FrameOf(sampled + 1)
                 k == sampled + 1
      <4>1. s \in Seq(Bytes) /\ Len(s) = FrameBytes
        BY <2>2, FrameProperties
      <4>2. fifo' = fifo \o s /\ written' = Append(written, k) /\ k \in Frames
        BY <2>1, <2>2, <3>2
      <4> HIDE DEF s, k
      <4>3. fifo' \in Seq(Bytes) /\ Len(fifo') = Len(fifo) + Len(s)
        BY <4>1, <4>2, ConcatProperties DEF TypeOK
      <4>4. written' \in Seq(Frames)
        BY <4>2, AppendProperties DEF TypeOK
      <4>5. Len(fifo) \in Nat
        BY LenProperties DEF TypeOK
      <4> QED
        BY <3>2, <4>1, <4>3, <4>4, <4>5
    <3> QED
      BY <3>1, <3>2
  <2>4. sampled' \in 0 .. MaxFrames /\ sampled <= sampled' /\ sampled \in Nat
    BY <2>1, <2>2 DEF TypeOK
  <2>5. told' \in 0 .. sampled' /\ rx'.at <= sampled' /\ miso'.at <= sampled'
    BY <2>1, <2>4 DEF AnswersTyped, Answers, region, caller, parsed
  <2> QED
    BY <2>1, <2>3, <2>4, <2>5 DEF TypeOK, AnswersTyped, region, caller, parsed
<1>8. CASE Shift
  <2>1. /\ UNCHANGED <<phase, attached, present, line, mosi>>
        /\ UNCHANGED <<fmu, level, stopRequested, expired, caller>>
        /\ service' = "complete" /\ UNCHANGED sampled
    BY <1>8 DEF Shift, ShiftStatus, ShiftBurst, ShiftStartup, ShiftIdentity, slave
  <2>2. /\ fifo' \in Seq(Bytes) /\ Len(fifo') <= FifoBytes /\ sticky' \in {0, 1}
        /\ written' \in Seq(Frames) /\ miso' \in Answers /\ miso'.at <= sampled
    <3>0. NoAnswer \in Answers /\ NoAnswer.at <= sampled
      BY EmptySeq DEF NoAnswer, Answers, TypeOK
    <3>1. CASE ShiftStatus
      <4>1. Len(fifo) \in 0 .. FifoBytes /\ sticky \in {0, 1} /\ sampled \in 0 .. MaxFrames
        BY LenProperties DEF TypeOK
      <4>2. /\ miso' = [overflow |-> sticky, count |-> Len(fifo), at |-> sampled, bytes |-> <<>>]
            /\ sticky' = 0 /\ UNCHANGED <<fifo, sampled, written>>
        BY <3>1 DEF ShiftStatus, NoAnswer
      <4>3. miso' \in Answers /\ miso'.at = sampled
        BY <4>1, <4>2, EmptySeq DEF Answers
      <4> QED
        BY <4>1, <4>2, <4>3 DEF TypeOK
    <3>2. CASE ShiftBurst
      <4> DEFINE b == [i \in 1 .. mosi.bytes |-> IF i <= Len(fifo) THEN fifo[i] ELSE Dummy]
      <4>1. /\ miso' = [NoAnswer EXCEPT !.bytes = b] /\ UNCHANGED <<sticky, written>>
            /\ mosi.bytes >= Len(fifo) => fifo' = <<>>
            /\ ~(mosi.bytes >= Len(fifo)) => fifo' = SubSeq(fifo, mosi.bytes + 1, Len(fifo))
        BY <3>2 DEF ShiftBurst
      <4>2. Len(fifo) \in Nat /\ mosi.bytes \in Nat /\ \A i \in 1 .. Len(fifo) : fifo[i] \in Bytes
        BY LenProperties, ElementOfSeq DEF TypeOK, AnswersTyped
      <4>3. b \in Seq(Bytes)
        BY <4>2 DEF Bytes
      <4> HIDE DEF b
      <4>4. miso' \in Answers /\ miso'.at = NoAnswer.at
        BY <3>0, <4>1, <4>3 DEF NoAnswer, Answers
      <4>5. fifo' \in Seq(Bytes) /\ Len(fifo') <= FifoBytes
        <5>1. CASE mosi.bytes >= Len(fifo)
          <6>1. fifo' = <<>> /\ Len(<<>>) = 0 /\ <<>> \in Seq(Bytes)
            BY <4>1, <5>1, EmptySeq
          <6> QED
            BY <6>1
        <5>2. CASE ~(mosi.bytes >= Len(fifo))
          <6> DEFINE m == mosi.bytes + 1
          <6>1. m \in Nat /\ m >= 1 /\ m <= Len(fifo) /\ \A i \in m .. Len(fifo) : fifo[i] \in Bytes
            BY <4>2, <5>2
          <6>2. fifo' = SubSeq(fifo, m, Len(fifo))
            BY <4>1, <5>2
          <6> HIDE DEF m
          <6>3. fifo' \in Seq(Bytes) /\ Len(fifo') = Len(fifo) - m + 1
            BY <4>2, <6>1, <6>2, SubSeqProperties
          <6> QED
            BY <4>2, <6>1, <6>3 DEF TypeOK
        <5> QED
          BY <5>1, <5>2
      <4> QED
        BY <3>0, <4>1, <4>4, <4>5 DEF TypeOK
    <3>3. CASE ShiftStartup
      <4>1. fifo' = <<>> /\ sticky' = 0 /\ written' = <<>> /\ miso' = NoAnswer
        BY <3>3 DEF ShiftStartup
      <4>2. Len(<<>>) = 0 /\ <<>> \in Seq(Bytes) /\ <<>> \in Seq(Frames)
        BY EmptySeq
      <4> QED
        BY <3>0, <4>1, <4>2
    <3>4. CASE ShiftIdentity
      BY <3>0, <3>4 DEF ShiftIdentity, slave, TypeOK
    <3> QED
      BY <1>8, <3>1, <3>2, <3>3, <3>4 DEF Shift
  <2> QED
    BY <2>1, <2>2 DEF TypeOK, AnswersTyped, caller, parsed
<1> QED
  BY <1>1, <1>2, <1>3, <1>4, <1>5, <1>6, <1>7, <1>8 DEF Next, Fmu, Service, TransferSteps,
       Driver

(***************************************************************************)
(* The bus and the line.                                                   *)
(***************************************************************************)
\* A transfer of a driver that is up stays the one its present step asked for, and
\* the service thread stays gone before the bus.
LEMMA WireKept ==
  ASSUME TypeOK, AnswersTyped, WireInv, Next
  PROVE  WireInv'
<1> USE DEF WireInv, Up
<1>0. UNCHANGED <<driver, remaining>> => UNCHANGED Request
  BY DEF Request
<1>1. CASE PushFrame \/ ReadLevel \/ DriveLine \/ Terminate \/ Drained \/ DrainExpires
  <2>1. /\ UNCHANGED <<phase, mosi, service, driver, transfer, remaining>>
        /\ fmu' \in {"sampling", "driving", "stepped", "drain", "stopping"}
    BY <1>1 DEF PushFrame, ReadLevel, DriveLine, Terminate, Drained, DrainExpires, region,
         caller
  <2> QED
    BY <1>0, <2>1
<1>2. CASE ClearLevels
  BY <1>0, <1>2 DEF ClearLevels, caller
<1>3. CASE StoreShutdown
  BY <1>0, <1>3 DEF StoreShutdown, caller
<1>4. CASE CheckStop \/ NothingPosted
  <2>1. /\ UNCHANGED <<phase, mosi, fmu, driver, transfer, remaining>>
        /\ service \in {"check", "poll"} /\ service' \in {"check", "poll", "none"}
    BY <1>4 DEF CheckStop, NothingPosted, region, caller
  <2> QED
    BY <1>0, <2>1
<1>5. CASE Shift
  <2>1. /\ UNCHANGED <<phase, mosi, fmu, driver, transfer, remaining>>
        /\ service = "poll" /\ service' = "complete" /\ phase = "Posted"
    BY <1>5 DEF Shift, caller
  <2> QED
    BY <1>0, <2>1
<1>6. CASE StoreComplete
  <2>1. /\ UNCHANGED <<mosi, fmu, driver, transfer, remaining>>
        /\ service = "complete" /\ service' = "check" /\ phase' = "Complete"
    BY <1>6 DEF StoreComplete, caller
  <2> QED
    BY <2>1
<1>7. CASE LoadPhase
  <2>1. /\ UNCHANGED <<phase, mosi, service, fmu, driver, remaining>>
        /\ transfer = "load" /\ transfer' \in {"failed", "post"}
    BY <1>7 DEF LoadPhase, region, thread
  <2> QED
    BY <2>1
<1>8. CASE Post
  BY <1>0, <1>8 DEF Post, thread
<1>9. CASE SeeComplete \/ SeeShutdown \/ TimeOut
  <2>1. /\ UNCHANGED <<phase, mosi, service, fmu, driver, remaining>>
        /\ transfer = "wait"
        /\ \/ transfer' = "release" /\ phase = "Complete"
           \/ transfer' = "failed"
    BY <1>9 DEF SeeComplete, SeeShutdown, TimeOut, region, thread
  <2> QED
    BY <2>1
<1>10. CASE Release
  <2>1. /\ UNCHANGED <<mosi, service, fmu, driver, remaining>>
        /\ transfer = "release" /\ transfer' = "done" /\ phase' = "Idle"
    BY <1>10 DEF Release, thread
  <2>2. driver \in {"identify", "start", "status", "burst"}
    BY <2>1 DEF TypeOK
  <2>3. service # "complete"
    BY <2>1, <2>2
  <2> QED
    BY <2>1, <2>2, <2>3
<1>11. CASE Attach
  BY <1>11 DEF Attach, thread
<1>12. CASE Identified \/ Started \/ BeginPoll \/ TakeStatus
  <2>1. /\ UNCHANGED <<phase, mosi, service, fmu>>
        /\ driver \in {"identify", "start", "watch", "status"} /\ transfer \in {"done", "none"}
        /\ \/ driver' = "watch" /\ transfer' = "none"
           \/ driver' \in {"start", "status", "burst"} /\ transfer' = "load"
    BY <1>12 DEF Identified, Started, BeginPoll, TakeStatus, Continue, Pause, region, thread
  <2> QED
    BY <2>1
<1>13. CASE TakeByte
  <2>1. /\ UNCHANGED <<phase, mosi, service, fmu>>
        /\ driver = "burst" /\ transfer = "done"
        /\ \/ driver' = "watch" /\ transfer' = "none"
           \/ driver' = "burst" /\ transfer' \in {"load", "done"}
    BY <1>13 DEF TakeByte, Continue, Pause, region, thread
  <2> QED
    BY <2>1
<1>14. CASE Leave
  BY <1>14 DEF Leave, thread
<1> QED
  BY <1>1, <1>2, <1>3, <1>4, <1>5, <1>6, <1>7, <1>8, <1>9, <1>10, <1>11, <1>12, <1>13, <1>14
     DEF Next, Fmu, Service, TransferSteps, Driver

\* The line announces what is in the FIFO as it is driven: in the steps between, the
\* FIFO is only emptied.
LEMMA LineKept ==
  ASSUME TypeOK, AnswersTyped, LineInv, Next
  PROVE  LineInv'
<1> USE DEF LineInv, LineAnnouncesSamples
<1>1. CASE PushFrame
  BY <1>1 DEF PushFrame
<1>2. CASE ReadLevel
  BY <1>2 DEF ReadLevel, slave
<1>3. CASE DriveLine
  BY <1>3 DEF DriveLine, slave
<1>4. CASE Shift
  <2>1. UNCHANGED <<line, level, fmu>> /\ (fifo = <<>> => fifo' = <<>>)
    <3>1. UNCHANGED <<line, level, fmu>>
      BY <1>4 DEF Shift
    <3>2. mosi.bytes >= 0 /\ Len(<<>>) = 0
      BY DEF AnswersTyped
    <3> QED
      BY <1>4, <3>1, <3>2 DEF Shift, ShiftStatus, ShiftBurst, ShiftStartup, ShiftIdentity, slave
  <2> QED
    BY <2>1
<1>5. CASE \/ Terminate \/ Drained \/ DrainExpires \/ ClearLevels \/ StoreShutdown
  <2>1. UNCHANGED fifo /\ fmu' \in {"drain", "stopping", "cleared", "down"}
    BY <1>5 DEF Terminate, Drained, DrainExpires, ClearLevels, StoreShutdown, slave
  <2> QED
    BY <2>1
<1>6. CASE \/ CheckStop \/ NothingPosted \/ StoreComplete
           \/ LoadPhase \/ Post \/ SeeComplete \/ SeeShutdown \/ Release \/ TimeOut \/ Driver
  <2>1. UNCHANGED <<fifo, fmu, line, level>>
    BY <1>6 DEF CheckStop, NothingPosted, StoreComplete, LoadPhase, Post, SeeComplete,
         SeeShutdown,
       Release, TimeOut, Driver, Attach, Identified, Started, BeginPoll, TakeStatus, TakeByte,
       Leave,
       region, slave, thread
  <2> QED
    BY <2>1
<1> QED
  BY <1>1, <1>2, <1>3, <1>4, <1>5, <1>6 DEF Next, Fmu, Service, TransferSteps

(***************************************************************************)
(* The stream, the reads, the room and the gaps: steps that touch nothing  *)
(* of them.                                                                *)
(***************************************************************************)
Carried == ReadsInv /\ StreamInv /\ RoomInv /\ GapInv

\* A step that leaves the FIFO, the parser and what is answered alone.
LEMMA SameCarried ==
  ASSUME Carried,
         UNCHANGED <<fifo, sticky, sampled, written, driver, remaining, held, decoded, polled, told>>,
         Live' => Live /\ UNCHANGED Answer /\ (Answered' <=> Answered)
  PROVE  Carried'
<1>1. Live' => UNCHANGED InFlight
  BY DEF InFlight
<1>2. ReadsInv'
  BY <1>1 DEF Carried, ReadsInv
<1>3. StreamInv'
  <2>1. UNCHANGED Parsed
    BY DEF Parsed
  <2>2. UNCHANGED InFlight /\ StreamHolds => StreamHolds'
    BY <2>1 DEF StreamHolds
  <2>3. Begun' /\ Live' => StreamHolds'
    BY <1>1, <2>2 DEF Carried, StreamInv, Begun
  <2> QED
    BY <2>3 DEF Carried, StreamInv
<1>4. RoomInv'
  BY DEF Carried, RoomInv
<1>5. GapInv'
  <2>1. UNCHANGED Parsed
    BY DEF Parsed
  <2>2. ASSUME Live' PROVE UNCHANGED Counted /\ \A k : Announced(k)' <=> Announced(k)
    <3>1. UNCHANGED Counted
      BY <2>1, <2>2 DEF Counted
    <3>2. \A k : Announced(k)' <=> Announced(k)
      BY <2>2 DEF Announced, Reported
    <3> QED
      BY <3>1, <3>2
  <2>3. Begun' /\ Live' => GapsTold'
    <3> SUFFICES ASSUME Begun', Live' PROVE GapsTold'
      OBVIOUS
    <3>1. GapsTold /\ UNCHANGED Answer /\ (Answered' <=> Answered)
      BY DEF Carried, GapInv, Begun
    <3> QED
      BY <2>2, <3>1 DEF GapsTold
  <2> QED
    BY <2>3 DEF Carried, GapInv, GapIsAnnounced
<1> QED
  BY <1>2, <1>3, <1>4, <1>5 DEF Carried

\* The FMU's steps but the sampling, the service thread's but the shift, and the steps
\* of a transfer.
LEMMA QuietKept ==
  ASSUME TypeOK, AnswersTyped, WireInv, Carried,
         \/ ReadLevel \/ DriveLine \/ Terminate \/ Drained \/ DrainExpires \/ ClearLevels
         \/ StoreShutdown
         \/ CheckStop \/ NothingPosted \/ StoreComplete
         \/ LoadPhase \/ Post \/ SeeComplete \/ SeeShutdown \/ TimeOut \/ Release
  PROVE  Carried'
<1>1. UNCHANGED <<fifo, sticky, sampled, written, driver, remaining, held, decoded, polled, told>>
  BY DEF ReadLevel, DriveLine, Terminate, Drained, DrainExpires, ClearLevels, StoreShutdown,
       CheckStop,
     NothingPosted, StoreComplete, LoadPhase, Post, SeeComplete, SeeShutdown, TimeOut, Release,
     slave,
     caller, parsed
<1>2. Live' => Live /\ UNCHANGED Answer /\ (Answered' <=> Answered)
  <2> USE DEF Live, Up, AnswerLost, Answered
  <2>0. /\ UNCHANGED <<phase, transfer, service, rx, miso>> => UNCHANGED Answer
        /\ ~Answered /\ ~Answered' => UNCHANGED Answer
    BY DEF Answer
  <2>1. CASE ReadLevel \/ DriveLine \/ Terminate \/ Drained \/ DrainExpires \/ ClearLevels
    <3>1. UNCHANGED <<phase, transfer, service, rx, miso, driver>>
      BY <2>1 DEF ReadLevel, DriveLine, Terminate, Drained, DrainExpires, ClearLevels, region,
           caller
    <3> QED
      BY <2>0, <3>1
  <2>2. CASE StoreShutdown
    <3>1. /\ UNCHANGED <<transfer, service, rx, miso, driver>> /\ service = "none"
          /\ phase' = "Shutdown"
      BY <2>2 DEF StoreShutdown, caller, WireInv
    <3>2. Live' => Live /\ (Answered' <=> Answered)
      BY <3>1
    <3>3. UNCHANGED Answer \/ transfer = "wait"
      BY <2>0, <3>1 DEF Answer
    <3> QED
      BY <3>1, <3>2, <3>3
  <2>3. CASE CheckStop \/ NothingPosted
    <3>1. UNCHANGED <<phase, transfer, rx, miso, driver>> /\ service # "complete" /\ service' # "complete"
      BY <2>3 DEF CheckStop, NothingPosted, region, caller
    <3> QED
      BY <3>1 DEF Answer
  <2>4. CASE StoreComplete
    <3>1. /\ UNCHANGED <<transfer, rx, miso, driver>>
          /\ service = "complete" /\ service' = "check" /\ phase' = "Complete"
      BY <2>4 DEF StoreComplete, caller
    <3>2. Live' => transfer = "wait" /\ phase = "Posted"
      BY <3>1 DEF WireInv
    <3> QED
      BY <3>1, <3>2 DEF Answer
  <2>5. CASE LoadPhase
    <3>1. UNCHANGED <<phase, service, rx, miso, driver>> /\ transfer = "load" /\ transfer' \in {"failed", "post"}
      BY <2>5 DEF LoadPhase, region, thread
    <3> QED
      BY <3>1 DEF Answer
  <2>6. CASE Post
    <3>1. /\ UNCHANGED <<service, rx, miso, driver>>
          /\ transfer = "post" /\ transfer' = "wait" /\ phase' = "Posted"
      BY <2>6 DEF Post, thread
    <3>2. Live' => Live /\ service # "complete"
      BY <3>1 DEF WireInv
    <3> QED
      BY <2>0, <3>1, <3>2
  <2>7. CASE SeeComplete
    <3>1. /\ UNCHANGED <<phase, service, miso, driver>> /\ rx' = miso
          /\ transfer = "wait" /\ transfer' = "release" /\ phase = "Complete"
      BY <2>7 DEF SeeComplete, region, thread
    <3> QED
      BY <3>1 DEF Answer
  <2>8. CASE SeeShutdown \/ TimeOut
    BY <2>8 DEF SeeShutdown, TimeOut
  <2>9. CASE Release
    <3>1. UNCHANGED <<service, rx, miso, driver>> /\ transfer = "release" /\ transfer' = "done"
      BY <2>9 DEF Release, thread
    <3> QED
      BY <3>1 DEF Answer
  <2> QED
    BY <2>1, <2>2, <2>3, <2>4, <2>5, <2>6, <2>7, <2>8, <2>9
<1> QED
  BY <1>1, <1>2, SameCarried

\* How many bytes the driver has parsed is a number.
LEMMA ParsedIsNat ==
  ASSUME TypeOK
  PROVE  Parsed \in Nat /\ Len(decoded) * FrameBytes \in Nat /\ Len(held) \in Nat
<1>1. Len(decoded) \in Nat /\ Len(held) \in Nat
  BY LenProperties DEF TypeOK
<1>2. \A n \in Nat : n * FrameBytes \in Nat
  BY Sizes, Positions
<1> QED
  BY <1>1, <1>2 DEF Parsed

\* The driver's steps up to a poll, and its last.
LEMMA ProbeKept ==
  ASSUME TypeOK, AnswersTyped, WireInv, Carried,
         Attach \/ Identified \/ Started \/ BeginPoll \/ Leave
  PROVE  Carried'
<1> USE Sizes
<1>1. /\ UNCHANGED <<fifo, sticky, sampled, written, remaining, held>>
      /\ UNCHANGED <<decoded, told, phase, service, rx, miso>>
      /\ polled' \in {polled, 0}
  BY DEF Attach, Identified, Started, BeginPoll, Leave, region, slave, thread, parsed
<1>2. /\ Len(held) \in Nat /\ Len(held) < FrameBytes /\ Len(fifo) \in Nat
      /\ polled \in Nat /\ remaining \in Nat /\ \A n \in Nat : n * FrameBytes \in Nat
  BY LenProperties, Positions DEF TypeOK, AnswersTyped
<1>3. GapInv /\ UNCHANGED <<written, sampled, decoded, told>>
        => (\A i \in 1 .. Len(written) : written[i] <= sampled)' /\ GapIsAnnounced'
  BY DEF GapInv, GapIsAnnounced
<1>4. CASE Attach
  <2>1. driver = "detached" /\ driver' = "identify" /\ UNCHANGED polled
    BY <1>4 DEF Attach, parsed
  <2>2. ~Begun'
    BY <2>1 DEF Begun
  <2> QED
    BY <1>1, <1>2, <1>3, <2>1, <2>2 DEF Carried, ReadsInv, StreamInv, RoomInv, GapInv
<1>5. CASE Identified
  <2>1. /\ driver = "identify" /\ driver' = "start" /\ transfer = "done" /\ transfer' = "load"
        /\ UNCHANGED polled
    BY <1>5 DEF Identified, Continue, parsed
  <2>2. service # "complete"
    BY <2>1 DEF WireInv, Up
  <2>3. ~Begun'
    BY <1>1, <2>1, <2>2 DEF Begun, Answered
  <2> QED
    BY <1>1, <1>2, <1>3, <2>1, <2>3 DEF Carried, ReadsInv, StreamInv, RoomInv, GapInv
<1>6. CASE Started
  <2>1. /\ driver = "start" /\ driver' = "watch" /\ transfer = "done" /\ UNCHANGED polled
    BY <1>6 DEF Started, Pause, parsed
  <2>2. Begun /\ Live /\ InFlight = <<>> /\ InFlight' = <<>>
    BY <2>1 DEF Begun, Live, Up, AnswerLost, Answered, InFlight
  <2>3. UNCHANGED <<Parsed, Counted>> /\ \A k : Announced(k)' <=> Announced(k)
    BY <1>1, <2>1 DEF Parsed, Counted, Announced, Reported
  <2>4. StreamHolds' /\ GapsTold'
    <3>1. StreamHolds /\ GapsTold
      BY <2>2 DEF Carried, StreamInv, GapInv
    <3>2. StreamHolds'
      BY <1>1, <2>2, <2>3, <3>1 DEF StreamHolds
    <3>3. GapsTold'
      BY <1>1, <2>1, <2>3, <3>1 DEF GapsTold
    <3> QED
      BY <3>2, <3>3
  <2> QED
    BY <1>1, <1>2, <1>3, <2>1, <2>4 DEF Carried, ReadsInv, StreamInv, RoomInv, GapInv
<1>7. CASE BeginPoll
  <2>1. /\ driver = "watch" /\ driver' = "status" /\ transfer' = "load" /\ polled' = 0
    BY <1>7 DEF BeginPoll, Continue
  <2>2. transfer = "none"
    BY <2>1 DEF WireInv
  <2>3. service # "complete"
    BY <2>1, <2>2 DEF WireInv, Up
  <2>4. Begun /\ Live /\ InFlight = <<>> /\ InFlight' = <<>> /\ ~Answered' /\ Answer' = NoAnswer
    BY <1>1, <2>1, <2>2, <2>3 DEF Begun, Live, Up, AnswerLost, Answered, InFlight, Answer
  <2>5. NoAnswer.overflow = 0 /\ NoAnswer.count = 0
    BY DEF NoAnswer
  <2>6. UNCHANGED Parsed /\ Parsed \in Int
    BY <1>1, <1>2, Positions, LenProperties DEF Parsed, TypeOK
  <2>7. UNCHANGED Counted /\ \A k : Announced(k)' <=> Announced(k)
    <3>1. Counted = Parsed /\ Counted' = Parsed
      BY <2>1, <2>4, <2>5, <2>6 DEF Counted
    <3>2. \A k : Announced(k)' <=> Announced(k)
      BY <1>1, <2>1, <2>4, <2>5 DEF Announced, Reported
    <3> QED
      BY <3>1, <3>2
  <2>8. StreamHolds' /\ GapsTold'
    <3>1. StreamHolds /\ GapsTold
      BY <2>4 DEF Carried, StreamInv, GapInv
    <3>2. StreamHolds'
      BY <1>1, <2>4, <2>6, <3>1 DEF StreamHolds
    <3>3. GapsTold'
      BY <1>1, <2>1, <2>4, <2>7, <3>1 DEF GapsTold
    <3> QED
      BY <3>2, <3>3
  <2>9. RoomInv'
    <3>1. Capacity * FrameBytes \in Nat
      BY <1>2
    <3> QED
      BY <1>1, <1>2, <2>1, <3>1 DEF RoomInv
  <2> QED
    BY <1>1, <1>2, <1>3, <2>1, <2>4, <2>5, <2>8, <2>9 DEF Carried, ReadsInv, StreamInv, GapInv
<1>8. CASE Leave
  <2>1. driver' = "ended" /\ UNCHANGED polled
    BY <1>8 DEF Leave, parsed
  <2>2. ~Live'
    BY <2>1 DEF Live, Up
  <2>3. RoomInv'
    <3>1. polled * FrameBytes \in Nat /\ Capacity * FrameBytes \in Nat
      BY <1>2
    <3> QED
      BY <1>1, <1>2, <2>1, <3>1 DEF Carried, RoomInv
  <2> QED
    BY <1>1, <1>3, <2>1, <2>2, <2>3 DEF Carried, ReadsInv, StreamInv, GapInv
<1> QED
  BY <1>4, <1>5, <1>6, <1>7, <1>8

\* What the driver asked for is what its present step needs, and the answer is on its
\* way once the transfer is shifted.
LEMMA ShiftKept ==
  ASSUME TypeOK, AnswersTyped, WireInv, Carried, Shift
  PROVE  Carried'
<1> USE Sizes
<1>1. /\ UNCHANGED <<phase, mosi, driver, transfer, rx, remaining>>
      /\ UNCHANGED <<held, decoded, polled, told, sampled>>
      /\ service = "poll" /\ service' = "complete" /\ phase = "Posted"
      /\ ShiftStatus \/ ShiftBurst \/ ShiftStartup \/ ShiftIdentity
  BY DEF Shift, caller, parsed, ShiftStatus, ShiftBurst, ShiftStartup, ShiftIdentity, slave
<1>2. Live' => /\ Live /\ transfer = "wait" /\ mosi = Request
               /\ ~Answered /\ Answered' /\ Answer = NoAnswer /\ Answer' = miso'
  BY <1>1 DEF Live, Up, AnswerLost, WireInv, Answered, Answer
<1>3. Request.kind = driver
  BY DEF Request, Transfer
<1>4. /\ UNCHANGED Parsed /\ RoomInv'
      /\ driver' \in {"detached", "identify", "start"} => held' = <<>> /\ decoded' = <<>>
  BY <1>1 DEF Parsed, Carried, RoomInv, StreamInv
<1>5. (\A i \in 1 .. Len(written) : written[i] <= sampled)' /\ GapIsAnnounced'
  <2>1. written' = written \/ written' = <<>>
    BY <1>1 DEF ShiftStatus, ShiftBurst, ShiftStartup, ShiftIdentity, slave
  <2> QED
    BY <1>1, <2>1 DEF Carried, GapInv, GapIsAnnounced
<1>6. ASSUME ~Live' PROVE Carried'
  BY <1>4, <1>5, <1>6 DEF Carried, ReadsInv, StreamInv, GapInv
<1>7. NoAnswer.overflow = 0 /\ NoAnswer.count = 0 /\ NoAnswer.bytes = <<>> /\ Len(<<>>) = 0
  BY DEF NoAnswer
<1>8. ASSUME Live', ShiftStatus PROVE Carried'
  <2>1. /\ driver = "status" /\ sticky' = 0 /\ UNCHANGED <<fifo, written>>
        /\ Answer' = [overflow |-> sticky, count |-> Len(fifo), at |-> sampled, bytes |-> <<>>]
    BY <1>2, <1>3, <1>8 DEF ShiftStatus, NoAnswer
  <2>2. InFlight = <<>> /\ InFlight' = <<>> /\ StreamHolds /\ GapsTold
    BY <1>1, <1>2, <1>7, <1>8, <2>1 DEF InFlight, Carried, StreamInv, GapInv, Begun
  <2>3. ReadsInv'
    BY <1>1, <2>1, LenProperties DEF ReadsInv, TypeOK
  <2>4. StreamHolds'
    BY <1>1, <1>4, <2>1, <2>2 DEF StreamHolds
  <2>5. /\ Len(written) \in Nat /\ \A i \in 1 .. Len(written) : written[i] \in Nat
        /\ \A i \in 1 .. Len(written) : written[i] <= sampled
        /\ sampled \in Nat /\ told \in Nat /\ told <= sampled /\ sticky \in {0, 1}
    BY LenProperties, ElementOfSeq DEF TypeOK, Frames, AnswersTyped, Carried, GapInv
  <2>6. \A k : Announced(k) => told >= k
    BY <1>2, <1>7, <1>8 DEF Announced, Reported
  <2>7. \A i \in 1 .. Len(written) - 1 : written[i + 1] \in Nat /\ written[i + 1] <= sampled
    BY <2>5
  <2>8. GapsTold'
    <3>1. \A i \in 1 .. Len(written) - 1 : written[i + 1] > written[i] + 1 =>
            told >= written[i + 1] - 1 \/ (sticky = 1 /\ sampled >= written[i + 1] - 1)
      BY <2>2, <2>5, <2>6, <2>7 DEF GapsTold
    <3>2. Len(written) > 0 /\ written[Len(written)] < sampled => told >= sampled \/ sticky = 1
      BY <2>2, <2>6 DEF GapsTold
    <3>3. Answer'.overflow = sticky /\ Answer'.at = sampled /\ driver' = "status"
      BY <1>1, <2>1
    <3> QED
      BY <1>1, <2>1, <2>5, <3>1, <3>2, <3>3 DEF GapsTold, Announced, Reported
  <2> QED
    BY <1>1, <1>4, <1>5, <2>1, <2>3, <2>4, <2>8 DEF Carried, StreamInv, GapInv
<1>9. ASSUME Live', ShiftBurst PROVE Carried'
  <2> DEFINE n == mosi.bytes
  <2>1. /\ driver = "burst" /\ UNCHANGED <<sticky, written>>
        /\ n = IF remaining < MaxBurst THEN remaining ELSE MaxBurst
        /\ Answer'.bytes = [i \in 1 .. n |-> IF i <= Len(fifo) THEN fifo[i] ELSE Dummy]
        /\ n >= Len(fifo) => fifo' = <<>>
        /\ ~(n >= Len(fifo)) => fifo' = SubSeq(fifo, n + 1, Len(fifo))
    <3>1. mosi.kind = "burst" /\ driver = "burst" /\ mosi = Request
      BY <1>2, <1>3, <1>9 DEF ShiftBurst
    <3>2. n = IF remaining < MaxBurst THEN remaining ELSE MaxBurst
      BY <3>1 DEF Request, Transfer
    <3>3. miso'.bytes = [i \in 1 .. n |-> IF i <= Len(fifo) THEN fifo[i] ELSE Dummy]
      BY <1>9 DEF ShiftBurst, NoAnswer
    <3> QED
      BY <1>2, <1>9, <3>1, <3>2, <3>3 DEF ShiftBurst
  <2>2. InFlight = <<>> /\ StreamHolds /\ GapsTold
    BY <1>1, <1>2, <1>7, <2>1, <1>9 DEF InFlight, Carried, StreamInv, GapInv, Begun
  <2>3. n \in Nat /\ n > 0 /\ n <= remaining /\ n <= Len(fifo) /\ Len(fifo) \in Nat
    <3>1. remaining > 0 /\ remaining <= Len(fifo) /\ remaining \in Nat /\ Len(fifo) \in Nat
      BY <1>2, <1>7, <1>9, <2>1, <2>2, LenProperties DEF Carried, ReadsInv, TypeOK
    <3> QED
      BY <2>1, <3>1
  <2> HIDE DEF n
  <2>4. /\ Len(InFlight') = n /\ \A i \in 1 .. n : InFlight'[i] = fifo[i]
    <3>1. InFlight' = [i \in 1 .. n |-> IF i <= Len(fifo) THEN fifo[i] ELSE Dummy]
      BY <1>1, <2>1 DEF InFlight
    <3> QED
      BY <2>3, <3>1
  <2>5. Len(fifo') = Len(fifo) - n /\ \A i \in 1 .. Len(fifo') : fifo'[i] = fifo[n + i]
    <3>1. CASE n = Len(fifo)
      BY <1>7, <2>1, <2>3, <3>1
    <3>2. CASE n < Len(fifo)
      <4> DEFINE m == n + 1
      <4>1. m \in Nat /\ m >= 1 /\ m <= Len(fifo) /\ \A i \in m .. Len(fifo) : fifo[i] \in Bytes
        BY <2>3, <3>2, ElementOfSeq DEF TypeOK
      <4>2. fifo' = SubSeq(fifo, m, Len(fifo))
        BY <2>1, <2>3, <3>2
      <4> HIDE DEF m
      <4>3. /\ Len(fifo') = (Len(fifo) - m) + 1
            /\ \A i \in 1 .. (Len(fifo) - m) + 1 : fifo'[i] = fifo[(m + i) - 1]
        BY <2>3, <4>1, <4>2, SubSeqProperties
      <4> QED
        BY <2>3, <4>3 DEF m
    <3> QED
      BY <2>3, <3>1, <3>2
  <2>6. ReadsInv'
    <3>1. remaining \in Nat /\ remaining > 0 /\ remaining <= Len(fifo)
      BY <1>2, <1>7, <1>9, <2>1, <2>2 DEF Carried, ReadsInv, TypeOK
    <3>2. Len(fifo') = Len(fifo) - n /\ Len(InFlight') = n
      BY <2>4, <2>5
    <3> QED
      BY <1>1, <2>1, <2>3, <3>1, <3>2 DEF ReadsInv
  <2>7. StreamHolds'
    <3>1. Parsed \in Nat
      BY ParsedIsNat
    <3>2. Len(written) * FrameBytes = (Parsed + n) + Len(fifo')
      <4> DEFINE all == Len(written) * FrameBytes
                 m   == Len(fifo)
                 k   == Len(fifo')
      <4>1. all = (Parsed + Len(<<>>)) + m
        BY <2>2 DEF StreamHolds
      <4>2. k = m - n /\ m \in Nat
        BY <2>3, <2>5
      <4> HIDE DEF all, m, k
      <4>3. all = (Parsed + n) + k
        BY <1>7, <2>3, <3>1, <4>1, <4>2
      <4> QED
        BY <4>3 DEF all, k
    <3>3. \A i \in 1 .. n : InFlight'[i] = StreamByte(written, Parsed + i)
      <4>1. \A i \in 1 .. Len(fifo) : fifo[i] = StreamByte(written, Parsed + i)
        BY <1>7, <2>2, <3>1 DEF StreamHolds
      <4> QED
        BY <2>3, <2>4, <4>1
    <3>4. \A i \in 1 .. Len(fifo') : fifo'[i] = StreamByte(written, (Parsed + n) + i)
      <4>1. \A i \in 1 .. Len(fifo) : fifo[i] = StreamByte(written, Parsed + i)
        BY <1>7, <2>2, <3>1 DEF StreamHolds
      <4>2. \A i \in 1 .. Len(fifo') : n + i \in 1 .. Len(fifo) /\ Parsed + (n + i) = (Parsed + n) + i
        BY <2>3, <2>5, <3>1
      <4> QED
        BY <2>5, <4>1, <4>2
    <3> QED
      BY <1>1, <1>4, <2>1, <2>2, <2>4, <3>2, <3>3, <3>4 DEF StreamHolds, StreamByte
  <2>8. GapsTold'
    <3>1. UNCHANGED Counted /\ \A k : Announced(k)' <=> Announced(k)
      BY <1>1, <1>4, <2>1 DEF Counted, Announced, Reported
    <3> QED
      BY <1>1, <2>1, <2>2, <3>1 DEF GapsTold
  <2> QED
    BY <1>1, <1>4, <1>5, <2>6, <2>7, <2>8 DEF Carried, StreamInv, GapInv
<1>10. ASSUME Live', ShiftStartup PROVE Carried'
  <2>1. driver = "start" /\ fifo' = <<>> /\ written' = <<>>
    BY <1>2, <1>3, <1>10 DEF ShiftStartup
  <2>2. held' = <<>> /\ decoded' = <<>> /\ InFlight' = <<>>
    BY <1>1, <2>1 DEF Carried, StreamInv, InFlight
  <2>3. StreamHolds'
    BY <1>7, <2>1, <2>2 DEF StreamHolds, Parsed
  <2>4. GapsTold'
    BY <1>1, <1>7, <2>1 DEF GapsTold
  <2> QED
    BY <1>1, <1>4, <1>5, <2>1, <2>3, <2>4 DEF Carried, ReadsInv, StreamInv, GapInv
<1>11. ASSUME Live', ShiftIdentity PROVE Carried'
  <2>1. driver = "identify"
    BY <1>2, <1>3, <1>11 DEF ShiftIdentity
  <2> QED
    BY <1>1, <1>4, <1>5, <2>1 DEF Carried, ReadsInv, StreamInv, GapInv, Begun
<1> QED
  BY <1>1, <1>6, <1>8, <1>9, <1>10, <1>11

\* What was counted is asked for, and what was reported is known.
LEMMA TakeStatusKept ==
  ASSUME TypeOK, AnswersTyped, WireInv, Carried, TakeStatus
  PROVE  Carried'
<1> USE Sizes
<1>1. /\ driver = "status" /\ transfer = "done"
      /\ UNCHANGED <<phase, fifo, sticky, sampled, written, service, rx, held, decoded, polled>>
      /\ rx.overflow = 1 => told' = rx.at
      /\ rx.overflow # 1 => told' = told
      /\ remaining' = Budget(rx.count)
      /\ rx.count = 0 => driver' = "watch" /\ transfer' = "none"
      /\ rx.count # 0 => driver' = "burst" /\ transfer' = "load"
  BY DEF TakeStatus, region, slave, thread, Pause, Continue
<1>2. Live /\ Begun /\ Answered /\ Answer = rx /\ InFlight = <<>> /\ Len(<<>>) = 0
  BY <1>1 DEF Live, Up, AnswerLost, Begun, Answered, Answer, InFlight
<1>3. StreamHolds /\ GapsTold /\ polled = 0 /\ rx.count <= Len(fifo)
  BY <1>1, <1>2 DEF Carried, StreamInv, GapInv, RoomInv, ReadsInv
<1>4. service # "complete"
  BY <1>1 DEF WireInv, Up
<1>5. ~Answered' /\ InFlight' = <<>>
  <2>1. ~Answered'
    BY <1>1, <1>4 DEF Answered
  <2> QED
    BY <1>1, <2>1 DEF InFlight, Answer, NoAnswer
<1>6. /\ rx.count \in Nat /\ rx.at \in Nat /\ told \in Nat /\ Capacity * FrameBytes \in Nat
      /\ Capacity * FrameBytes > 0
      /\ Len(fifo) \in Nat /\ Len(held) \in Nat /\ Len(held) < FrameBytes
  <2>1. \A n \in Nat : n * FrameBytes \in Nat /\ (n + 1) * FrameBytes = n * FrameBytes + FrameBytes
    BY Positions
  <2>2. Capacity * FrameBytes > 0
    <3> DEFINE c == Capacity - 1
    <3>1. c \in Nat /\ Capacity = c + 1
      OBVIOUS
    <3> HIDE DEF c
    <3>2. (c + 1) * FrameBytes = c * FrameBytes + FrameBytes /\ c * FrameBytes \in Nat
      BY <2>1, <3>1
    <3> QED
      BY <3>1, <3>2
  <2> QED
    BY <2>1, <2>2, LenProperties DEF AnswersTyped, Answers, TypeOK
<1>7. /\ remaining' \in Nat /\ remaining' <= rx.count /\ remaining' <= Capacity * FrameBytes
      /\ rx.count # 0 => remaining' > 0
  BY <1>1, <1>6 DEF Budget
<1>8. told' >= told /\ \A k \in Nat : Announced(k) => told' >= k
  <2>1. rx.overflow = 1 => rx.at >= told
    BY <1>1, <1>2, <1>3 DEF GapsTold
  <2>2. \A k \in Nat : Announced(k) => told >= k \/ (rx.overflow = 1 /\ rx.at >= k)
    BY <1>2 DEF Announced, Reported
  <2> QED
    BY <1>1, <1>6, <2>1, <2>2
<1>9. ReadsInv'
  BY <1>1, <1>3, <1>5, <1>6, <1>7, <1>2 DEF ReadsInv
<1>10. StreamHolds'
  <2>1. UNCHANGED Parsed
    BY <1>1 DEF Parsed
  <2> QED
    BY <1>1, <1>2, <1>3, <1>5, <2>1 DEF StreamHolds
<1>11. RoomInv'
  BY <1>1, <1>3, <1>6, <1>7 DEF RoomInv
<1>12. (\A i \in 1 .. Len(written) : written[i] <= sampled)' /\ GapIsAnnounced'
  <2>1. \A i \in 1 .. Len(decoded) : decoded[i] \in Nat
    BY ElementOfSeq DEF TypeOK, Frames
  <2> QED
    BY <1>1, <1>6, <1>8, <2>1 DEF Carried, GapInv, GapIsAnnounced, AnswersTyped
<1>13. GapsTold'
  <2>1. Parsed \in Nat /\ UNCHANGED Parsed
    BY <1>1, ParsedIsNat DEF Parsed
  <2>2. Counted = Parsed + rx.count /\ Counted' \in Nat /\ Counted' <= Counted
    BY <1>1, <1>2, <1>6, <1>7, <2>1 DEF Counted
  <2>3. /\ Len(written) \in Nat /\ \A i \in 1 .. Len(written) : written[i] \in Nat /\ written[i] - 1 \in Nat
        /\ sampled \in Nat /\ \A i \in 1 .. Len(written) - 1 : i + 1 \in 1 .. Len(written)
        /\ \A i \in Nat : i * FrameBytes \in Nat
    <3>1. Len(written) \in Nat /\ sampled \in Nat /\ \A i \in 1 .. Len(written) : written[i] \in Frames
      BY LenProperties, ElementOfSeq DEF TypeOK
    <3>2. \A i \in 1 .. Len(written) : written[i] \in Nat /\ written[i] - 1 \in Nat
      BY <3>1 DEF Frames
    <3>3. \A i \in 1 .. Len(written) - 1 : i + 1 \in 1 .. Len(written)
      BY <3>1
    <3>4. \A i \in Nat : i * FrameBytes \in Nat
      BY Positions
    <3> QED
      BY <3>1, <3>2, <3>3, <3>4
  <2>4. \A k \in Nat : Announced(k) => Announced(k)'
    BY <1>8 DEF Announced
  <2>5. \A i \in 1 .. Len(written) - 1 :
          written[i + 1] > written[i] + 1 =>
            /\ sticky = 1 \/ told' >= written[i + 1] - 1
            /\ i * FrameBytes < Counted' => told' >= written[i + 1] - 1
    <3> SUFFICES ASSUME NEW i \in 1 .. Len(written) - 1, written[i + 1] > written[i] + 1
                 PROVE  /\ sticky = 1 \/ told' >= written[i + 1] - 1
                        /\ i * FrameBytes < Counted' => told' >= written[i + 1] - 1
      OBVIOUS
    <3>1. /\ sticky = 1 \/ Announced(written[i + 1] - 1)
          /\ i * FrameBytes < Counted => Announced(written[i + 1] - 1)
      BY <1>3 DEF GapsTold
    <3>2. Announced(written[i + 1] - 1) => told' >= written[i + 1] - 1
      BY <1>8, <2>3
    <3>3. i * FrameBytes < Counted' => i * FrameBytes < Counted
      BY <2>2, <2>3, <2>1, <1>6
    <3> QED
      BY <3>1, <3>2, <3>3
  <2>6. (Len(written) > 0 /\ written[Len(written)] < sampled) => sticky = 1 \/ told' >= sampled
    BY <1>3, <1>8, <2>3 DEF GapsTold
  <2> QED
    BY <1>1, <2>5, <2>6 DEF GapsTold, Announced
<1> QED
  BY <1>1, <1>9, <1>10, <1>11, <1>12, <1>13 DEF Carried, StreamInv, GapInv

\* A frame that is buffered goes behind the stream; one that is dropped leaves the bit,
\* and a frame behind a dropped one is not counted yet.
LEMMA PushFrameKept ==
  ASSUME TypeOK, AnswersTyped, WireInv, Carried, PushFrame
  PROVE  Carried'
<1> USE Sizes
<1>1. /\ UNCHANGED <<phase, miso, service, driver, transfer, rx>>
      /\ UNCHANGED <<remaining, held, decoded, polled, told>>
      /\ sampled' = sampled + 1 /\ sampled < MaxFrames
      /\ FrameBytes > FifoBytes - Len(fifo) => sticky' = 1 /\ UNCHANGED <<fifo, written>>
      /\ ~(FrameBytes > FifoBytes - Len(fifo)) =>
           /\ fifo' = fifo \o FrameOf(sampled + 1)
           /\ written' = Append(written, sampled + 1)
           /\ UNCHANGED sticky
  BY DEF PushFrame, region, caller, parsed
<1>2. UNCHANGED <<Answer, InFlight, Parsed, Counted>> /\ (Live' <=> Live) /\ (Begun' <=> Begun)
      /\ (Answered' <=> Answered) /\ \A k : Announced(k)' <=> Announced(k)
  <2>1. UNCHANGED Answer /\ (Answered' <=> Answered) /\ (Live' <=> Live) /\ UNCHANGED Parsed
    BY <1>1 DEF Answer, Answered, Live, Up, AnswerLost, Parsed
  <2> QED
    BY <1>1, <2>1 DEF InFlight, Counted, Begun, Announced, Reported
<1>3. /\ Len(fifo) \in Nat /\ Len(written) \in Nat /\ sampled \in Nat /\ Parsed \in Nat
      /\ \A i \in 1 .. Len(written) : written[i] \in Nat /\ written[i] <= sampled
      /\ \A i \in Nat : i * FrameBytes \in Nat /\ (i + 1) * FrameBytes = i * FrameBytes + FrameBytes
  <2>1. \A i \in Nat : i * FrameBytes \in Nat /\ (i + 1) * FrameBytes = i * FrameBytes + FrameBytes
    BY Positions
  <2>2. \A i \in 1 .. Len(written) : written[i] \in Frames /\ written[i] <= sampled
    BY ElementOfSeq DEF TypeOK, Carried, GapInv
  <2> QED
    BY <2>1, <2>2, LenProperties, ParsedIsNat DEF TypeOK, Frames
<1>4. /\ RoomInv' /\ GapIsAnnounced'
      /\ driver' \in {"detached", "identify", "start"} => held' = <<>> /\ decoded' = <<>>
  BY <1>1 DEF Carried, RoomInv, StreamInv, GapInv, GapIsAnnounced
<1>5. CASE FrameBytes > FifoBytes - Len(fifo)
  <2>1. sticky' = 1 /\ UNCHANGED <<fifo, written>>
    BY <1>1, <1>5
  <2>2. ReadsInv'
    BY <1>1, <1>2, <2>1 DEF Carried, ReadsInv
  <2>3. StreamHolds => StreamHolds'
    BY <1>1, <1>2, <2>1 DEF StreamHolds
  <2>4. GapsTold => GapsTold'
    BY <1>1, <1>2, <1>3, <2>1 DEF GapsTold
  <2>5. \A i \in 1 .. Len(written) : written[i] <= sampled'
    BY <1>1, <1>3
  <2> QED
    BY <1>2, <1>4, <2>1, <2>2, <2>3, <2>4, <2>5 DEF Carried, StreamInv, GapInv
<1>6. CASE ~(FrameBytes > FifoBytes - Len(fifo))
  <2> DEFINE f == FrameOf(sampled + 1)
             L == Len(written)
             S == sampled + 1
  <2>1. fifo' = fifo \o f /\ written' = Append(written, S) /\ UNCHANGED sticky
    BY <1>1, <1>6
  <2>2. /\ f \in Seq(Bytes) /\ Len(f) = FrameBytes /\ S \in Frames
        /\ \A j \in 1 .. FrameBytes : f[j] = <<S, j>>
    BY <1>1, <1>3, FrameProperties DEF Frames
  <2> HIDE DEF f, S
  <2>3. /\ Len(fifo') = Len(fifo) + FrameBytes
        /\ \A i \in 1 .. Len(fifo) : fifo'[i] = fifo[i]
        /\ \A j \in 1 .. FrameBytes : fifo'[Len(fifo) + j] = f[j]
    <3>1. Len(fifo \o f) = Len(fifo) + Len(f)
      BY <2>2, ConcatProperties DEF TypeOK
    <3>2. \A i \in 1 .. Len(fifo) + Len(f) :
            (fifo \o f)[i] = IF i <= Len(fifo) THEN fifo[i] ELSE f[i - Len(fifo)]
      BY <2>2, ConcatProperties DEF TypeOK
    <3>3. \A j \in 1 .. FrameBytes : /\ Len(fifo) + j \in 1 .. Len(fifo) + Len(f)
                                    /\ ~(Len(fifo) + j <= Len(fifo)) /\ (Len(fifo) + j) - Len(fifo) = j
      <4> DEFINE a == Len(fifo)
                 b == Len(f)
      <4>1. a \in Nat /\ b = FrameBytes /\ b \in Nat
        BY <1>3, <2>2
      <4> HIDE DEF a, b
      <4>2. \A j \in 1 .. b : a + j \in 1 .. a + b /\ ~(a + j <= a) /\ (a + j) - a = j
        BY <4>1
      <4> QED
        BY <4>1, <4>2 DEF a, b
    <3> QED
      BY <1>3, <2>1, <2>2, <3>1, <3>2, <3>3
  <2>4. Len(written') = L + 1 /\ written'[L + 1] = S /\ \A i \in 1 .. L : written'[i] = written[i]
    BY <1>3, <2>1, <2>2, AppendProperties DEF TypeOK
  <2>5. Len(InFlight) \in Nat
    <3>1. Answer.bytes \in Seq(Bytes)
      BY EmptySeq DEF Answer, NoAnswer, AnswersTyped, Answers
    <3> QED
      BY <3>1, EmptySeq, LenProperties DEF InFlight
  <2>6. ReadsInv'
    <3>1. remaining \in Nat /\ Answer.count \in Nat
      BY DEF TypeOK, Answer, NoAnswer, AnswersTyped, Answers
    <3>2. \A n \in Nat : /\ n <= Len(fifo) => n <= Len(fifo')
                        /\ n <= Len(InFlight) + Len(fifo) => n <= Len(InFlight) + Len(fifo')
      BY <1>3, <2>3, <2>5
    <3> QED
      BY <1>1, <1>2, <3>1, <3>2 DEF Carried, ReadsInv
  <2>7. ASSUME StreamHolds PROVE StreamHolds'
    <3>1. /\ L * FrameBytes = (Parsed + Len(InFlight)) + Len(fifo)
          /\ L \in Nat /\ L * FrameBytes \in Nat /\ (L + 1) * FrameBytes = L * FrameBytes + FrameBytes
      BY <1>3, <2>7 DEF StreamHolds
    <3>2. \A p \in 1 .. L * FrameBytes : StreamByte(written', p) = StreamByte(written, p)
      BY <2>4, <3>1, StreamByteKept
    <3>3. \A i \in 1 .. Len(InFlight) : InFlight[i] = StreamByte(written', Parsed + i)
      <4>1. \A i \in 1 .. Len(InFlight) : Parsed + i \in 1 .. L * FrameBytes
        BY <1>3, <2>5, <3>1
      <4> QED
        BY <2>7, <3>2, <4>1 DEF StreamHolds
    <3>4. \A i \in 1 .. Len(fifo) : fifo'[i] = StreamByte(written', (Parsed + Len(InFlight)) + i)
      <4>1. \A i \in 1 .. Len(fifo) : (Parsed + Len(InFlight)) + i \in 1 .. L * FrameBytes
        BY <1>3, <2>5, <3>1
      <4> QED
        BY <2>3, <2>7, <3>2, <4>1 DEF StreamHolds
    <3>5. \A j \in 1 .. FrameBytes :
            fifo'[Len(fifo) + j] = StreamByte(written', (Parsed + Len(InFlight)) + (Len(fifo) + j))
      <4>1. \A j \in 1 .. FrameBytes : StreamByte(written', L * FrameBytes + j) = <<S, j>>
        BY <2>4, <3>1, StreamByteAt
      <4>2. \A j \in 1 .. FrameBytes :
              (Parsed + Len(InFlight)) + (Len(fifo) + j) = L * FrameBytes + j
        BY <1>3, <2>5, <3>1
      <4> QED
        BY <2>2, <2>3, <4>1, <4>2
    <3>6. \A i \in 1 .. Len(fifo') : fifo'[i] = StreamByte(written', (Parsed + Len(InFlight)) + i)
      <4> SUFFICES ASSUME NEW i \in 1 .. Len(fifo')
                   PROVE  fifo'[i] = StreamByte(written', (Parsed + Len(InFlight)) + i)
        OBVIOUS
      <4>1. CASE i \in 1 .. Len(fifo)
        BY <3>4, <4>1
      <4>2. CASE i \notin 1 .. Len(fifo)
        <5> DEFINE j == i - Len(fifo)
        <5>1. j \in 1 .. FrameBytes /\ i = Len(fifo) + j
          BY <1>3, <2>3, <4>2
        <5> HIDE DEF j
        <5> QED
          BY <3>5, <5>1
      <4> QED
        BY <4>1, <4>2
    <3>7. /\ (L + 1) * FrameBytes = (Parsed + Len(InFlight)) + Len(fifo')
          /\ Len(decoded) \in Nat /\ Len(decoded) <= L /\ (Len(held) > 0 => Len(decoded) < L)
      <4>1. Len(decoded) \in Nat /\ Len(held) \in Nat /\ Len(decoded) * FrameBytes \in Nat
        BY LenProperties, ParsedIsNat DEF TypeOK
      <4>2. Len(decoded) * FrameBytes + Len(held) <= L * FrameBytes
        BY <1>3, <2>5, <3>1, <4>1 DEF Parsed
      <4>3. Len(decoded) > L => Len(decoded) * FrameBytes > L * FrameBytes
        BY <3>1, <4>1
      <4> QED
        <5>1. (L + 1) * FrameBytes = (Parsed + Len(InFlight)) + Len(fifo')
          <6> DEFINE lF == L * FrameBytes
                     d  == Parsed + Len(InFlight)
          <6>1. lF = d + Len(fifo) /\ d \in Nat
            BY <1>3, <2>5, <3>1
          <6>2. (L + 1) * FrameBytes = lF + FrameBytes
            BY <3>1
          <6> HIDE DEF lF, d
          <6>3. lF + FrameBytes = d + (Len(fifo) + FrameBytes)
            BY <1>3, <6>1
          <6>4. (L + 1) * FrameBytes = d + Len(fifo')
            BY <2>3, <6>2, <6>3
          <6> QED
            BY <6>4 DEF d
        <5>2. Len(decoded) = L => Len(decoded) * FrameBytes = L * FrameBytes
          OBVIOUS
        <5> QED
          BY <3>1, <4>1, <4>2, <4>3, <5>1, <5>2
    <3>8. /\ \A i \in 1 .. Len(decoded) : decoded[i] = written'[i]
          /\ \A i \in 1 .. Len(held) : held[i] = <<written'[Len(decoded) + 1], i>>
      <4>1. /\ \A i \in 1 .. Len(decoded) : decoded[i] = written[i]
            /\ \A i \in 1 .. Len(held) : held[i] = <<written[Len(decoded) + 1], i>>
        BY <2>7 DEF StreamHolds
      <4>2. Len(held) \in Nat
        BY LenProperties DEF TypeOK
      <4>3. /\ \A i \in 1 .. Len(decoded) : i \in 1 .. L
            /\ \A i \in 1 .. Len(held) : Len(decoded) + 1 \in 1 .. L
        BY <1>3, <3>7, <4>2
      <4> QED
        BY <2>4, <4>1, <4>3
    <3> QED
      BY <1>1, <1>2, <2>4, <3>3, <3>6, <3>7, <3>8 DEF StreamHolds
  <2>8. ASSUME GapsTold, StreamHolds, ReadsInv, Live PROVE GapsTold'
    <3>1. Counted <= L * FrameBytes
      <4>1. L * FrameBytes = (Parsed + Len(InFlight)) + Len(fifo)
        BY <2>8 DEF StreamHolds
      <4>2. CASE driver = "burst"
        <5>1. Counted = Parsed + remaining
          BY <4>2 DEF Counted
        <5>2. remaining <= Len(InFlight) + Len(fifo) /\ remaining \in Nat
          BY <2>8, <4>2 DEF ReadsInv, TypeOK
        <5> QED
          BY <1>3, <2>5, <4>1, <5>1, <5>2
      <4>3. CASE driver = "status"
        <5>1. Answer.count \in Nat
          BY DEF Answer, NoAnswer, AnswersTyped, Answers
        <5> QED
          BY <1>3, <2>5, <2>8, <4>1, <4>3, <5>1 DEF ReadsInv, Counted
      <4>4. CASE driver # "burst" /\ driver # "status"
        BY <1>3, <2>5, <4>1, <4>4 DEF Counted
      <4> QED
        BY <4>2, <4>3, <4>4
    <3>2. Counted \in Int
      <4>1. remaining \in Nat /\ Answer.count \in Nat
        BY DEF TypeOK, Answer, NoAnswer, AnswersTyped, Answers
      <4> QED
        BY <1>3, <4>1 DEF Counted
    <3>3. ASSUME NEW i \in 1 .. L, written'[i + 1] > written'[i] + 1
          PROVE  /\ sticky = 1 \/ Announced(written'[i + 1] - 1)
                 /\ i * FrameBytes < Counted => Announced(written'[i + 1] - 1)
      <4>1. CASE i < L
        <5>1. i \in 1 .. L - 1 /\ i \in 1 .. L /\ i + 1 \in 1 .. L
          BY <1>3, <4>1
        <5>2. written'[i + 1] = written[i + 1] /\ written'[i] = written[i]
          BY <2>4, <5>1
        <5>3. written[i + 1] > written[i] + 1
          BY <3>3, <5>2
        <5>4. /\ sticky = 1 \/ Announced(written[i + 1] - 1)
              /\ i * FrameBytes < Counted => Announced(written[i + 1] - 1)
          BY <2>8, <5>1, <5>3 DEF GapsTold
        <5> QED
          BY <5>2, <5>4
      <4>2. CASE i = L
        <5>1. written'[i + 1] - 1 = sampled /\ written[L] < sampled /\ L > 0
          BY <1>3, <2>4, <3>3, <4>2 DEF S
        <5>2. ~(i * FrameBytes < Counted)
          BY <1>3, <3>1, <3>2, <4>2
        <5> QED
          BY <2>8, <5>1, <5>2 DEF GapsTold
      <4> QED
        BY <4>1, <4>2, <1>3
    <3>4. ~(written'[Len(written')] < sampled')
      BY <1>1, <1>3, <2>4 DEF S
    <3>5. \A i \in 1 .. Len(written') - 1 : i \in 1 .. L
      BY <1>3, <2>4
    <3> QED
      BY <1>1, <1>2, <2>1, <2>8, <3>3, <3>4, <3>5 DEF GapsTold
  <2>9. \A i \in 1 .. Len(written') : written'[i] <= sampled'
    <3>1. \A i \in 1 .. L + 1 : i \in 1 .. L \/ i = L + 1
      BY <1>3
    <3>2. \A i \in 1 .. L : written'[i] <= sampled'
      BY <1>1, <1>3, <2>4
    <3>3. written'[L + 1] <= sampled'
      BY <1>1, <1>3, <2>4 DEF S
    <3> QED
      BY <2>4, <3>1, <3>2, <3>3
  <2> QED
    BY <1>2, <1>4, <2>6, <2>7, <2>8, <2>9 DEF Carried, StreamInv, GapInv
<1> QED
  BY <1>5, <1>6

\* The byte the parser gets next is the one behind those it has: it extends the frame
\* being collected, and the last one of a frame has it decoded.
LEMMA ParseTakesNext ==
  ASSUME TypeOK, AnswersTyped, NEW w \in Frames, NEW byte, byte = <<w, Len(held) + 1>>,
         \A i \in 1 .. Len(held) : held[i] = <<w, i>>,
         Parse(byte)
  PROVE  \/ /\ Len(held) + 1 < FrameBytes
            /\ Len(held') = Len(held) + 1 /\ UNCHANGED <<decoded, polled>>
            /\ \A i \in 1 .. Len(held) + 1 : held'[i] = <<w, i>>
         \/ /\ Len(held) + 1 = FrameBytes
            /\ held' = <<>> /\ decoded' = Append(decoded, w) /\ polled' = polled + 1
<1> USE Sizes
<1> DEFINE bytes == Append(held, byte)
<1>1. Len(held) \in Nat /\ Len(held) < FrameBytes /\ byte \in Bytes /\ byte[1] = w
  BY LenProperties DEF TypeOK, Bytes
<1>2. held = <<>> => byte[2] = 1
  <2>1. held = <<>> => Len(held) = 0
    OBVIOUS
  <2> QED
    BY <1>1, <2>1
<1>3. /\ bytes \in Seq(Bytes) /\ Len(bytes) = Len(held) + 1
      /\ \A i \in 1 .. Len(held) : bytes[i] = held[i]
      /\ bytes[Len(held) + 1] = byte
  BY <1>1, AppendProperties DEF TypeOK
<1>4. /\ Len(bytes) < FrameBytes => held' = bytes /\ UNCHANGED <<decoded, polled>>
      /\ ~(Len(bytes) < FrameBytes) =>
           /\ held' = <<>>
           /\ bytes = FrameOf(w) => decoded' = Append(decoded, w) /\ polled' = polled + 1
  BY <1>1, <1>2 DEF Parse
<1> HIDE DEF bytes
<1>5. \A i \in 1 .. Len(held) + 1 : bytes[i] = <<w, i>>
  <2> SUFFICES ASSUME NEW i \in 1 .. Len(held) + 1 PROVE bytes[i] = <<w, i>>
    OBVIOUS
  <2>1. CASE i \in 1 .. Len(held)
    BY <1>3, <2>1
  <2>2. CASE i = Len(held) + 1
    BY <1>3, <2>2
  <2> QED
    BY <1>1, <2>1, <2>2
<1>6. CASE Len(held) + 1 < FrameBytes
  BY <1>3, <1>4, <1>5, <1>6
<1>7. CASE Len(held) + 1 = FrameBytes
  <2>1. FrameOf(w) \in Seq(Bytes) /\ Len(FrameOf(w)) = Len(bytes)
        /\ \A i \in 1 .. Len(bytes) : bytes[i] = FrameOf(w)[i]
    BY <1>3, <1>5, <1>7, FrameProperties
  <2>2. bytes = FrameOf(w)
    BY <1>3, <2>1, SeqEqual
  <2> QED
    BY <1>3, <1>4, <1>7, <2>2
<1> QED
  BY <1>1, <1>6, <1>7

\* One byte of a burst.
LEMMA TakeByteKept ==
  ASSUME TypeOK, AnswersTyped, WireInv, Carried, TakeByte
  PROVE  Carried'
<1> USE Sizes
<1> DEFINE b == rx.bytes
           n == Len(rx.bytes)
<1>1. /\ driver = "burst" /\ transfer = "done"
      /\ UNCHANGED <<phase, fifo, sticky, sampled, written, service, told>>
      /\ Parse(Head(b)) /\ rx' = [rx EXCEPT !.bytes = Tail(b)] /\ remaining' = remaining - 1
      /\ n > 1 => UNCHANGED <<driver, transfer>>
      /\ ~(n > 1) /\ remaining' = 0 => driver' = "watch" /\ transfer' = "none"
      /\ ~(n > 1) /\ remaining' # 0 => driver' = "burst" /\ transfer' = "load"
  BY DEF TakeByte, region, slave, thread, Pause, Continue
<1>2. Live /\ Begun /\ Answered /\ Answer = rx /\ InFlight = b
  BY <1>1 DEF Live, Up, AnswerLost, Begun, Answered, Answer, InFlight
<1>3. /\ b \in Seq(Bytes) /\ n \in 1 .. remaining /\ remaining \in Nat
      /\ remaining > 0 /\ remaining <= n + Len(fifo)
      /\ StreamHolds /\ GapsTold
  BY <1>1, <1>2 DEF Carried, StreamInv, GapInv, ReadsInv, TypeOK, AnswersTyped, Answers
<1>4. service # "complete"
  BY <1>1 DEF WireInv, Up
<1>5. /\ Head(b) = b[1] /\ Tail(b) \in Seq(Bytes) /\ Len(Tail(b)) = n - 1
      /\ \A i \in 1 .. n - 1 : Tail(b)[i] = b[i + 1]
  <2>1. b # <<>>
    BY <1>3, EmptySeq
  <2> QED
    BY <1>3, <2>1, HeadTailProperties
<1>6. /\ Len(InFlight') = n - 1 /\ \A i \in 1 .. n - 1 : InFlight'[i] = b[i + 1]
      /\ driver' = "burst" /\ n > 1 => Answered'
      /\ ~(n > 1) => ~Answered'
  <2>1. CASE n > 1
    <3>1. Answered' /\ Answer' = rx' /\ driver' = "burst"
      BY <1>1, <2>1 DEF Answered, Answer
    <3>2. rx'.bytes = Tail(b)
      BY <1>1 DEF AnswersTyped, Answers
    <3>3. InFlight' = Tail(b)
      BY <3>1, <3>2 DEF InFlight
    <3> QED
      BY <1>5, <2>1, <3>1, <3>3
  <2>2. CASE ~(n > 1)
    <3>0. transfer' \in {"none", "load"} /\ UNCHANGED service
      BY <1>1, <2>2
    <3>1. ~Answered' /\ n = 1
      <4>1. ~Answered'
        BY <1>4, <3>0 DEF Answered
      <4>2. n = 1
        <5>1. n \in Nat /\ n >= 1
          BY <1>3
        <5> QED
          BY <2>2, <5>1
      <4> QED
        BY <4>1, <4>2
    <3>2. InFlight' = <<>> /\ Len(<<>>) = 0
      BY <1>1, <2>2, <3>1 DEF InFlight, Answer, NoAnswer, Answered
    <3> QED
      BY <3>1, <3>2
  <2> QED
    BY <2>1, <2>2
<1> HIDE DEF b, n
<1> DEFINE D == Len(decoded)
           H == Len(held)
           W == Len(written)
           w == written[D + 1]
<1>7. /\ D \in Nat /\ H \in Nat /\ H < FrameBytes /\ W \in Nat /\ Len(fifo) \in Nat /\ n \in Nat /\ n > 0
      /\ polled \in Nat /\ told \in Nat /\ Parsed = D * FrameBytes + H /\ Parsed \in Nat
      /\ \A i \in Nat : i * FrameBytes \in Nat /\ (i + 1) * FrameBytes = i * FrameBytes + FrameBytes
  <2>1. \A i \in Nat : i * FrameBytes \in Nat /\ (i + 1) * FrameBytes = i * FrameBytes + FrameBytes
    BY Positions
  <2> QED
    BY <1>3, <2>1, LenProperties, ParsedIsNat DEF TypeOK, AnswersTyped, Parsed
<1>8. D < W /\ D + 1 \in 1 .. W /\ w \in Frames
  <2>1. W * FrameBytes = (Parsed + n) + Len(fifo)
    BY <1>2, <1>3 DEF StreamHolds, n, b
  <2>2. D * FrameBytes < W * FrameBytes
    BY <1>7, <2>1
  <2>3. D >= W => D * FrameBytes >= W * FrameBytes
    BY <1>7
  <2>4. D < W /\ D + 1 \in 1 .. W
    BY <1>7, <2>2, <2>3
  <2> QED
    BY <2>4, ElementOfSeq DEF TypeOK
<1>9. b[1] = <<w, H + 1>>
  <2>1. b[1] = StreamByte(written, Parsed + 1)
    BY <1>2, <1>3, <1>7 DEF StreamHolds, n, b
  <2>2. H + 1 \in 1 .. FrameBytes /\ Parsed + 1 = D * FrameBytes + (H + 1)
    BY <1>7
  <2>3. StreamByte(written, D * FrameBytes + (H + 1)) = <<w, H + 1>>
    BY <1>7, <2>2, StreamByteAt
  <2> QED
    BY <2>1, <2>2, <2>3
<1>10. \/ /\ H + 1 < FrameBytes
          /\ Len(held') = H + 1 /\ UNCHANGED <<decoded, polled>>
          /\ \A i \in 1 .. H + 1 : held'[i] = <<w, i>>
       \/ /\ H + 1 = FrameBytes
          /\ held' = <<>> /\ decoded' = Append(decoded, w) /\ polled' = polled + 1
  <2>1. \A i \in 1 .. Len(held) : held[i] = <<w, i>>
    BY <1>3 DEF StreamHolds
  <2>2. Parse(b[1])
    BY <1>1, <1>5
  <2> QED
    BY <1>8, <1>9, <2>1, <2>2, ParseTakesNext
<1>11. /\ Parsed' = Parsed + 1
       /\ \A i \in 1 .. D : decoded'[i] = decoded[i]
       /\ \A i \in 1 .. Len(decoded') : decoded'[i] = written[i]
       /\ \A i \in 1 .. Len(held') : held'[i] = <<written[Len(decoded') + 1], i>>
       /\ Len(decoded') = D \/ (Len(decoded') = D + 1 /\ decoded'[D + 1] = w)
       /\ \/ UNCHANGED polled /\ Len(held') = H + 1
          \/ polled' = polled + 1 /\ Len(held') = 0 /\ H + 1 = FrameBytes
  <2>0. \A i \in 1 .. D : decoded[i] = written[i]
    BY <1>3 DEF StreamHolds
  <2>1. CASE H + 1 < FrameBytes
    <3>1. Len(held') = H + 1 /\ UNCHANGED <<decoded, polled>> /\ \A i \in 1 .. H + 1 : held'[i] = <<w, i>>
      BY <1>7, <1>10, <2>1
    <3>2. Parsed' = D * FrameBytes + (H + 1)
      BY <3>1 DEF Parsed
    <3>3. Parsed' = Parsed + 1
      BY <1>7, <3>2
    <3>4. \A i \in 1 .. Len(held') : held'[i] = <<written[Len(decoded') + 1], i>>
      BY <3>1
    <3> QED
      BY <2>0, <3>1, <3>3, <3>4
  <2>2. CASE H + 1 = FrameBytes
    <3>1. held' = <<>> /\ decoded' = Append(decoded, w) /\ polled' = polled + 1 /\ Len(<<>>) = 0
      BY <1>7, <1>10, <2>2
    <3>2. /\ Len(decoded') = D + 1 /\ decoded'[D + 1] = w
          /\ \A i \in 1 .. D : decoded'[i] = decoded[i]
      BY <1>7, <1>8, <3>1, AppendProperties DEF TypeOK
    <3>3. Parsed' = (D + 1) * FrameBytes + 0
      BY <3>1, <3>2 DEF Parsed
    <3>4. (D + 1) * FrameBytes = D * FrameBytes + FrameBytes /\ (D + 1) * FrameBytes \in Nat
      BY <1>7
    <3>5. Parsed' = Parsed + 1
      BY <1>7, <2>2, <3>3, <3>4
    <3>6. \A i \in 1 .. D + 1 : i \in 1 .. D \/ i = D + 1
      BY <1>7
    <3> QED
      BY <2>0, <2>2, <3>1, <3>2, <3>5, <3>6
  <2> QED
    BY <1>10, <2>1, <2>2
<1> HIDE DEF w
<1>12. remaining' \in Nat /\ remaining' = remaining - 1
  BY <1>1, <1>3
<1>13. ReadsInv'
  <2>1. remaining' <= Len(InFlight') + Len(fifo') /\ driver' # "status"
    <3>1. UNCHANGED fifo /\ driver' # "status"
      BY <1>1
    <3>2. remaining - 1 <= (n - 1) + Len(fifo)
      BY <1>3, <1>7
    <3> QED
      BY <1>6, <1>12, <3>1, <3>2
  <2>2. driver' = "burst" => remaining' > 0
    <3>1. CASE n > 1
      BY <1>3, <1>12, <3>1
    <3>2. CASE ~(n > 1)
      <4>1. driver' = "burst" => remaining' # 0
        BY <1>1, <3>2
      <4>2. \A r \in Nat : r # 0 => r > 0
        OBVIOUS
      <4> QED
        BY <1>12, <4>1, <4>2
    <3> QED
      BY <3>1, <3>2
  <2>3. driver' = "burst" /\ Answered' => Len(InFlight') \in 1 .. remaining'
    BY <1>3, <1>6, <1>7, <1>12
  <2> QED
    BY <2>1, <2>2, <2>3 DEF ReadsInv
<1>14. StreamHolds'
  <2>1. /\ W * FrameBytes = (Parsed + n) + Len(fifo)
        /\ \A i \in 1 .. n : b[i] = StreamByte(written, Parsed + i)
        /\ \A i \in 1 .. Len(fifo) : fifo[i] = StreamByte(written, (Parsed + n) + i)
    BY <1>2, <1>3 DEF StreamHolds, n, b
  <2>2. Parsed' = Parsed + 1 /\ Len(InFlight') = n - 1 /\ (Parsed + 1) + (n - 1) = Parsed + n
    BY <1>6, <1>7, <1>11
  <2>3. \A i \in 1 .. n - 1 : InFlight'[i] = StreamByte(written, (Parsed + 1) + i)
    <3>1. \A i \in 1 .. n - 1 : i + 1 \in 1 .. n /\ Parsed + (i + 1) = (Parsed + 1) + i
      BY <1>7
    <3> QED
      BY <1>6, <2>1, <3>1
  <2>4. Len(written') * FrameBytes = (Parsed' + Len(InFlight')) + Len(fifo')
    BY <1>1, <2>1, <2>2
  <2>5. UNCHANGED <<written, fifo>> /\ Parsed' + Len(InFlight') = Parsed + n
    BY <1>1, <2>2
  <2>6. /\ \A i \in 1 .. Len(InFlight') : InFlight'[i] = StreamByte(written, Parsed' + i)
        /\ \A i \in 1 .. Len(fifo') : fifo'[i] = StreamByte(written, (Parsed' + Len(InFlight')) + i)
    BY <2>1, <2>2, <2>3, <2>5
  <2>7. \A p : StreamByte(written, p) = StreamByte(written', p)
    BY <2>5
  <2> QED
    BY <1>1, <1>11, <2>4, <2>6, <2>7 DEF StreamHolds
<1>15. RoomInv'
  <2> DEFINE pF == polled * FrameBytes
             cF == Capacity * FrameBytes
  <2>1. (pF + H) + remaining <= (cF + FrameBytes) - 1
    BY <1>1 DEF Carried, RoomInv
  <2>2. pF \in Nat /\ cF \in Nat /\ (polled + 1) * FrameBytes = pF + FrameBytes
    BY <1>7
  <2>3. \/ polled' * FrameBytes = pF /\ Len(held') = H + 1
        \/ polled' * FrameBytes = pF + FrameBytes /\ Len(held') = 0 /\ H + 1 = FrameBytes
    BY <1>11, <2>2
  <2>4. driver' \in {"burst", "watch"}
    BY <1>1
  <2> HIDE DEF pF, cF
  <2>5. (polled' * FrameBytes + Len(held')) + remaining' <= (cF + FrameBytes) - 1
    <3> DEFINE x == polled' * FrameBytes
               l == Len(held')
               r == remaining
    <3>1. r \in Nat /\ H \in Nat /\ remaining' = r - 1
      BY <1>3, <1>7, <1>12
    <3>2. (x = pF /\ l = H + 1) \/ (x = pF + FrameBytes /\ l = 0 /\ H + 1 = FrameBytes)
      BY <2>3
    <3>3. (pF + H) + r <= (cF + FrameBytes) - 1
      BY <2>1
    <3> HIDE DEF x, l, r, H
    <3>4. (x + l) + (r - 1) = (pF + H) + r
      BY <2>2, <3>1, <3>2
    <3> QED
      BY <3>1, <3>3, <3>4 DEF x, l
  <2>6. /\ driver' = "burst" =>
             (polled' * FrameBytes + Len(held')) + remaining' <= (cF + FrameBytes) - 1
        /\ driver' # "burst" =>
             (polled' * FrameBytes + Len(held')) + 0 <= (cF + FrameBytes) - 1
    <3>1. driver' # "burst" => remaining' = 0
      BY <1>1
    <3> QED
      BY <2>5, <3>1
  <2> QED
    BY <2>4, <2>6 DEF RoomInv, cF
<1>16. UNCHANGED Counted /\ \A k : Announced(k) <=> told >= k
  <2>1. Counted = Parsed + remaining
    BY <1>1 DEF Counted
  <2>2. Counted' = Parsed' + remaining'
    <3>1. driver' = "watch" => remaining' = 0
      BY <1>1
    <3>2. driver' = "watch" \/ driver' = "burst"
      BY <1>1
    <3> QED
      BY <3>1, <3>2 DEF Counted
  <2>3. (Parsed + 1) + (remaining - 1) = Parsed + remaining
    BY <1>3, <1>7
  <2> QED
    BY <1>1, <1>11, <1>12, <2>1, <2>2, <2>3 DEF Announced, Reported
<1>17. GapsTold'
  <2>1. driver' # "status" /\ UNCHANGED <<written, sticky, told, sampled>>
    BY <1>1
  <2>2. \A k : told >= k => Announced(k)'
    BY <2>1 DEF Announced
  <2> QED
    BY <1>3, <1>16, <2>1 DEF GapsTold, Announced
<1>18. GapIsAnnounced'
  <2> SUFFICES ASSUME NEW i \in 1 .. Len(decoded') - 1, decoded'[i + 1] > decoded'[i] + 1
               PROVE  told >= decoded'[i + 1] - 1
    BY <1>1 DEF GapIsAnnounced
  <2>1. CASE i < D
    <3>1. i \in 1 .. D - 1 /\ i \in 1 .. D /\ i + 1 \in 1 .. D
      BY <1>7, <2>1
    <3> QED
      BY <1>11, <3>1 DEF Carried, GapInv, GapIsAnnounced
  <2>2. CASE ~(i < D)
    <3>1. i = D /\ D > 0 /\ Len(decoded') = D + 1
      BY <1>7, <1>11, <2>2
    <3>2. decoded'[D + 1] = written[D + 1] /\ decoded'[D] = written[D]
      BY <1>7, <1>11, <3>1
    <3>3. D \in 1 .. W - 1 /\ written[D + 1] > written[D] + 1
      BY <1>7, <1>8, <3>1, <3>2
    <3>4. D * FrameBytes < Counted
      <4>1. Counted = Parsed + remaining
        BY <1>1 DEF Counted
      <4> QED
        BY <1>3, <1>7, <4>1
    <3> QED
      BY <1>3, <1>16, <3>1, <3>2, <3>3, <3>4 DEF GapsTold
  <2> QED
    BY <2>1, <2>2
<1>19. (\A i \in 1 .. Len(written) : written[i] <= sampled)'
  BY <1>1 DEF Carried, GapInv
<1>20. driver' \notin {"detached", "identify", "start"}
  BY <1>1
<1> QED
  BY <1>13, <1>14, <1>15, <1>17, <1>18, <1>19, <1>20 DEF Carried, StreamInv, GapInv

(***************************************************************************)
(* The invariant.                                                          *)
(***************************************************************************)
\* It holds before anybody attached.
LEMMA ImuInit == Init => ImuInv
<1> SUFFICES ASSUME Init PROVE ImuInv
  OBVIOUS
<1> USE Sizes DEF Init
<1>1. /\ Len(<<>>) = 0 /\ <<>> \in Seq(Bytes) /\ <<>> \in Seq(Frames)
  BY EmptySeq
<1>2. TypeOK
  BY <1>1 DEF TypeOK
<1>3. AnswersTyped
  BY <1>1 DEF AnswersTyped, Answers, NoAnswer, Transfer
<1>4. WireInv /\ ~Live /\ LineInv
  BY DEF WireInv, Live, Up, LineInv, LineAnnouncesSamples
<1>5. RoomInv
  <2>1. 0 * FrameBytes = 0 /\ Capacity * FrameBytes \in Nat
    BY Positions
  <2> QED
    BY <1>1, <2>1 DEF RoomInv
<1>6. ReadsInv /\ StreamInv /\ GapInv
  BY <1>1, <1>4 DEF ReadsInv, StreamInv, GapInv, GapIsAnnounced
<1> QED
  BY <1>2, <1>3, <1>4, <1>5, <1>6 DEF ImuInv

\* Every step of the FMU, the service thread, a transfer and the driver keeps it.
LEMMA ImuKept == ImuInv /\ [Next]_vars => ImuInv'
<1> SUFFICES ASSUME ImuInv, [Next]_vars PROVE ImuInv'
  OBVIOUS
<1>1. TypeOK /\ AnswersTyped /\ WireInv /\ Carried /\ LineInv
  BY DEF ImuInv, Carried
<1>2. CASE Next
  <2>1. TypeOK' /\ AnswersTyped' /\ WireInv' /\ LineInv'
    BY <1>1, <1>2, TypesKept, WireKept, LineKept DEF Carried
  <2>2. Carried'
    BY <1>1, <1>2, QuietKept, ProbeKept, ShiftKept, TakeStatusKept, PushFrameKept, TakeByteKept
       DEF Next, Fmu, Service, TransferSteps, Driver
  <2> QED
    BY <2>1, <2>2 DEF Carried, ImuInv
<1>3. CASE UNCHANGED vars
  <2>1. /\ UNCHANGED <<phase, attached, present, line, mosi, miso, fifo, sticky, sampled, written>>
        /\ UNCHANGED <<fmu, level, stopRequested, service, expired>>
        /\ UNCHANGED <<driver, transfer, rx, remaining>>
        /\ UNCHANGED <<held, decoded, polled, told>>
    BY <1>3 DEF vars, region, slave, thread, caller, parsed
  <2>2. /\ UNCHANGED Answer /\ (Answered' <=> Answered) /\ (Live' <=> Live)
        /\ (Up' <=> Up) /\ UNCHANGED Request
    BY <2>1 DEF Answer, Answered, Live, Up, AnswerLost, Request
  <2>3. Carried'
    BY <1>1, <2>1, <2>2, SameCarried
  <2>4. TypeOK' /\ AnswersTyped'
    BY <1>1, <2>1 DEF TypeOK, AnswersTyped
  <2>5. WireInv' /\ LineInv'
    BY <1>1, <2>1, <2>2 DEF WireInv, LineInv, LineAnnouncesSamples
  <2> QED
    BY <2>3, <2>4, <2>5 DEF Carried, ImuInv
<1> QED
  BY <1>2, <1>3

\* The types, and where every byte of the stream, every count and every gap is, in
\* every reachable state.
THEOREM ImuInvariant == Spec => []ImuInv
  BY ImuInit, ImuKept, PTL DEF Spec

(***************************************************************************)
(* What it says of the stream, the reads and the caller's room.            *)
(***************************************************************************)
\* The bytes of some frames, one by one.
LEMMA BytesOfProperties ==
  ASSUME NEW frames \in Seq(Frames)
  PROVE  /\ BytesOf(frames) \in Seq(Bytes)
         /\ Len(BytesOf(frames)) = Len(frames) * FrameBytes
         /\ \A p \in 1 .. Len(frames) * FrameBytes : BytesOf(frames)[p] = StreamByte(frames, p)
<1> USE Sizes
<1> DEFINE n == Len(frames) * FrameBytes
<1>1. n \in Nat /\ \A p \in 1 .. n : ((p - 1) \div FrameBytes) + 1 \in 1 .. Len(frames)
  BY Positions, LenProperties
<1>2. \A p \in 1 .. n : StreamByte(frames, p) \in Bytes
  <2> TAKE p \in 1 .. n
  <2>1. frames[((p - 1) \div FrameBytes) + 1] \in Frames
    BY <1>1, ElementOfSeq
  <2>2. ((p - 1) % FrameBytes) + 1 \in 1 .. FrameBytes
    BY <1>1
  <2> QED
    BY <2>1, <2>2 DEF StreamByte, Bytes
<1>3. BytesOf(frames) = [p \in 1 .. n |-> StreamByte(frames, p)]
  BY DEF BytesOf
<1> HIDE DEF n
<1>4. BytesOf(frames) \in Seq(Bytes) /\ Len(BytesOf(frames)) = n
  BY <1>1, <1>2, <1>3
<1> QED
  BY <1>3, <1>4 DEF n

\* What is decoded, half parsed, in flight and in the FIFO, put one behind the other,
\* is what the part buffered.
LEMMA StreamHoldsIntact ==
  ASSUME TypeOK, AnswersTyped, StreamHolds
  PROVE  BytesOf(written) = BytesOf(decoded) \o held \o InFlight \o fifo
<1> USE Sizes
<1> DEFINE B == BytesOf(decoded)
           f == InFlight
           s == B \o held
           t == s \o f
           u == t \o fifo
           DF == Len(decoded) * FrameBytes
           all == Len(written) * FrameBytes
<1>1. written \in Seq(Frames) /\ decoded \in Seq(Frames) /\ held \in Seq(Bytes) /\ fifo \in Seq(Bytes)
  BY DEF TypeOK
<1>2. f \in Seq(Bytes)
  <2>1. Answer.bytes \in Seq(Bytes)
    BY EmptySeq DEF Answer, NoAnswer, AnswersTyped, Answers
  <2> QED
    BY <2>1, EmptySeq DEF InFlight
<1>3. /\ B \in Seq(Bytes) /\ Len(B) = DF
      /\ \A p \in 1 .. DF : B[p] = StreamByte(decoded, p)
      /\ BytesOf(written) \in Seq(Bytes) /\ Len(BytesOf(written)) = all
      /\ \A p \in 1 .. all : BytesOf(written)[p] = StreamByte(written, p)
  BY <1>1, BytesOfProperties
<1> DEFINE h == Len(held)
           n == Len(f)
           m == Len(fifo)
<1>4. DF \in Nat /\ h \in Nat /\ n \in Nat /\ m \in Nat /\ Len(decoded) \in Nat /\ h < FrameBytes
      /\ Parsed = DF + h
  BY <1>1, <1>2, LenProperties, ParsedIsNat DEF Parsed, TypeOK
<1>5. /\ all = ((DF + h) + n) + m
      /\ \A p \in 1 .. n : f[p] = StreamByte(written, (DF + h) + p)
      /\ \A p \in 1 .. m : fifo[p] = StreamByte(written, ((DF + h) + n) + p)
  BY <1>4 DEF StreamHolds
<1>6. \A p \in 1 .. DF : B[p] = StreamByte(written, p)
  <2>1. \A i \in 1 .. Len(decoded) : decoded[i] = written[i]
    BY DEF StreamHolds
  <2>2. \A p \in 1 .. Len(decoded) * FrameBytes : StreamByte(decoded, p) = StreamByte(written, p)
    BY <1>4, <2>1, StreamByteKept
  <2> QED
    BY <1>3, <2>2
<1>7. \A p \in 1 .. h : held[p] = StreamByte(written, DF + p)
  <2>1. \A p \in 1 .. h : p \in 1 .. FrameBytes
    BY <1>4
  <2>2. \A p \in 1 .. h :
          StreamByte(written, Len(decoded) * FrameBytes + p) = <<written[Len(decoded) + 1], p>>
    BY <1>4, <2>1, StreamByteAt
  <2>3. \A p \in 1 .. h : held[p] = <<written[Len(decoded) + 1], p>>
    BY DEF StreamHolds
  <2> QED
    BY <2>2, <2>3
<1>8. /\ s \in Seq(Bytes) /\ Len(s) = DF + h
      /\ \A p \in 1 .. DF + h : s[p] = IF p <= DF THEN B[p] ELSE held[p - DF]
  BY <1>1, <1>3, ConcatProperties
<1> HIDE DEF B, f, s, DF, all
<1>9. t \in Seq(Bytes) /\ Len(t) = (DF + h) + n
      /\ \A p \in 1 .. (DF + h) + n : t[p] = IF p <= DF + h THEN s[p] ELSE f[p - (DF + h)]
  BY <1>2, <1>8, ConcatProperties
<1> HIDE DEF t
<1>10. u \in Seq(Bytes) /\ Len(u) = ((DF + h) + n) + m
       /\ \A p \in 1 .. ((DF + h) + n) + m :
            u[p] = IF p <= (DF + h) + n THEN t[p] ELSE fifo[p - ((DF + h) + n)]
  <2>1. Len(t) = (DF + h) + n /\ t \in Seq(Bytes) /\ fifo \in Seq(Bytes)
    BY <1>1, <1>9
  <2>2. /\ u \in Seq(Bytes) /\ Len(u) = Len(t) + Len(fifo)
        /\ \A p \in 1 .. Len(t) + Len(fifo) : u[p] = IF p <= Len(t) THEN t[p] ELSE fifo[p - Len(t)]
    BY <2>1, ConcatProperties
  <2> HIDE DEF u, h, n
  <2> QED
    BY <2>1, <2>2
<1> HIDE DEF u, h, n, m
<1>11. \A p \in 1 .. DF + h : s[p] = StreamByte(written, p)
  <2> TAKE p \in 1 .. DF + h
  <2>1. CASE p <= DF
    BY <1>4, <1>6, <1>8, <2>1
  <2>2. CASE ~(p <= DF)
    <3>1. p - DF \in 1 .. h /\ DF + (p - DF) = p
      BY <1>4, <2>2
    <3> QED
      BY <1>7, <1>8, <2>2, <3>1
  <2> QED
    BY <2>1, <2>2
<1>12. \A p \in 1 .. (DF + h) + n : t[p] = StreamByte(written, p)
  <2> TAKE p \in 1 .. (DF + h) + n
  <2>1. CASE p <= DF + h
    BY <1>4, <1>9, <1>11, <2>1
  <2>2. CASE ~(p <= DF + h)
    <3>1. p - (DF + h) \in 1 .. n /\ (DF + h) + (p - (DF + h)) = p
      BY <1>4, <2>2
    <3> QED
      BY <1>5, <1>9, <2>2, <3>1
  <2> QED
    BY <2>1, <2>2
<1>13. \A p \in 1 .. all : u[p] = StreamByte(written, p)
  <2> TAKE p \in 1 .. all
  <2>1. CASE p <= (DF + h) + n
    BY <1>4, <1>5, <1>10, <1>12, <2>1
  <2>2. CASE ~(p <= (DF + h) + n)
    <3> DEFINE d == (DF + h) + n
               q == p - d
    <3>1. d \in Nat /\ p \in 1 .. d + m /\ ~(p <= d)
      BY <1>4, <1>5, <2>2
    <3> HIDE DEF d
    <3>2. q \in 1 .. m /\ d + q = p
      BY <1>4, <3>1
    <3> HIDE DEF q
    <3>3. fifo[q] = StreamByte(written, d + q) /\ u[p] = fifo[q]
      BY <1>5, <1>10, <3>1, <3>2 DEF d, q
    <3> QED
      BY <3>2, <3>3
  <2> QED
    BY <2>1, <2>2
<1>14. BytesOf(written) = u
  BY <1>3, <1>5, <1>10, <1>13, SeqEqual
<1> QED
  BY <1>14 DEF u, t, s, B, f

\* Less than a frame beyond the caller's room is no sample beyond it.
LEMMA RoomForPolled == TypeOK /\ AnswersTyped /\ RoomInv => CapacityRespected
<1> SUFFICES ASSUME TypeOK, AnswersTyped, RoomInv PROVE polled <= Capacity
  BY DEF CapacityRespected
<1> USE Sizes
<1>1. /\ polled \in Nat /\ Len(held) \in Nat /\ remaining \in Nat
      /\ \A n \in Nat : n * FrameBytes \in Nat /\ (n + 1) * FrameBytes = n * FrameBytes + FrameBytes
  <2>1. \A n \in Nat : n * FrameBytes \in Nat /\ (n + 1) * FrameBytes = n * FrameBytes + FrameBytes
    BY Positions
  <2> QED
    BY <2>1, LenProperties DEF TypeOK, AnswersTyped
<1>2. polled * FrameBytes < (Capacity + 1) * FrameBytes
  <2> DEFINE p == polled * FrameBytes
             c == Capacity * FrameBytes
  <2>1. p \in Nat /\ c \in Nat /\ (Capacity + 1) * FrameBytes = c + FrameBytes
    BY <1>1
  <2>2. (p + Len(held)) + (IF driver = "burst" THEN remaining ELSE 0) <= (c + FrameBytes) - 1
    BY DEF RoomInv
  <2> HIDE DEF p, c
  <2>3. p < c + FrameBytes
    BY <1>1, <2>1, <2>2
  <2> QED
    BY <2>1, <2>3 DEF p
<1>3. polled >= Capacity + 1 => polled * FrameBytes >= (Capacity + 1) * FrameBytes
  BY <1>1
<1> QED
  BY <1>1, <1>2, <1>3

\* A burst that is on its way asks for no more than was counted and is still there.
LEMMA BurstIsThere == ImuInv => NeverOverReads
<1> SUFFICES ASSUME ImuInv, driver = "burst", transfer = "wait", phase = "Posted", service # "complete"
             PROVE  mosi.bytes <= Len(fifo)
  BY DEF NeverOverReads
<1> USE Sizes
<1>1. Live /\ ~Answered /\ InFlight = <<>> /\ mosi = Request
  BY DEF ImuInv, WireInv, Live, Up, AnswerLost, Answered, InFlight, Answer, NoAnswer
<1>2. remaining \in Nat /\ remaining <= Len(<<>>) + Len(fifo) /\ Len(fifo) \in Nat /\ Len(<<>>) = 0
  BY <1>1, LenProperties DEF ImuInv, TypeOK, ReadsInv
<1>3. mosi.bytes = IF remaining < MaxBurst THEN remaining ELSE MaxBurst
  BY <1>1 DEF Request, Transfer
<1> QED
  BY <1>2, <1>3

\* While the driver and the part are up, the frames the part buffered since it was started
\* are what is decoded, half parsed, in a transfer and in the FIFO, in that
\* order; a poll decodes no more samples than the caller has room for, and a
\* burst takes no byte the FIFO does not have (imu_spi_driver.cpp:60-130).
THEOREM PollsKeepTheStreamAlways == Spec => []PollsKeepTheStream
<1>1. ImuInv => PollsKeepTheStream
  <2> SUFFICES ASSUME ImuInv PROVE PollsKeepTheStream
    OBVIOUS
  <2>1. StreamIntact
    <3>1. Streaming /\ ~AnswerLost => Begun /\ Live
      BY DEF Streaming, Begun, Live, Up
    <3>2. Streaming /\ ~AnswerLost => StreamHolds
      BY <3>1 DEF ImuInv, StreamInv
    <3> QED
      BY <3>2, StreamHoldsIntact DEF StreamIntact, ImuInv
  <2> QED
    BY <2>1, RoomForPolled, BurstIsThere DEF ImuInv, PollsKeepTheStream
<1> QED
  BY <1>1, ImuInvariant, PTL

\* A frame missing from the decoded samples was announced by an overflow report no
\* later than the poll that decodes the next one (the sticky STATUS bit).
THEOREM GapIsAnnouncedAlways == Spec => []GapIsAnnounced
<1>1. ImuInv => GapIsAnnounced
  BY DEF ImuInv, GapInv
<1> QED
  BY <1>1, ImuInvariant, PTL

\* Between steps of the part, buffered samples are announced on the line, although it is
\* driven after the level was read (fmu_main.cpp:384-387).
THEOREM LineAnnouncesSamplesAlways == Spec => []LineAnnouncesSamples
<1>1. ImuInv => LineAnnouncesSamples
  BY DEF ImuInv, LineInv
<1> QED
  BY <1>1, ImuInvariant, PTL
=============================================================================

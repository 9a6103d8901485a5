---------------------------- MODULE Bmp390Proofs ----------------------------
(***************************************************************************)
(* Theorems about Bmp390, for any step and sensor time, any set of rates,  *)
(* either host and either client: one lemma per part of the invariant.     *)
(***************************************************************************)
EXTENDS Bmp390, SequenceTheorems, TLAPS

\* What the first of a sequence of transactions is.
LEMMA FirstOf ==
  ASSUME NEW s \in Seq(Transactions), NEW what
  PROVE  /\ Len(s) \in Nat
         /\ s # <<>> <=> Len(s) > 0
         /\ s # <<>> /\ Head(s) = what <=> Len(s) > 0 /\ s[1] = what
  BY EmptySeq, LenProperties

\* What is left behind the first.
LEMMA RestOf ==
  ASSUME NEW s \in Seq(Transactions), s # <<>>
  PROVE  /\ Tail(s) \in Seq(Transactions) /\ Len(Tail(s)) = Len(s) - 1
         /\ \A i \in 1 .. Len(s) - 1 : Tail(s)[i] = s[i + 1]
  BY HeadTailProperties, LenProperties

\* What is left to do stays, loses its first, ends, or begins.
LEMMA KindsOfStep ==
  ASSUME Next
  PROVE  \/ UNCHANGED todo
         \/ todo # <<>> /\ todo' = Tail(todo)
         \/ todo' = <<>>
         \/ todo' = Probe \/ todo' = ReadSample
<1>1. CASE Fmu
  BY <1>1 DEF Fmu, BeginStep, LatchConversion, EndConversions, LatchNewest, PublishLine, FmuReset,
     FmuDetach, driver
<1>2. CASE Driver
  BY <1>2 DEF Driver, Identify, SoftReset, ProgramRate, EnableInterrupt, SelectNormalMode,
     ReadStatus, ReadData0, ReadData3, ReadSensorTime, TransferFails, BeginProbe, PollBaro, BaroTask,
     Advance, Doing
<1> QED
  BY <1>1, <1>2 DEF Next

\* Both operations are in order, and neither begins with a read of the data.
LEMMA BeginningsInOrder ==
  ASSUME NEW p, p = Probe \/ p = ReadSample
  PROVE  /\ p \in Seq(Transactions) /\ p # <<>>
         /\ Head(p) \notin {"data0", "data3", "sensorTime", "powerControl"}
         /\ \A i \in 1 .. Len(p) - 1 :
              /\ p[i + 1] = "data0" => p[i] = "status"
              /\ p[i + 1] = "data3" => p[i] = "data0"
              /\ p[i + 1] = "sensorTime" => p[i] = "data3"
              /\ p[i + 1] = "powerControl" => p[i] = "intControl"
<1>1. CASE p = Probe
  <2>1. /\ p \in Seq(Transactions) /\ Len(p) = 8 /\ p # <<>> /\ Head(p) = "identify"
        /\ p[1] = "identify" /\ p[2] = "softReset" /\ p[3] = "identify" /\ p[4] = "calibration"
        /\ p[5] = "osr" /\ p[6] = "odr" /\ p[7] = "intControl" /\ p[8] = "powerControl"
    BY <1>1 DEF Probe, Transactions
  <2> QED
    BY <2>1
<1>2. CASE p = ReadSample
  <2>1. /\ p \in Seq(Transactions) /\ Len(p) = 4 /\ p # <<>> /\ Head(p) = "status"
        /\ p[1] = "status" /\ p[2] = "data0" /\ p[3] = "data3" /\ p[4] = "sensorTime"
    BY <1>2 DEF ReadSample, Transactions
  <2> QED
    BY <2>1
<1> QED
  BY <1>1, <1>2

\* The order is kept, whatever the step.
LEMMA StepsKept ==
  ASSUME TypeOK, StepsInOrder, Next
  PROVE  todo' \in Seq(Transactions) /\ StepsInOrder'
<1>1. todo \in Seq(Transactions) /\ Len(todo) \in Nat
  BY LenProperties DEF TypeOK
<1>2. CASE UNCHANGED todo
  BY <1>1, <1>2 DEF StepsInOrder
<1>3. CASE todo # <<>> /\ todo' = Tail(todo)
  <2>1. /\ todo' \in Seq(Transactions) /\ Len(todo') = Len(todo) - 1
        /\ \A i \in 1 .. Len(todo) - 1 : todo'[i] = todo[i + 1]
    BY <1>1, <1>3, RestOf
  <2>2. ASSUME NEW i \in 1 .. Len(todo') - 1
        PROVE  /\ todo'[i + 1] = "data0" => todo'[i] = "status"
               /\ todo'[i + 1] = "data3" => todo'[i] = "data0"
               /\ todo'[i + 1] = "sensorTime" => todo'[i] = "data3"
               /\ todo'[i + 1] = "powerControl" => todo'[i] = "intControl"
    <3> DEFINE k == i + 1
    <3>1. k \in 1 .. Len(todo) - 1 /\ todo'[i] = todo[k] /\ todo'[k] = todo[k + 1]
      BY <1>1, <2>1
    <3> HIDE DEF k
    <3>2. /\ todo'[k] = "data0" => todo'[i] = "status"
          /\ todo'[k] = "data3" => todo'[i] = "data0"
          /\ todo'[k] = "sensorTime" => todo'[i] = "data3"
          /\ todo'[k] = "powerControl" => todo'[i] = "intControl"
      BY <3>1 DEF StepsInOrder
    <3> QED
      BY <3>2 DEF k
  <2> QED
    BY <2>1, <2>2 DEF StepsInOrder
<1>4. CASE todo' = <<>>
  <2>1. Len(todo') = 0 /\ 1 .. Len(todo') - 1 = {}
    BY <1>4, EmptySeq
  <2> QED
    BY <1>4, <2>1, EmptySeq DEF StepsInOrder
<1>5. CASE todo' = Probe \/ todo' = ReadSample
  BY <1>5, BeginningsInOrder DEF StepsInOrder
<1> QED
  BY <1>2, <1>3, <1>4, <1>5, KindsOfStep

\* Which transaction the next one follows.
LEMMA NextInLine ==
  ASSUME TypeOK, StepsInOrder, todo # <<>>, todo' = Tail(todo)
  PROVE  /\ Doing("data0")' => Doing("status")
         /\ Doing("data3")' => Doing("data0")
         /\ Doing("sensorTime")' => Doing("data3")
         /\ Doing("powerControl")' => Doing("intControl")
<1>1. todo \in Seq(Transactions)
  BY DEF TypeOK
<1>2. Len(todo) \in Nat /\ Len(todo) > 0
  BY <1>1, FirstOf
<1>3. /\ todo' \in Seq(Transactions) /\ Len(todo') = Len(todo) - 1
      /\ \A i \in 1 .. Len(todo) - 1 : todo'[i] = todo[i + 1]
  BY <1>1, RestOf
<1>4. \A what : Doing(what) <=> todo[1] = what
  BY <1>1, <1>2, FirstOf DEF Doing
<1>5. \A what : Doing(what)' => Len(todo) > 1 /\ todo[2] = what
  <2>1. \A what : Doing(what)' <=> Len(todo') > 0 /\ todo'[1] = what
    BY <1>3, FirstOf DEF Doing
  <2>2. Len(todo') > 0 => 1 \in 1 .. Len(todo) - 1 /\ Len(todo) > 1
    BY <1>2, <1>3
  <2> QED
    BY <1>3, <2>1, <2>2
<1>6. Len(todo) > 1 =>
        /\ todo[2] = "data0" => todo[1] = "status"
        /\ todo[2] = "data3" => todo[1] = "data0"
        /\ todo[2] = "sensorTime" => todo[1] = "data3"
        /\ todo[2] = "powerControl" => todo[1] = "intControl"
  <2>1. Len(todo) > 1 => 1 \in 1 .. Len(todo) - 1 /\ 1 + 1 = 2
    BY <1>2
  <2> QED
    BY <2>1 DEF StepsInOrder
<1> QED
  BY <1>4, <1>5, <1>6

\* An operation that begins begins with neither a read nor the mode.
LEMMA Beginning ==
  ASSUME todo' = Probe \/ todo' = ReadSample
  PROVE  ~Doing("data0")' /\ ~Doing("data3")' /\ ~Doing("sensorTime")' /\ ~Doing("powerControl")'
  BY BeginningsInOrder DEF Doing

\* Whatever the step, registers, time and locals keep their types.
LEMMA TypesKept ==
  ASSUME TypeOK, StepsInOrder, RateInv, Next
  PROVE  TypeOK'
<1> USE TimesAssumption
<1>1. todo' \in Seq(Transactions)
  BY StepsKept
<1>2. ASSUME NEW number \in Int, NEW time \in Int
      PROVE  Measure(number, time) \in Blocks
  BY DEF Measure, Block, Blocks
<1>3. Zeroed \in Blocks
  BY DEF Zeroed, Block, Blocks
<1>4. CASE BeginStep
  BY <1>4 DEF TypeOK, BeginStep, part, driver
<1>5. CASE LatchConversion
  <2> DEFINE t == now + StepTime - remaining'
  <2>1. remaining' \in Nat /\ t \in Int
    BY <1>5 DEF TypeOK, LatchConversion, Elapses
  <2> HIDE DEF t
  <2>2. at' = Append(at, t)
    BY <1>5 DEF LatchConversion, t
  <2>3. at' \in Seq(Int) /\ Len(at') = converted + 1 /\ Last(at') \in Int
    BY <2>1, <2>2, AppendProperties DEF TypeOK, Last
  <2>4. data' \in Blocks
    BY <1>2, <1>5, <2>3 DEF TypeOK, LatchConversion
  <2> QED
    BY <1>5, <2>1, <2>3, <2>4 DEF TypeOK, LatchConversion, driver
<1>6. CASE EndConversions
  BY <1>6 DEF TypeOK, EndConversions, part, driver, history
<1>7. CASE LatchNewest
  <2>1. period \in Nat \ {0} /\ into' \in Nat /\ remaining' \in Nat
    BY <1>7 DEF TypeOK, RateInv, LatchNewest
  <2>2. CASE into + remaining >= period
    <3>1. at' \in Seq(Int) /\ Len(at') = converted + 1 /\ Last(at') \in Int
      <4> DEFINE t == now + StepTime
      <4>1. t \in Int
        BY DEF TypeOK
      <4> HIDE DEF t
      <4>2. at' = Append(at, t)
        BY <1>7, <2>2 DEF LatchNewest, t
      <4> QED
        BY <4>1, <4>2, AppendProperties DEF TypeOK, Last
    <3>2. data' \in Blocks
      BY <1>2, <1>7, <2>2, <3>1 DEF TypeOK, LatchNewest
    <3> QED
      BY <1>7, <2>1, <2>2, <3>1, <3>2 DEF TypeOK, LatchNewest, driver
  <2>3. CASE ~(into + remaining >= period)
    BY <1>7, <2>1, <2>3 DEF TypeOK, LatchNewest, driver
  <2> QED
    BY <2>2, <2>3
<1>8. CASE PublishLine
  BY <1>8 DEF TypeOK, PublishLine, part, driver, history
<1>9. CASE FmuReset
  BY <1>3, <1>9 DEF TypeOK, FmuReset, ResetPart, driver
<1>10. CASE FmuDetach
  BY <1>10 DEF TypeOK, FmuDetach, part, driver, history
<1>11. CASE \/ Identify \/ ProgramRate \/ EnableInterrupt \/ SelectNormalMode \/ ReadStatus
            \/ BeginProbe \/ PollBaro \/ BaroTask
  <2>1. /\ UNCHANGED <<fmu, history, host, rate, words, sample, data, status, drdy, shadow>>
        /\ normal' \in {normal, 1} /\ odr' \in {odr, rate} /\ intEnabled' \in {intEnabled, 1}
    BY <1>11 DEF Identify, ProgramRate, EnableInterrupt, SelectNormalMode, ReadStatus, BeginProbe,
       PollBaro, BaroTask, part, Settings
  <2> QED
    BY <1>1, <2>1 DEF TypeOK, fmu, history
<1>12. CASE SoftReset
  BY <1>1, <1>3, <1>12 DEF TypeOK, SoftReset, ResetPart, fmu, Settings
<1>13. CASE ReadData0 \/ ReadData3 \/ ReadSensorTime
  <2>1. /\ UNCHANGED <<fmu, history, host, rate, normal, odr, intEnabled, data>>
        /\ status' \in {status, 0} /\ drdy' \in {drdy, 0} /\ shadow' \in {shadow, data}
        /\ sample' \in {sample, words'}
    BY <1>13 DEF ReadData0, ReadData3, ReadSensorTime, part, Settings
  <2>2. words' \in Blocks
    BY <1>13 DEF TypeOK, Blocks, ReadData0, ReadData3, ReadSensorTime
  <2> QED
    BY <1>1, <2>1, <2>2 DEF TypeOK, fmu, history
<1>14. CASE TransferFails
  <2>1. /\ UNCHANGED <<fmu, history, host, rate, words, sample, odr, intEnabled, data>>
        /\ status' \in {status, 0} /\ drdy' \in {drdy, 0} /\ shadow' \in {shadow, data}
        /\ normal' \in {normal, 1}
    BY <1>14 DEF TransferFails, part
  <2> QED
    BY <1>1, <2>1 DEF TypeOK, fmu, history
<1> QED
  BY <1>4, <1>5, <1>6, <1>7, <1>8, <1>9, <1>10, <1>11, <1>12, <1>13, <1>14 DEF Next, Fmu, Driver

(***************************************************************************)
(* What is read.                                                           *)
(***************************************************************************)
\* A conversion that was made stays made, and a new one is the next.
LEMMA ConversionsStay ==
  ASSUME TypeOK, NEW t \in Int, at' = Append(at, t), converted' = converted + 1
  PROVE  /\ \A block \in Blocks :
              block.press \in 1 .. converted /\ block = Measure(block.press, at[block.press]) =>
                block.press \in 1 .. converted' /\ block = Measure(block.press, at'[block.press])
         /\ Last(at') = at'[converted']
<1>1. /\ at \in Seq(Int) /\ Len(at) = converted /\ converted \in Nat
      /\ Len(at') = converted + 1
      /\ \A i \in 1 .. converted : at'[i] = at[i]
  BY AppendProperties DEF TypeOK
<1> QED
  BY <1>1 DEF Last

\* A latched conversion is whole, and newer than whatever was read.
LEMMA LatchedIsUnread ==
  ASSUME TypeOK, ReadsInv, NEW t \in Int, at' = Append(at, t), converted' = converted + 1,
         data' = Measure(converted', Last(at')), status' \in {0, 1}, LockFree,
         UNCHANGED <<shadow, todo, words, sample, before, torn>>
  PROVE  ReadsInv'
<1>1. converted \in Nat /\ sample.press <= converted /\ before <= converted /\ sample \in Blocks
  BY DEF TypeOK, ReadsInv
<1>2. \A block \in Blocks :
        block.press \in 1 .. converted /\ block = Measure(block.press, at[block.press]) =>
          block.press \in 1 .. converted' /\ block = Measure(block.press, at'[block.press])
  BY ConversionsStay
<1>3. data' = Measure(converted', at'[converted']) /\ data'.press = converted'
  BY ConversionsStay DEF Measure, Block
<1>4. Whole(data)' /\ data'.press > sample.press /\ data'.press > before
  <2>1. sample.press \in Int /\ before \in Int
    BY DEF TypeOK, Blocks
  <2>2. data'.press \in 1 .. converted' /\ data'.press > sample.press /\ data'.press > before
    BY <1>1, <1>3, <2>1
  <2>3. data' = Measure(data'.press, at'[data'.press])
    BY <1>3
  <2> QED
    BY <2>2, <2>3 DEF Whole
<1>5. \A what : Doing(what)' <=> Doing(what)
  BY DEF Doing
<1>6. ~Doing("data3") /\ ~Doing("sensorTime")
  BY DEF LockFree
<1>7. SampleIsOneConversion'
  BY <1>1, <1>2 DEF ReadsInv, SampleIsOneConversion, Whole
<1>8. sample'.press <= converted'
  <2>1. sample.press \in Int
    BY DEF TypeOK, Blocks
  <2> QED
    BY <1>1, <2>1
<1>9. Unread(data)'
  BY <1>4 DEF Unread
<1> QED
  BY <1>4, <1>5, <1>6, <1>7, <1>8, <1>9 DEF ReadsInv

\* What is about to be read is a conversion nobody has been given, whatever the
\* step.
LEMMA ReadsKept ==
  ASSUME TypeOK, StepsInOrder, ReadsInv, Next
  PROVE  ReadsInv'
<1> USE TimesAssumption
<1>1. /\ converted \in Nat /\ sample.press <= converted /\ sample.press \in Int
      /\ before \in Nat /\ before <= converted /\ data.press \in Int /\ shadow.press \in Int
      /\ data \in Blocks /\ shadow \in Blocks /\ words \in Blocks /\ sample \in Blocks
      /\ status \in {0, 1}
  BY DEF TypeOK, ReadsInv, Blocks
<1>2. /\ data = Zeroed \/ (Whole(data) /\ data.press > before)
      /\ status = 1 => Whole(data) /\ data.press > sample.press
      /\ Doing("data0") => Unread(data)
      /\ Doing("data3") => Unread(shadow) /\ status = 0 /\ words.press = shadow.press
      /\ Doing("sensorTime") =>
           Unread(shadow) /\ status = 0 /\ words.press = shadow.press /\ words.temp = shadow.temp
      /\ SampleIsOneConversion /\ sample.press <= converted
  BY DEF ReadsInv
<1>3. Zeroed.press = 0 /\ ~Whole(Zeroed)
  BY DEF Zeroed, Block, Whole
<1>4. \A v, w : Doing(v) /\ Doing(w) => v = w
  BY DEF Doing
\* Steps that leave what is read alone.
<1>5. ASSUME UNCHANGED <<data, status, shadow, words, sample, converted, at, before, torn>>,
             ~Doing("data0")' \/ UNCHANGED todo, ~Doing("data3")' \/ UNCHANGED todo,
             ~Doing("sensorTime")' \/ UNCHANGED todo
      PROVE  ReadsInv'
  <2>1. /\ Whole(data)' <=> Whole(data)
        /\ Unread(data)' <=> Unread(data)
        /\ Unread(shadow)' <=> Unread(shadow)
        /\ SampleIsOneConversion' <=> SampleIsOneConversion
    BY <1>5 DEF Whole, Unread, SampleIsOneConversion
  <2>2. /\ Doing("data0")' => Doing("data0")
        /\ Doing("data3")' => Doing("data3")
        /\ Doing("sensorTime")' => Doing("sensorTime")
    BY <1>5 DEF Doing
  <2> QED
    BY <1>2, <1>5, <2>1, <2>2 DEF ReadsInv
<1>6. CASE BeginStep \/ EndConversions \/ PublishLine \/ FmuDetach
  <2>1. UNCHANGED <<data, status, shadow, words, sample, converted, at, before, torn, todo>>
    BY <1>6 DEF BeginStep, EndConversions, PublishLine, FmuDetach, part, driver, history
  <2> QED
    BY <1>5, <2>1
<1>7. CASE LatchConversion
  <2> DEFINE t == now + StepTime - remaining'
  <2>1. t \in Int /\ status' \in {0, 1}
    BY <1>7 DEF TypeOK, LatchConversion, Elapses
  <2> HIDE DEF t
  <2>2. at' = Append(at, t)
    BY <1>7 DEF LatchConversion, t
  <2> QED
    BY <1>7, <2>1, <2>2, LatchedIsUnread DEF LatchConversion, driver
<1>8. CASE LatchNewest
  <2>1. CASE into + remaining >= period
    <3> DEFINE t == now + StepTime
    <3>1. t \in Int /\ status' \in {0, 1}
      BY <1>8, <2>1 DEF TypeOK, LatchNewest
    <3> HIDE DEF t
    <3>2. at' = Append(at, t)
      BY <1>8, <2>1 DEF LatchNewest, t
    <3> QED
      BY <1>8, <2>1, <3>1, <3>2, LatchedIsUnread DEF LatchNewest, driver
  <2>2. CASE ~(into + remaining >= period)
    BY <1>5, <1>8, <2>2 DEF LatchNewest, driver
  <2> QED
    BY <2>1, <2>2
<1>9. CASE FmuReset
  <2>1. /\ data' = Zeroed /\ status' = 0 /\ UNCHANGED <<todo, words, sample, converted, at>>
        /\ ~Doing("data3") /\ ~Doing("sensorTime")
        /\ torn' = IF Doing("data0") THEN 1 ELSE torn
    BY <1>9 DEF FmuReset, ResetPart, LockFree, driver
  <2>2. \A what : Doing(what)' <=> Doing(what)
    BY <2>1 DEF Doing
  <2>3. SampleIsOneConversion'
    BY <1>2, <2>1 DEF SampleIsOneConversion, Whole
  <2>4. Doing("data0") => Unread(data)'
    BY <2>1 DEF Unread, Zeroed, Block
  <2>5. Zeroed' = Zeroed
    BY DEF Zeroed, Block
  <2> QED
    BY <1>1, <1>2, <2>1, <2>2, <2>3, <2>4, <2>5 DEF ReadsInv
<1>10. CASE Identify \/ ProgramRate \/ EnableInterrupt \/ SelectNormalMode
  <2>1. /\ UNCHANGED <<data, status, shadow, words, sample, converted, at, before, torn>>
        /\ todo # <<>> /\ todo' = Tail(todo)
        /\ ~Doing("status") /\ ~Doing("data0") /\ ~Doing("data3")
    BY <1>10 DEF Identify, ProgramRate, EnableInterrupt, SelectNormalMode, part, fmu, history, Advance,
       Doing
  <2>2. ~Doing("data0")' /\ ~Doing("data3")' /\ ~Doing("sensorTime")'
    BY <2>1, NextInLine
  <2> QED
    BY <1>5, <2>1, <2>2
<1>11. CASE SoftReset
  <2>1. /\ data' = Zeroed /\ status' = 0 /\ UNCHANGED <<words, sample, converted, at, torn>>
        /\ todo # <<>> /\ todo' = Tail(todo)
        /\ ~Doing("status") /\ ~Doing("data0") /\ ~Doing("data3")
    BY <1>11 DEF SoftReset, ResetPart, fmu, Advance, Doing
  <2>2. ~Doing("data0")' /\ ~Doing("data3")' /\ ~Doing("sensorTime")'
    BY <2>1, NextInLine
  <2>3. SampleIsOneConversion'
    BY <1>2, <2>1 DEF SampleIsOneConversion, Whole
  <2>4. Zeroed' = Zeroed
    BY DEF Zeroed, Block
  <2> QED
    BY <1>1, <1>2, <2>1, <2>2, <2>3, <2>4 DEF ReadsInv
<1>12. CASE ReadStatus
  <2>1. /\ UNCHANGED <<data, status, shadow, words, sample, converted, at, before, torn>>
        /\ Doing("status") /\ todo # <<>>
        /\ todo' = IF status = 1 THEN Tail(todo) ELSE <<>>
    BY <1>12 DEF ReadStatus, part, fmu, history, Doing
  <2>2. CASE status = 1
    <3>1. ~Doing("data3")' /\ ~Doing("sensorTime")'
      BY <1>4, <2>1, <2>2, NextInLine
    <3>2. Whole(data) /\ data.press > sample.press /\ data.press > before
      BY <1>2, <1>3, <2>2
    <3>3. Unread(data)' /\ (Whole(data)' <=> Whole(data))
      BY <2>1, <3>2 DEF Unread, Whole
    <3>4. SampleIsOneConversion'
      BY <1>2, <2>1 DEF SampleIsOneConversion, Whole
    <3> QED
      BY <1>2, <2>1, <3>1, <3>2, <3>3, <3>4 DEF ReadsInv
  <2>3. CASE status # 1
    <3>1. ~Doing("data0")' /\ ~Doing("data3")' /\ ~Doing("sensorTime")'
      BY <2>1, <2>3 DEF Doing
    <3> QED
      BY <1>5, <2>1, <3>1
  <2> QED
    BY <2>2, <2>3
<1>13. CASE ReadData0
  <2>1. /\ UNCHANGED <<data, sample, converted, at, before, torn>>
        /\ Doing("data0") /\ todo # <<>> /\ todo' = Tail(todo)
        /\ shadow' = data /\ status' = 0 /\ words'.press = data.press
    BY <1>1, <1>13 DEF ReadData0, fmu, history, Doing, Advance, Blocks
  <2>2. ~Doing("data0")' /\ ~Doing("sensorTime")'
    BY <1>4, <2>1, NextInLine
  <2>3. /\ Unread(shadow)' <=> Unread(data)
        /\ Whole(data)' <=> Whole(data)
        /\ SampleIsOneConversion' <=> SampleIsOneConversion
    BY <2>1 DEF Unread, Whole, SampleIsOneConversion
  <2> QED
    BY <1>2, <2>1, <2>2, <2>3 DEF ReadsInv
<1>14. CASE ReadData3
  <2>1. /\ UNCHANGED <<data, status, shadow, sample, converted, at, before, torn>>
        /\ Doing("data3") /\ todo # <<>> /\ todo' = Tail(todo)
        /\ words'.press = words.press /\ words'.temp = shadow.temp
    BY <1>1, <1>14 DEF ReadData3, part, fmu, history, Doing, Advance, Blocks
  <2>2. ~Doing("data0")' /\ ~Doing("data3")'
    BY <1>4, <2>1, NextInLine
  <2>3. /\ Unread(shadow)' <=> Unread(shadow)
        /\ Whole(data)' <=> Whole(data)
        /\ SampleIsOneConversion' <=> SampleIsOneConversion
    BY <2>1 DEF Unread, Whole, SampleIsOneConversion
  <2> QED
    BY <1>2, <2>1, <2>2, <2>3 DEF ReadsInv
<1>15. CASE ReadSensorTime
  <2>1. /\ UNCHANGED <<data, status, shadow, converted, at, before, torn>>
        /\ Doing("sensorTime") /\ todo # <<>> /\ todo' = Tail(todo)
        /\ sample' = [words EXCEPT !.time = shadow.time]
    BY <1>15 DEF ReadSensorTime, part, fmu, history, Doing, Advance
  <2>2. ~Doing("data0")' /\ ~Doing("data3")' /\ ~Doing("sensorTime")'
    BY <1>4, <2>1, NextInLine
  <2>3. sample' = shadow
    BY <1>1, <1>2, <2>1 DEF Blocks
  <2>4. Whole(data)' <=> Whole(data)
    BY <2>1 DEF Whole
  <2>5. SampleIsOneConversion' /\ sample'.press <= converted'
    BY <1>1, <1>2, <1>3, <2>1, <2>3 DEF SampleIsOneConversion, Whole, Unread
  <2> QED
    BY <1>2, <2>1, <2>2, <2>4, <2>5 DEF ReadsInv
<1>16. CASE TransferFails
  <2>1. /\ UNCHANGED <<data, words, sample, converted, at, before, torn>>
        /\ todo' = <<>> /\ status' \in {status, 0}
    BY <1>16 DEF TransferFails, part, fmu, history
  <2>2. ~Doing("data0")' /\ ~Doing("data3")' /\ ~Doing("sensorTime")'
    BY <2>1 DEF Doing
  <2>3. /\ Whole(data)' <=> Whole(data)
        /\ SampleIsOneConversion' <=> SampleIsOneConversion
    BY <2>1 DEF Whole, SampleIsOneConversion
  <2> QED
    BY <1>2, <2>1, <2>2, <2>3 DEF ReadsInv
<1>17. CASE BeginProbe \/ PollBaro \/ BaroTask
  <2>1. /\ UNCHANGED <<data, status, shadow, words, sample, converted, at, before, torn>>
        /\ todo' = Probe \/ todo' = ReadSample
    BY <1>17 DEF BeginProbe, PollBaro, BaroTask, part, fmu, history
  <2> QED
    BY <1>5, <2>1, Beginning
<1> QED
  BY <1>6, <1>7, <1>8, <1>9, <1>10, <1>11, <1>12, <1>13, <1>14, <1>15, <1>16, <1>17
     DEF Next, Fmu, Driver

(***************************************************************************)
(* The line.                                                               *)
(***************************************************************************)
\* A part that can still be stepped converts only with the interrupt enabled,
\* whatever the step.
LEMMA LineKept ==
  ASSUME TypeOK, StepsInOrder, LineInv, Next
  PROVE  LineInv'
<1>1. /\ attached \in {0, 1} /\ status \in {0, 1} /\ drdy \in {0, 1} /\ normal \in {0, 1}
      /\ intEnabled \in {0, 1} /\ engine \in {"idle", "convert", "publish", "reset"}
  BY DEF TypeOK
<1>2. \A v, w : Doing(v) /\ Doing(w) => v = w
  BY DEF Doing
<1>3. CASE Fmu
  <2>1. UNCHANGED todo
    BY <1>3 DEF Fmu, BeginStep, LatchConversion, EndConversions, LatchNewest, PublishLine, FmuReset,
       FmuDetach, driver
  <2>2. Doing("powerControl")' <=> Doing("powerControl")
    BY <2>1 DEF Doing
  <2>3. CASE BeginStep
    BY <1>1, <2>2, <2>3 DEF LineInv, BeginStep, part
  <2>4. CASE LatchConversion
    BY <1>1, <2>2, <2>4 DEF LineInv, LatchConversion
  <2>5. CASE EndConversions
    BY <1>1, <2>2, <2>5 DEF LineInv, EndConversions, part
  <2>6. CASE LatchNewest
    <3>1. /\ engine = "convert" /\ engine' = "publish" /\ UNCHANGED <<attached, normal, intEnabled>>
          /\ (status' = normal /\ drdy' = 1) \/ UNCHANGED <<status, drdy>>
      BY <2>6 DEF LatchNewest
    <3> QED
      BY <1>1, <2>2, <3>1 DEF LineInv
  <2>7. CASE PublishLine
    BY <1>1, <2>2, <2>7 DEF LineInv, PublishLine, part
  <2>8. CASE FmuReset
    BY <2>8 DEF LineInv, FmuReset
  <2>9. CASE FmuDetach
    BY <2>9 DEF LineInv, FmuDetach
  <2> QED
    BY <1>3, <2>3, <2>4, <2>5, <2>6, <2>7, <2>8, <2>9 DEF Fmu
<1>4. CASE Identify \/ ProgramRate
  <2>1. /\ UNCHANGED <<attached, engine, line, normal, intEnabled, status, drdy>>
        /\ todo # <<>> /\ todo' = Tail(todo) /\ ~Doing("intControl")
    BY <1>4 DEF Identify, ProgramRate, part, fmu, Advance, Doing
  <2>2. ~Doing("powerControl")'
    BY <2>1, NextInLine
  <2> QED
    BY <2>1, <2>2 DEF LineInv
<1>5. CASE SoftReset
  <2>1. /\ UNCHANGED <<attached, engine, line>> /\ normal' = 0 /\ status' = 0
        /\ todo # <<>> /\ todo' = Tail(todo) /\ ~Doing("intControl")
    BY <1>5 DEF SoftReset, ResetPart, fmu, Advance, Doing
  <2>2. ~Doing("powerControl")'
    BY <2>1, NextInLine
  <2> QED
    BY <2>1, <2>2 DEF LineInv
<1>6. CASE EnableInterrupt
  <2>1. intEnabled' = 1 /\ UNCHANGED <<attached, engine, line, normal, status, drdy>>
    BY <1>6 DEF EnableInterrupt, fmu
  <2> QED
    BY <2>1 DEF LineInv
<1>7. CASE SelectNormalMode
  <2>1. /\ Doing("powerControl") /\ UNCHANGED <<attached, engine, line, intEnabled, status, drdy>>
    BY <1>7 DEF SelectNormalMode, fmu
  <2> QED
    BY <2>1 DEF LineInv
<1>8. CASE ReadStatus \/ ReadData0 \/ ReadData3 \/ ReadSensorTime
  <2>1. /\ UNCHANGED <<attached, engine, line, normal, intEnabled>>
        /\ UNCHANGED <<status, drdy>> \/ status' = 0
        /\ (todo # <<>> /\ todo' = Tail(todo) /\ ~Doing("intControl")) \/ todo' = <<>>
    BY <1>8 DEF ReadStatus, ReadData0, ReadData3, ReadSensorTime, part, fmu, Advance, Doing
  <2>2. ~Doing("powerControl")'
    BY <2>1, NextInLine DEF Doing
  <2> QED
    BY <2>1, <2>2 DEF LineInv
<1>9. CASE TransferFails
  <2>1. /\ UNCHANGED <<attached, engine, line, intEnabled>> /\ todo' = <<>>
        /\ normal' = normal \/ Doing("powerControl")
        /\ UNCHANGED <<status, drdy>> \/ status' = 0
    BY <1>9 DEF TransferFails, part, fmu
  <2>2. ~Doing("powerControl")'
    BY <2>1 DEF Doing
  <2> QED
    BY <2>1, <2>2 DEF LineInv
<1>10. CASE BeginProbe \/ PollBaro \/ BaroTask
  <2>1. /\ UNCHANGED <<attached, engine, line, normal, intEnabled, status, drdy>>
        /\ todo' = Probe \/ todo' = ReadSample
    BY <1>10 DEF BeginProbe, PollBaro, BaroTask, part, fmu
  <2> QED
    BY <2>1, Beginning DEF LineInv
<1> QED
  BY <1>3, <1>4, <1>5, <1>6, <1>7, <1>8, <1>9, <1>10 DEF Next, Driver

(***************************************************************************)
(* The rate.                                                               *)
(***************************************************************************)
\* One period more of conversions is one period more of time.
LEMMA OneMorePeriod ==
  ASSUME NEW n \in Nat, NEW p \in Nat
  PROVE  (n + 1) * p = n * p + p /\ n * p \in Nat
  OBVIOUS

\* Nothing counted, nothing made.
LEMMA NothingYet == \A p \in Nat : 0 * p = 0
  OBVIOUS

\* What is left of a time that is cut down to a remainder is a number of whole
\* periods, one at least where the time was a period long.
LEMMA WholePeriods ==
  ASSUME NEW p \in Nat \ {0}, NEW a \in Int, NEW b \in Nat, a % p = 0
  PROVE  /\ (a + (b - (b % p))) % p = 0
         /\ b % p \in 0 .. p - 1
         /\ b < p => b % p = b
         /\ b >= p => b % p <= b - p
<1>1. /\ b = p * (b \div p) + (b % p) /\ b % p \in 0 .. p - 1 /\ b \div p \in Int
      /\ a = p * (a \div p) + (a % p) /\ a \div p \in Int
  OBVIOUS
<1>2. \A k \in Int : (p * k) % p = 0
  OBVIOUS
<1>3. a + (b - (b % p)) = p * ((a \div p) + (b \div p)) /\ (a \div p) + (b \div p) \in Int
  BY <1>1
<1>4. (a + (b - (b % p))) % p = 0
  <2> DEFINE k == (a \div p) + (b \div p)
  <2>1. k \in Int /\ a + (b - (b % p)) = p * k
    BY <1>3
  <2> HIDE DEF k
  <2> QED
    BY <1>2, <2>1
<1>5. b < p => b % p = b
  OBVIOUS
<1>6. b >= p => b \div p >= 1
  OBVIOUS
<1>7. b >= p => p * (b \div p) >= p
  BY <1>1, <1>6
<1>8. b >= p => b % p <= b - p
  BY <1>1, <1>7
<1> QED
  BY <1>1, <1>4, <1>5, <1>8

\* In every phase of a step the conversions are as far behind the time as the
\* period they count says, whatever the step.
LEMMA RateKept ==
  ASSUME TypeOK, RateInv, Next
  PROVE  RateInv'
<1> USE TimesAssumption
<1>1. /\ period \in Nat /\ odr \in Nat \ {0} /\ remaining \in Nat /\ now \in Nat /\ into \in Nat
      /\ since \in Int /\ counted \in Nat /\ StepTime \in Nat /\ host \in {"fmu", "tool"}
      /\ engine \in {"idle", "convert", "publish", "reset"}
  BY DEF TypeOK
<1>2. counted * period \in Nat /\ (counted + 1) * period = counted * period + period
  BY <1>1, OneMorePeriod
<1>3. CASE BeginStep
  <2>1. /\ engine = "idle" /\ UNCHANGED <<now, host>> /\ remaining' = StepTime
        /\ normal = 1 => period' = odr /\ into' = into /\ engine' = "convert"
        /\ normal # 1 => period' = 0 /\ engine' = "publish"
        /\ normal = 1 /\ period = odr => UNCHANGED <<since, counted>>
        /\ normal = 1 /\ period # odr => since' = now - into /\ counted' = 0
    BY <1>3 DEF BeginStep, driver
  <2>2. CASE normal = 1 /\ period = odr
    <3>1. KeepsTime(now)
      BY <1>1, <2>1, <2>2 DEF RateInv
    <3>3. now' + StepTime - remaining' = now
      BY <1>1, <2>1
    <3>4. KeepsTime(now + StepTime - remaining)'
      BY <2>1, <2>2, <3>1, <3>3 DEF KeepsTime
    <3> QED
      BY <1>1, <2>1, <2>2, <3>4 DEF RateInv
  <2>3. CASE normal = 1 /\ period # odr
    <3>1. now' + StepTime - remaining' = now /\ now - since' = into /\ now - since' - into' = 0
      BY <1>1, <2>1, <2>3
    <3>2. counted' * period' = 0 /\ 0 % period' = 0
      BY <1>1, <2>1, <2>3, NothingYet
    <3>3. KeepsTime(now + StepTime - remaining)'
      BY <1>1, <2>1, <2>3, <3>1, <3>2 DEF KeepsTime
    <3> QED
      BY <1>1, <2>1, <2>3, <3>3 DEF RateInv
  <2>4. CASE normal # 1
    BY <2>1, <2>4 DEF RateInv
  <2> QED
    BY <2>2, <2>3, <2>4
<1>4. CASE LatchConversion
  <2>1. /\ engine = "convert" /\ host = "fmu" /\ UNCHANGED <<engine, period, now, since, host>>
        /\ remaining' = remaining - (period - into) /\ into' = 0 /\ counted' = counted + 1
    BY <1>4 DEF LatchConversion, Elapses, driver
  <2>2. period > 0 /\ counted * period + into = now + StepTime - remaining - since
    BY <1>1, <2>1 DEF RateInv, KeepsTime
  <2>3. counted' * period' + into' = now' + StepTime - remaining' - since'
    BY <1>1, <1>2, <2>1, <2>2
  <2>4. counted' * period' + into' \in Int
    BY <1>1, <1>2, <2>1
  <2>5. KeepsTime(now + StepTime - remaining)'
    BY <1>1, <2>1, <2>3, <2>4 DEF KeepsTime
  <2> QED
    BY <2>1, <2>2, <2>5 DEF RateInv
<1>5. CASE EndConversions
  <2>1. /\ engine = "convert" /\ host = "fmu" /\ UNCHANGED <<period, now, since, counted, host>>
        /\ into + remaining < period /\ into' = into + remaining /\ engine' = "publish"
    BY <1>1, <1>5 DEF EndConversions, Elapses, driver, history
  <2>2. period > 0 /\ counted * period + into = now + StepTime - remaining - since
    BY <1>1, <2>1 DEF RateInv, KeepsTime
  <2>3. counted' * period' + into' = now' + StepTime - since'
    BY <1>1, <1>2, <2>1, <2>2
  <2>4. counted' * period' + into' \in Int
    BY <1>1, <1>2, <2>1
  <2>5. KeepsTime(now + StepTime)'
    BY <1>1, <2>1, <2>3, <2>4 DEF KeepsTime
  <2> QED
    BY <2>1, <2>2, <2>5 DEF RateInv
<1>6. CASE LatchNewest
  <2> DEFINE a == now - since - into
             b == into + StepTime
  <2>1. /\ engine = "convert" /\ host = "tool" /\ UNCHANGED <<period, now, since, host>>
        /\ engine' = "publish" /\ period > 0 /\ remaining = StepTime
    BY <1>6 DEF LatchNewest, RateInv, driver
  <2>2. /\ into' = b % period
        /\ b >= period => counted' = counted + 1
        /\ ~(b >= period) => counted' = counted
    BY <1>6, <2>1 DEF LatchNewest
  <2>3. counted * period + into <= now - since /\ a % period = 0
    <3>1. now + StepTime - remaining = now
      BY <1>1, <2>1
    <3> QED
      BY <2>1, <3>1 DEF RateInv, KeepsTime
  <2>4. a \in Int /\ b \in Nat /\ b = into + StepTime /\ a + b = now + StepTime - since
    BY <1>1
  <2> HIDE DEF a, b
  <2>5. /\ (a + (b - (b % period))) % period = 0
        /\ b % period \in 0 .. period - 1
        /\ b < period => b % period = b
        /\ b >= period => b % period <= b - period
    <3>1. period \in Nat \ {0}
      BY <1>1, <2>1
    <3> QED
      BY <2>3, <2>4, <3>1, WholePeriods
  <2>6. into' \in Nat /\ into' < period /\ (a + (b - into')) % period = 0
    BY <1>1, <2>1, <2>2, <2>5
  <2>7. a + (b - into') = (now' + StepTime) - since' - into'
    BY <1>1, <2>1, <2>4, <2>6
  <2>8. counted' * period' + into' <= now' + StepTime - since'
    <3>1. CASE b >= period
      <4>1. counted' * period' = counted * period + period /\ into' <= b - period
        BY <1>2, <2>1, <2>2, <2>5, <3>1
      <4> QED
        BY <1>1, <1>2, <2>1, <2>3, <2>4, <2>6, <4>1
    <3>2. CASE ~(b >= period)
      <4>1. counted' * period' = counted * period /\ into' = b
        BY <1>1, <2>1, <2>2, <2>4, <2>5, <3>2
      <4> QED
        BY <1>1, <1>2, <2>1, <2>3, <2>4, <4>1
    <3> QED
      BY <3>1, <3>2
  <2>9. KeepsTime(now + StepTime)'
    <3>1. host' = "tool"
      BY <2>1
    <3>2. (counted * period + into <= (now + StepTime) - since)'
      BY <1>1, <2>1, <2>8
    <3>3. (((now + StepTime) - since - into) % period = 0)'
      BY <2>1, <2>6, <2>7
    <3> QED
      BY <3>1, <3>2, <3>3 DEF KeepsTime
  <2> QED
    BY <2>1, <2>6, <2>9 DEF RateInv
<1>7. CASE PublishLine
  <2>1. /\ engine = "publish" /\ engine' = "idle" /\ now' = now + StepTime
        /\ UNCHANGED <<period, into, since, counted, host>>
    BY <1>7 DEF PublishLine, driver, history
  <2> QED
    BY <2>1 DEF RateInv, KeepsTime
<1>8. CASE FmuReset
  BY <1>8 DEF FmuReset, RateInv
<1>9. CASE FmuDetach
  <2>1. /\ engine \in {"idle", "reset"} /\ engine' = "idle"
        /\ UNCHANGED <<period, into, now, since, counted, host>>
    BY <1>9 DEF FmuDetach, driver, history
  <2> QED
    BY <2>1 DEF RateInv, KeepsTime
<1>10. CASE Driver
  <2>1. UNCHANGED <<engine, period, remaining, now, into, since, counted, host>>
    BY <1>10 DEF Driver, Identify, SoftReset, ProgramRate, EnableInterrupt, SelectNormalMode,
       ReadStatus, ReadData0, ReadData3, ReadSensorTime, TransferFails, BeginProbe, PollBaro, BaroTask,
       fmu, history, Settings
  <2> QED
    BY <2>1 DEF RateInv, KeepsTime
<1> QED
  BY <1>3, <1>4, <1>5, <1>6, <1>7, <1>8, <1>9, <1>10 DEF Next, Fmu

(***************************************************************************)
(* The theorems.                                                           *)
(***************************************************************************)
\* The part, asleep or running, and the client, before either has done a thing.
LEMMA BaroInit == ASSUME Init PROVE BaroInv
<1> USE TimesAssumption
<1>1. Zeroed \in Blocks /\ NoSample \in Blocks /\ NoSample.press = -1
  BY DEF Zeroed, NoSample, Block, Blocks
<1>2. todo = <<>> /\ Len(todo) = 0 /\ \A what : ~Doing(what)
  BY DEF Init, Doing
<1>3. at \in Seq(Int) /\ Len(at) = 0 /\ todo \in Seq(Transactions)
  BY DEF Init
<1>4. TypeOK
  BY <1>1, <1>3 DEF Init, TypeOK
<1>5. StepsInOrder
  BY <1>2 DEF StepsInOrder
<1>6. ReadsInv
  BY <1>1, <1>2 DEF Init, ReadsInv, SampleIsOneConversion
<1>7. LineInv
  BY <1>2 DEF Init, LineInv
<1>8. RateInv
  BY DEF Init, RateInv
<1> QED
  BY <1>4, <1>5, <1>6, <1>7, <1>8 DEF BaroInv

\* A step in which nothing happens.
LEMMA BaroStays == ASSUME BaroInv, UNCHANGED vars PROVE BaroInv'
<1>1. UNCHANGED <<normal, odr, intEnabled, data, status, drdy, shadow, engine, period, remaining, now,
                  into, converted, line, attached, host, client, todo, rate, probed, gone, words,
                  sample, since, counted, at, before, torn>>
  BY DEF vars, part, fmu, driver, history
<1>2. TypeOK' /\ StepsInOrder'
  BY <1>1 DEF BaroInv, TypeOK, StepsInOrder
<1>3. ReadsInv'
  BY <1>1 DEF BaroInv, ReadsInv, Unread, Whole, Doing, SampleIsOneConversion
<1>4. LineInv' /\ RateInv'
  BY <1>1 DEF BaroInv, LineInv, RateInv, KeepsTime, Doing
<1> QED
  BY <1>2, <1>3, <1>4 DEF BaroInv

\* The types, the order of the transactions, what is read, the line and the
\* rate hold together, in every state.
THEOREM BaroInvariant == Spec => []BaroInv
<1>1. BaroInv /\ [Next]_vars => BaroInv'
  <2> SUFFICES ASSUME BaroInv, [Next]_vars PROVE BaroInv'
    OBVIOUS
  <2>1. TypeOK /\ StepsInOrder /\ ReadsInv /\ LineInv /\ RateInv
    BY DEF BaroInv
  <2>2. CASE Next
    BY <2>1, <2>2, TypesKept, StepsKept, ReadsKept, LineKept, RateKept DEF BaroInv
  <2> QED
    BY <2>2, BaroStays
<1> QED
  BY <1>1, BaroInit, PTL DEF Spec

\* SampleIsOneConversion: the pressure, the temperature and the time of a sample
\* are one conversion's, unless the FMU was reset under the client.
THEOREM SampleIsOneConversionAlways == Spec => []SampleIsOneConversion
<1>1. BaroInv => SampleIsOneConversion
  BY DEF BaroInv, ReadsInv
<1> QED
  BY <1>1, BaroInvariant, PTL

\* LineAnnouncesConversion: between steps the line announces an unread
\* conversion.
THEOREM LineAnnouncesConversionAlways == Spec => []LineAnnouncesConversion
<1>1. BaroInv => LineAnnouncesConversion
  BY DEF BaroInv, LineInv, LineAnnouncesConversion
<1> QED
  BY <1>1, BaroInvariant, PTL

\* RateIsTheDrivers: the part converts at the rate the driver programmed.
THEOREM RateIsTheDriversAlways == Spec => []RateIsTheDrivers
<1>1. BaroInv => RateIsTheDrivers
  BY DEF BaroInv, TypeOK, RateInv, KeepsTime, RateIsTheDrivers
<1> QED
  BY <1>1, BaroInvariant, PTL

\* SamplesAdvance: no conversion is delivered twice, after a newer one, or from
\* before the part was reset.
THEOREM SamplesAdvanceAlways == Spec => SamplesAdvance
<1>1. BaroInv /\ [Next]_vars =>
        [ReadSensorTime =>
           sample' = Zeroed \/ (sample'.press > sample.press /\ sample'.press > before)]_vars
  <2> SUFFICES ASSUME BaroInv, ReadSensorTime
               PROVE  sample' = Zeroed \/ (sample'.press > sample.press /\ sample'.press > before)
    OBVIOUS
  <2>1. /\ words \in Blocks /\ shadow \in Blocks /\ sample' = [words EXCEPT !.time = shadow.time]
        /\ Unread(shadow) /\ words.press = shadow.press /\ words.temp = shadow.temp
    BY DEF BaroInv, TypeOK, ReadsInv, ReadSensorTime
  <2>2. sample' = shadow
    BY <2>1 DEF Blocks
  <2> QED
    BY <2>1, <2>2 DEF Unread
<1> QED
  BY <1>1, BaroInvariant, PTL DEF Spec, SamplesAdvance
=============================================================================

--------------------------- MODULE Mmc5983maProofs ---------------------------
(***************************************************************************)
(* Theorems about Mmc5983ma, for any field, bridge offset, number of       *)
(* measurements and of periods in a step, with waits that run out or not.  *)
(* First what the driver's operations are made of, since the invariant is  *)
(* about what is left of one; then one lemma per part of the invariant.    *)
(***************************************************************************)
EXTENDS Mmc5983ma, SequenceTheorems, TLAPS

\* What stands where in two sequences of transactions, one after the other.
LEMMA Joined ==
  ASSUME NEW s \in Seq(Operations), NEW t \in Seq(Operations)
  PROVE  /\ s \o t \in Seq(Operations) /\ Len(s \o t) = Len(s) + Len(t)
         /\ \A i \in 1 .. Len(s) : (s \o t)[i] = s[i]
         /\ \A i \in Len(s) + 1 .. Len(s) + Len(t) : (s \o t)[i] = t[i - Len(s)]
<1>1. \A i \in 1 .. Len(s) + Len(t) : (s \o t)[i] = IF i <= Len(s) THEN s[i] ELSE t[i - Len(s)]
  BY ConcatProperties
<1>2. s \o t \in Seq(Operations) /\ Len(s \o t) = Len(s) + Len(t)
  BY ConcatProperties
<1> QED
  BY <1>1, <1>2, LenProperties

\* The transactions of trigger_and_wait, in order.
LEMMA TriggerAndWaitIs ==
  /\ TriggerAndWait \in Seq(Operations) /\ Len(TriggerAndWait) = 3
  /\ TriggerAndWait[1] = "trigger" /\ TriggerAndWait[2] = "await"
  /\ TriggerAndWait[3] = "acknowledge"
  BY DEF TriggerAndWait, Operations

\* The transactions of calibrate_bridge_offset, in order.
LEMMA CalibrateIs ==
  /\ Calibrate \in Seq(Operations) /\ Len(Calibrate) = 13
  /\ Calibrate[1] = "stop" /\ Calibrate[2] = "set" /\ Calibrate[3] = "trigger"
     /\ Calibrate[4] = "await" /\ Calibrate[5] = "acknowledge"
     /\ Calibrate[6] = "keepSet" /\ Calibrate[7] = "reset"
     /\ Calibrate[8] = "trigger" /\ Calibrate[9] = "await"
     /\ Calibrate[10] = "acknowledge" /\ Calibrate[11] = "keepReset"
     /\ Calibrate[12] = "set" /\ Calibrate[13] = "start"
<1> DEFINE s1 == <<"stop", "set">>
           s2 == s1 \o TriggerAndWait
           t2 == <<"keepSet", "reset">>
           s3 == s2 \o t2
           s4 == s3 \o TriggerAndWait
           t3 == <<"keepReset", "set", "start">>
           s5 == s4 \o t3
<1>1. Calibrate = s5
  BY DEF Calibrate
<1>2. /\ s1 \in Seq(Operations) /\ Len(s1) = 2
      /\ t2 \in Seq(Operations) /\ Len(t2) = 2
      /\ t3 \in Seq(Operations) /\ Len(t3) = 3
      /\ TriggerAndWait \in Seq(Operations) /\ Len(TriggerAndWait) = 3
  BY TriggerAndWaitIs DEF Operations
<1>3. /\ s1[1] = "stop" /\ s1[2] = "set"
      /\ t2[1] = "keepSet" /\ t2[2] = "reset"
      /\ t3[1] = "keepReset" /\ t3[2] = "set" /\ t3[3] = "start"
  OBVIOUS
<1> HIDE DEF s1, t2, t3
<1>4. /\ s2 \in Seq(Operations) /\ Len(s2) = Len(s1) + Len(TriggerAndWait)
      /\ \A i \in 1 .. Len(s1) : s2[i] = s1[i]
      /\ \A i \in Len(s1) + 1 .. Len(s1) + Len(TriggerAndWait) : s2[i] = TriggerAndWait[i - Len(s1)]
  BY <1>2, Joined DEF s2
<1> HIDE DEF s2
<1>5. /\ s2 \in Seq(Operations) /\ Len(s2) = 5
      /\ \A i \in 1 .. 2 : s2[i] = s1[i]
      /\ \A i \in 2 + 1 .. 2 + 3 : s2[i] = TriggerAndWait[i - 2]
  BY <1>2, <1>4
<1>6. /\ s2[1] = "stop" /\ s2[2] = "set" /\ s2[3] = "trigger" /\ s2[4] = "await"
         /\ s2[5] = "acknowledge"
  BY <1>3, TriggerAndWaitIs, <1>5
<1>7. /\ s3 \in Seq(Operations) /\ Len(s3) = Len(s2) + Len(t2)
      /\ \A i \in 1 .. Len(s2) : s3[i] = s2[i]
      /\ \A i \in Len(s2) + 1 .. Len(s2) + Len(t2) : s3[i] = t2[i - Len(s2)]
  BY <1>2, <1>5, Joined DEF s3
<1> HIDE DEF s3
<1>8. /\ s3 \in Seq(Operations) /\ Len(s3) = 7
      /\ \A i \in 1 .. 5 : s3[i] = s2[i]
      /\ \A i \in 5 + 1 .. 5 + 2 : s3[i] = t2[i - 5]
  BY <1>2, <1>5, <1>7
<1>9. /\ s3[1] = "stop" /\ s3[2] = "set" /\ s3[3] = "trigger" /\ s3[4] = "await"
         /\ s3[5] = "acknowledge" /\ s3[6] = "keepSet" /\ s3[7] = "reset"
  BY <1>3, <1>6, <1>8
<1>10. /\ s4 \in Seq(Operations) /\ Len(s4) = Len(s3) + Len(TriggerAndWait)
       /\ \A i \in 1 .. Len(s3) : s4[i] = s3[i]
       /\ \A i \in Len(s3) + 1 .. Len(s3) + Len(TriggerAndWait) : s4[i] = TriggerAndWait[i - Len(s3)]
  BY <1>2, <1>8, Joined DEF s4
<1> HIDE DEF s4
<1>11. /\ s4 \in Seq(Operations) /\ Len(s4) = 10
       /\ \A i \in 1 .. 7 : s4[i] = s3[i]
       /\ \A i \in 7 + 1 .. 7 + 3 : s4[i] = TriggerAndWait[i - 7]
  BY <1>2, <1>8, <1>10
<1>12. /\ s4[1] = "stop" /\ s4[2] = "set" /\ s4[3] = "trigger"
          /\ s4[4] = "await" /\ s4[5] = "acknowledge" /\ s4[6] = "keepSet"
          /\ s4[7] = "reset" /\ s4[8] = "trigger" /\ s4[9] = "await"
          /\ s4[10] = "acknowledge"
  BY <1>9, TriggerAndWaitIs, <1>11
<1>13. /\ s5 \in Seq(Operations) /\ Len(s5) = Len(s4) + Len(t3)
       /\ \A i \in 1 .. Len(s4) : s5[i] = s4[i]
       /\ \A i \in Len(s4) + 1 .. Len(s4) + Len(t3) : s5[i] = t3[i - Len(s4)]
  BY <1>2, <1>11, Joined DEF s5
<1> HIDE DEF s5
<1>14. /\ s5 \in Seq(Operations) /\ Len(s5) = 13
       /\ \A i \in 1 .. 10 : s5[i] = s4[i]
       /\ \A i \in 10 + 1 .. 10 + 3 : s5[i] = t3[i - 10]
  BY <1>2, <1>11, <1>13
<1>15. /\ s5[1] = "stop" /\ s5[2] = "set" /\ s5[3] = "trigger"
          /\ s5[4] = "await" /\ s5[5] = "acknowledge" /\ s5[6] = "keepSet"
          /\ s5[7] = "reset" /\ s5[8] = "trigger" /\ s5[9] = "await"
          /\ s5[10] = "acknowledge" /\ s5[11] = "keepReset" /\ s5[12] = "set"
          /\ s5[13] = "start"
  BY <1>3, <1>12, <1>14
<1> QED
  BY <1>1, <1>14, <1>15

\* The transactions of measure_once, in order.
LEMMA MeasureOnceIs ==
  /\ MeasureOnce \in Seq(Operations) /\ Len(MeasureOnce) = 5
  /\ MeasureOnce[1] = "trigger" /\ MeasureOnce[2] = "await"
     /\ MeasureOnce[3] = "acknowledge" /\ MeasureOnce[4] = "burst"
     /\ MeasureOnce[5] = "deliver"
<1> DEFINE t1 == <<"burst", "deliver">>
           s1 == TriggerAndWait \o t1
<1>1. MeasureOnce = s1
  BY DEF MeasureOnce
<1>2. /\ t1 \in Seq(Operations) /\ Len(t1) = 2
      /\ TriggerAndWait \in Seq(Operations) /\ Len(TriggerAndWait) = 3
  BY TriggerAndWaitIs DEF Operations
<1>3. t1[1] = "burst" /\ t1[2] = "deliver"
  OBVIOUS
<1> HIDE DEF t1
<1>4. /\ s1 \in Seq(Operations) /\ Len(s1) = Len(TriggerAndWait) + Len(t1)
      /\ \A i \in 1 .. Len(TriggerAndWait) : s1[i] = TriggerAndWait[i]
      /\ \A i \in Len(TriggerAndWait) + 1 .. Len(TriggerAndWait) + Len(t1) :
           s1[i] = t1[i - Len(TriggerAndWait)]
  BY <1>2, Joined DEF s1
<1> HIDE DEF s1
<1>5. /\ s1 \in Seq(Operations) /\ Len(s1) = 5
      /\ \A i \in 1 .. 3 : s1[i] = TriggerAndWait[i]
      /\ \A i \in 3 + 1 .. 3 + 2 : s1[i] = t1[i - 3]
  BY <1>2, <1>4
<1>6. /\ s1[1] = "trigger" /\ s1[2] = "await" /\ s1[3] = "acknowledge"
         /\ s1[4] = "burst" /\ s1[5] = "deliver"
  BY <1>3, TriggerAndWaitIs, <1>5
<1> QED
  BY <1>1, <1>5, <1>6

\* The transactions of read_sample, in order.
LEMMA ReadSampleIs ==
  /\ ReadSample \in Seq(Operations) /\ Len(ReadSample) = 4
  /\ ReadSample[1] = "check" /\ ReadSample[2] = "burst"
     /\ ReadSample[3] = "acknowledge" /\ ReadSample[4] = "deliver"
  BY DEF ReadSample, Operations

\* The transactions of probe, in order, under automatic set/reset
LEMMA ProbeAutomaticIs ==
  config.automatic = 1 =>
    /\ Probe \in Seq(Operations) /\ Len(Probe) = 5
    /\ Probe[1] = "softReset" /\ Probe[2] = "configure" /\ Probe[3] = "set"
       /\ Probe[4] = "clearOffset" /\ Probe[5] = "start"
<1> DEFINE first == <<"softReset", "configure", "set">>
           middle == <<"clearOffset">>
           last == <<"start">>
           s1 == first \o middle
           s2 == s1 \o last
<1>1. config.automatic = 1 => Probe = s2
  BY DEF Probe
<1>2. /\ first \in Seq(Operations) /\ Len(first) = 3
      /\ middle \in Seq(Operations) /\ Len(middle) = 1
      /\ last \in Seq(Operations) /\ Len(last) = 1
  BY DEF Operations
<1>3. /\ first[1] = "softReset" /\ first[2] = "configure" /\ first[3] = "set"
      /\ middle[1] = "clearOffset" /\ last[1] = "start"
  OBVIOUS
<1> HIDE DEF first, middle, last
<1>4. /\ s1 \in Seq(Operations) /\ Len(s1) = Len(first) + Len(middle)
      /\ \A i \in 1 .. Len(first) : s1[i] = first[i]
      /\ \A i \in Len(first) + 1 .. Len(first) + Len(middle) : s1[i] = middle[i - Len(first)]
  BY <1>2, Joined DEF s1
<1> HIDE DEF s1
<1>5. /\ s1 \in Seq(Operations) /\ Len(s1) = 4
      /\ \A i \in 1 .. 3 : s1[i] = first[i]
      /\ \A i \in 3 + 1 .. 3 + 1 : s1[i] = middle[i - 3]
  BY <1>2, <1>4
<1>6. /\ s1[1] = "softReset" /\ s1[2] = "configure" /\ s1[3] = "set"
         /\ s1[4] = "clearOffset"
  BY <1>3, <1>5
<1>7. /\ s2 \in Seq(Operations) /\ Len(s2) = Len(s1) + Len(last)
      /\ \A i \in 1 .. Len(s1) : s2[i] = s1[i]
      /\ \A i \in Len(s1) + 1 .. Len(s1) + Len(last) : s2[i] = last[i - Len(s1)]
  BY <1>2, <1>5, Joined DEF s2
<1> HIDE DEF s2
<1>8. /\ s2 \in Seq(Operations) /\ Len(s2) = 5
      /\ \A i \in 1 .. 4 : s2[i] = s1[i]
      /\ \A i \in 4 + 1 .. 4 + 1 : s2[i] = last[i - 4]
  BY <1>2, <1>5, <1>7
<1>9. /\ s2[1] = "softReset" /\ s2[2] = "configure" /\ s2[3] = "set"
         /\ s2[4] = "clearOffset" /\ s2[5] = "start"
  BY <1>3, <1>6, <1>8
<1> QED
  BY <1>1, <1>8, <1>9

\* without it,
LEMMA ProbeManualIs ==
  config.automatic # 1 /\ config.calibrate = 1 =>
    /\ Probe \in Seq(Operations) /\ Len(Probe) = 17
    /\ Probe[1] = "softReset" /\ Probe[2] = "configure" /\ Probe[3] = "set"
       /\ Probe[4] = "stop" /\ Probe[5] = "set" /\ Probe[6] = "trigger"
       /\ Probe[7] = "await" /\ Probe[8] = "acknowledge" /\ Probe[9] = "keepSet"
       /\ Probe[10] = "reset" /\ Probe[11] = "trigger" /\ Probe[12] = "await"
       /\ Probe[13] = "acknowledge" /\ Probe[14] = "keepReset" /\ Probe[15] = "set"
       /\ Probe[16] = "start" /\ Probe[17] = "start"
<1> DEFINE first == <<"softReset", "configure", "set">>
           last == <<"start">>
           s1 == first \o Calibrate
           s2 == s1 \o last
<1>1. config.automatic # 1 /\ config.calibrate = 1 => Probe = s2
  BY DEF Probe
<1>2. /\ first \in Seq(Operations) /\ Len(first) = 3
      /\ last \in Seq(Operations) /\ Len(last) = 1
      /\ Calibrate \in Seq(Operations) /\ Len(Calibrate) = 13
  BY CalibrateIs DEF Operations
<1>3. /\ first[1] = "softReset" /\ first[2] = "configure" /\ first[3] = "set"
      /\ last[1] = "start"
  OBVIOUS
<1> HIDE DEF first, last
<1>4. /\ s1 \in Seq(Operations) /\ Len(s1) = Len(first) + Len(Calibrate)
      /\ \A i \in 1 .. Len(first) : s1[i] = first[i]
      /\ \A i \in Len(first) + 1 .. Len(first) + Len(Calibrate) : s1[i] = Calibrate[i - Len(first)]
  BY <1>2, Joined DEF s1
<1> HIDE DEF s1
<1>5. /\ s1 \in Seq(Operations) /\ Len(s1) = 16
      /\ \A i \in 1 .. 3 : s1[i] = first[i]
      /\ \A i \in 3 + 1 .. 3 + 13 : s1[i] = Calibrate[i - 3]
  BY <1>2, <1>4
<1>6. /\ s1[1] = "softReset" /\ s1[2] = "configure" /\ s1[3] = "set"
         /\ s1[4] = "stop" /\ s1[5] = "set" /\ s1[6] = "trigger" /\ s1[7] = "await"
         /\ s1[8] = "acknowledge" /\ s1[9] = "keepSet" /\ s1[10] = "reset"
         /\ s1[11] = "trigger" /\ s1[12] = "await" /\ s1[13] = "acknowledge"
         /\ s1[14] = "keepReset" /\ s1[15] = "set" /\ s1[16] = "start"
  BY <1>3, CalibrateIs, <1>5
<1>7. /\ s2 \in Seq(Operations) /\ Len(s2) = Len(s1) + Len(last)
      /\ \A i \in 1 .. Len(s1) : s2[i] = s1[i]
      /\ \A i \in Len(s1) + 1 .. Len(s1) + Len(last) : s2[i] = last[i - Len(s1)]
  BY <1>2, <1>5, Joined DEF s2
<1> HIDE DEF s2
<1>8. /\ s2 \in Seq(Operations) /\ Len(s2) = 17
      /\ \A i \in 1 .. 16 : s2[i] = s1[i]
      /\ \A i \in 16 + 1 .. 16 + 1 : s2[i] = last[i - 16]
  BY <1>2, <1>5, <1>7
<1>9. /\ s2[1] = "softReset" /\ s2[2] = "configure" /\ s2[3] = "set"
         /\ s2[4] = "stop" /\ s2[5] = "set" /\ s2[6] = "trigger" /\ s2[7] = "await"
  BY <1>6, <1>8
<1>10. /\ s2[8] = "acknowledge" /\ s2[9] = "keepSet" /\ s2[10] = "reset"
       /\ s2[11] = "trigger" /\ s2[12] = "await" /\ s2[13] = "acknowledge"
       /\ s2[14] = "keepReset" /\ s2[15] = "set" /\ s2[16] = "start"
  BY <1>6, <1>8
<1>11. s2[17] = "start"
  BY <1>3, <1>8
<1> QED
  BY <1>1, <1>8, <1>9, <1>10, <1>11

\* and without a calibration.
LEMMA ProbeUncalibratedIs ==
  config.automatic # 1 /\ config.calibrate # 1 =>
    /\ Probe \in Seq(Operations) /\ Len(Probe) = 4
    /\ Probe[1] = "softReset" /\ Probe[2] = "configure" /\ Probe[3] = "set"
       /\ Probe[4] = "start"
<1> DEFINE first == <<"softReset", "configure", "set">>
           none == <<>>
           last == <<"start">>
           s1 == first \o none
           s2 == s1 \o last
<1>1. config.automatic # 1 /\ config.calibrate # 1 => Probe = s2
  BY DEF Probe
<1>2. /\ first \in Seq(Operations) /\ Len(first) = 3
      /\ none \in Seq(Operations) /\ Len(none) = 0
      /\ last \in Seq(Operations) /\ Len(last) = 1
  BY DEF Operations
<1>3. /\ first[1] = "softReset" /\ first[2] = "configure" /\ first[3] = "set"
      /\ last[1] = "start"
  OBVIOUS
<1> HIDE DEF first, none, last
<1>4. /\ s1 \in Seq(Operations) /\ Len(s1) = Len(first) + Len(none)
      /\ \A i \in 1 .. Len(first) : s1[i] = first[i]
  BY <1>2, Joined DEF s1
<1> HIDE DEF s1
<1>5. /\ s1 \in Seq(Operations) /\ Len(s1) = 3
      /\ s1[1] = "softReset" /\ s1[2] = "configure" /\ s1[3] = "set"
  BY <1>2, <1>3, <1>4
<1>6. /\ s2 \in Seq(Operations) /\ Len(s2) = Len(s1) + Len(last)
      /\ \A i \in 1 .. Len(s1) : s2[i] = s1[i]
      /\ \A i \in Len(s1) + 1 .. Len(s1) + Len(last) : s2[i] = last[i - Len(s1)]
  BY <1>2, <1>5, Joined DEF s2
<1> HIDE DEF s2
<1>7. /\ s2 \in Seq(Operations) /\ Len(s2) = 4
      /\ \A i \in 1 .. 3 : s2[i] = s1[i]
      /\ \A i \in 3 + 1 .. 3 + 1 : s2[i] = last[i - 3]
  BY <1>2, <1>5, <1>6
<1>8. s2[1] = "softReset" /\ s2[2] = "configure" /\ s2[3] = "set"
  BY <1>5, <1>7
<1>9. s2[4] = "start"
  BY <1>3, <1>7
<1> QED
  BY <1>1, <1>7, <1>8, <1>9

(***************************************************************************)
(* What is left of an operation.                                           *)
(***************************************************************************)
\* A transaction begins an operation when its steps are not all done.
LEMMA FirstOf ==
  ASSUME NEW s \in Seq(Operations), NEW what
  PROVE  /\ Len(s) \in Nat
         /\ s # <<>> <=> Len(s) > 0
         /\ s # <<>> /\ Head(s) = what <=> Len(s) > 0 /\ s[1] = what
  BY EmptySeq, LenProperties, HeadTailProperties

\* What is left when the first transaction is done.
LEMMA RestOf ==
  ASSUME NEW s \in Seq(Operations), s # <<>>
  PROVE  /\ Tail(s) \in Seq(Operations) /\ Len(Tail(s)) = Len(s) - 1
         /\ \A i \in 1 .. Len(s) - 1 : Tail(s)[i] = s[i + 1]
  BY HeadTailProperties

\* Every step leaves the operation at hand alone, does its first transaction,
\* breaks it off, or begins one; none changes the configuration.
LEMMA KindsOfStep ==
  ASSUME Next
  PROVE  /\ config' = config
         /\ \/ UNCHANGED <<todo, probed>>
            \/ todo # <<>> /\ Advance
            \/ todo' = <<>> /\ UNCHANGED probed
            \/ BeginProbe \/ BeginReading \/ BeginCalibration
<1>1. CASE Fmu
  BY <1>1 DEF Fmu, BeginStep, ReadPeriod, SenseState, LatchMeasurement, PublishLine, driver
<1>2. CASE Driver
  BY <1>2 DEF Driver, BeginProbe, BeginReading, BeginCalibration, SoftReset, Configure, Pulse,
     Trigger, AwaitDone, GiveUp, Acknowledge, SetContinuous, KeepAfterSet, StoreOffset,
     ClearOffset, CheckStatus, Burst, Deliver, Doing, Keeps
<1> QED
  BY <1>1, <1>2 DEF Next

\* The first transaction done, what is left is in order as before.
LEMMA AdvanceKeepsOrder ==
  ASSUME DriverTypes, LeftToDo, StepsInOrder, todo # <<>>, Advance, config' = config,
         probed \in {0, 1}
  PROVE  todo' \in Seq(Operations) /\ LeftToDo' /\ StepsInOrder'
<1>1. todo \in Seq(Operations)
  BY DEF DriverTypes
<1>2. Len(todo) \in Nat /\ Len(todo) > 0
  BY <1>1, FirstOf
<1>3. /\ todo' \in Seq(Operations) /\ Len(todo') = Len(todo) - 1
      /\ \A i \in 1 .. Len(todo) - 1 : todo'[i] = todo[i + 1]
  BY <1>1, RestOf DEF Advance
<1>4. Doing("softReset")' => Len(todo') > 0 /\ todo'[1] = "softReset"
  BY <1>3, FirstOf DEF Doing
<1>5. todo' # <<>> <=> Len(todo') > 0
  BY <1>3, FirstOf
<1>6. \A i \in 2 .. Len(todo) : todo[i] # "softReset" /\ (todo[i] = "configure" => i = 2)
  BY DEF LeftToDo
<1>7. ~Doing("softReset")'
  BY <1>2, <1>3, <1>4, <1>6
<1>8. \A i \in 1 .. Len(todo') : i + 1 \in 1 .. Len(todo) /\ todo'[i] = todo[i + 1]
  BY <1>2, <1>3
<1>9. \A what : Ahead(what)' => Ahead(what)
  BY <1>8 DEF Ahead
<1>10. probed' = IF Len(todo) = 1 THEN 1 ELSE probed
  BY DEF Advance
<1>11. LeftToDo'
  <2>1. (todo # <<>> => todo[Len(todo)] \in {"start", "deliver"})'
    BY <1>2, <1>3, <1>5 DEF LeftToDo
  <2>2. \A i \in 2 .. Len(todo') : todo'[i] \notin {"softReset", "configure"}
    BY <1>2, <1>3, <1>6
  <2>3. (probed = 1 => ~Ahead("softReset") /\ ~Ahead("configure"))'
    <3>1. CASE Len(todo) = 1
      BY <3>1, <1>3 DEF Ahead
    <3>2. CASE Len(todo) # 1
      BY <3>2, <1>9, <1>10 DEF LeftToDo
    <3> QED
      BY <3>1, <3>2
  <2>4. (probed = 0 => ~Ahead("check") /\ ~Ahead("burst") /\ ~Ahead("deliver"))'
    BY <1>9, <1>10 DEF LeftToDo
  <2>5. (config.automatic = 1 /\ probed = 0 =>
           /\ \A i \in 1 .. Len(todo) :
                todo[i] \in {"softReset", "configure", "set", "clearOffset", "start"}
           /\ \A i \in 1 .. Len(todo) : todo[i] = "start" => i = Len(todo))'
    <3> SUFFICES ASSUME config'.automatic = 1, probed' = 0, NEW i \in 1 .. Len(todo')
                 PROVE  /\ todo'[i] \in {"softReset", "configure", "set", "clearOffset", "start"}
                        /\ todo'[i] = "start" => i = Len(todo')
      OBVIOUS
    <3>1. config.automatic = 1 /\ probed = 0
      BY <1>10
    <3>2. i + 1 \in 1 .. Len(todo) /\ todo'[i] = todo[i + 1]
      BY <1>8
    <3>3. todo[i + 1] \in {"softReset", "configure", "set", "clearOffset", "start"}
      BY <3>1, <3>2 DEF LeftToDo
    <3>4. todo[i + 1] = "start" => i + 1 = Len(todo)
      BY <3>1, <3>2 DEF LeftToDo
    <3> QED
      BY <1>2, <1>3, <3>2, <3>3, <3>4
  <2> QED
    BY <1>7, <2>1, <2>2, <2>3, <2>4, <2>5 DEF LeftToDo
<1>12. StepsInOrder'
  <2>1. ASSUME NEW i \in 1 .. Len(todo') - 1
        PROVE  /\ todo'[i] = "burst" =>
                    todo'[i + 1] = (IF config'.continuous = 1 THEN "acknowledge" ELSE "deliver")
               /\ todo'[i + 1] = "burst" =>
                    todo'[i] = (IF config'.continuous = 1 THEN "check" ELSE "acknowledge")
               /\ todo'[i + 1] = "deliver" =>
                    todo'[i] = (IF config'.continuous = 1 THEN "acknowledge" ELSE "burst")
               /\ todo'[i + 1] = "acknowledge" => todo'[i] \in {"await", "burst"}
               /\ todo'[i + 1] = "await" => todo'[i] = "trigger"
    <3> DEFINE k == i + 1
    <3>1. k \in 1 .. Len(todo) - 1 /\ todo'[i] = todo[k] /\ todo'[i + 1] = todo[k + 1]
      BY <1>2, <1>3
    <3> HIDE DEF k
    <3> QED
      BY <3>1 DEF StepsInOrder
  <2>2. ASSUME NEW i \in 1 .. Len(todo') - 2
        PROVE  todo'[i] = "await" => todo'[i + 2] # "deliver"
    <3> DEFINE k == i + 1
    <3>1. k \in 1 .. Len(todo) - 2 /\ todo'[i] = todo[k] /\ todo'[i + 2] = todo[k + 2]
      BY <1>2, <1>3
    <3> HIDE DEF k
    <3> QED
      BY <3>1 DEF StepsInOrder
  <2> QED
    BY <2>1, <2>2 DEF StepsInOrder
<1> QED
  BY <1>3, <1>11, <1>12

\* What the invariant needs to know of probe's transactions.
LEMMA ProbeInOrder ==
  ASSUME config.automatic \in {0, 1}
  PROVE  /\ Probe \in Seq(Operations) /\ Probe # <<>> /\ Head(Probe) = "softReset"
         /\ Len(Probe) \in Nat /\ Len(Probe) <= 17 /\ Probe[Len(Probe)] = "start"
         /\ 2 \in 1 .. Len(Probe) /\ Probe[2] = "configure"
         /\ \A i \in 2 .. Len(Probe) :
              Probe[i] # "softReset" /\ (Probe[i] = "configure" => i = 2)
         /\ \A i \in 1 .. Len(Probe) : Probe[i] \notin {"check", "burst", "deliver"}
         /\ config.automatic = 1 =>
              /\ \A i \in 1 .. Len(Probe) :
                   Probe[i] \in {"softReset", "configure", "set", "clearOffset", "start"}
              /\ \A i \in 1 .. Len(Probe) : Probe[i] = "start" => i = Len(Probe)
         /\ \A i \in 1 .. Len(Probe) - 1 : i \in 1 .. Len(Probe) /\ i + 1 \in 1 .. Len(Probe)
         /\ \A i \in 1 .. Len(Probe) - 2 : i + 2 \in 1 .. Len(Probe)
         /\ \A i \in 1 .. Len(Probe) - 1 : Probe[i + 1] = "acknowledge" => Probe[i] = "await"
         /\ \A i \in 1 .. Len(Probe) - 1 : Probe[i + 1] = "await" => Probe[i] = "trigger"
<1> DEFINE p == Probe
<1>1. CASE config.automatic = 1
  <2>1. p \in Seq(Operations) /\ Len(p) = 5
    BY <1>1, ProbeAutomaticIs
  <2>2. /\ p[1] = "softReset" /\ p[2] = "configure" /\ p[3] = "set" /\ p[4] = "clearOffset"
        /\ p[5] = "start"
    BY <1>1, ProbeAutomaticIs
  <2> HIDE DEF p
  <2>3. p # <<>> /\ Head(p) = "softReset"
    <3>1. Len(p) > 0 /\ p[1] = "softReset"
      BY <2>1, <2>2
    <3> QED
      BY <2>1, <3>1, FirstOf
  <2>4. /\ p[Len(p)] = "start" /\ 2 \in 1 .. Len(p)
        /\ \A i \in 2 .. Len(p) : p[i] # "softReset" /\ (p[i] = "configure" => i = 2)
        /\ \A i \in 1 .. Len(p) : p[i] = "start" => i = Len(p)
    BY <2>1, <2>2
  <2>5. \A i \in 1 .. Len(p) : p[i] \in {"softReset", "configure", "set", "clearOffset", "start"}
    BY <2>1, <2>2
  <2>6. \A i \in 1 .. Len(p) :
          p[i] \notin {"check", "burst", "deliver", "acknowledge", "await"}
    BY <2>5
  <2>7. /\ \A i \in 1 .. Len(p) - 1 : i \in 1 .. Len(p) /\ i + 1 \in 1 .. Len(p)
        /\ \A i \in 1 .. Len(p) - 2 : i + 2 \in 1 .. Len(p)
    BY <2>1
  <2>8. Len(p) \in Nat /\ Len(p) <= 17
    BY <2>1
  <2> QED
    BY <2>1, <2>2, <2>3, <2>4, <2>5, <2>6, <2>7, <2>8 DEF p
<1>2. CASE config.automatic # 1 /\ config.calibrate = 1
  <2>1. p \in Seq(Operations) /\ Len(p) = 17
    BY <1>2, ProbeManualIs
  <2>2. /\ p[1] = "softReset" /\ p[2] = "configure" /\ p[3] = "set"
        /\ p[4] = "stop" /\ p[5] = "set" /\ p[6] = "trigger" /\ p[7] = "await"
        /\ p[8] = "acknowledge" /\ p[9] = "keepSet" /\ p[10] = "reset"
        /\ p[11] = "trigger" /\ p[12] = "await" /\ p[13] = "acknowledge"
        /\ p[14] = "keepReset" /\ p[15] = "set" /\ p[16] = "start"
        /\ p[17] = "start"
    BY <1>2, ProbeManualIs
  <2> HIDE DEF p
  <2>3. p # <<>> /\ Head(p) = "softReset"
    <3>1. Len(p) > 0 /\ p[1] = "softReset"
      BY <2>1, <2>2
    <3> QED
      BY <2>1, <3>1, FirstOf
  <2>4. /\ p[Len(p)] = "start" /\ 2 \in 1 .. Len(p)
        /\ \A i \in 2 .. Len(p) : p[i] # "softReset" /\ (p[i] = "configure" => i = 2)
    BY <2>1, <2>2
  <2>5. \A i \in 1 .. Len(p) : p[i] \notin {"check", "burst", "deliver"}
    BY <2>1, <2>2
  <2>6. \A i \in 1 .. Len(p) - 1 : p[i + 1] = "acknowledge" => p[i] = "await"
    BY <2>1, <2>2
  <2>7. \A i \in 1 .. Len(p) - 1 : p[i + 1] = "await" => p[i] = "trigger"
    BY <2>1, <2>2
  <2>8. /\ \A i \in 1 .. Len(p) - 1 : i \in 1 .. Len(p) /\ i + 1 \in 1 .. Len(p)
        /\ \A i \in 1 .. Len(p) - 2 : i + 2 \in 1 .. Len(p)
        /\ Len(p) \in Nat /\ Len(p) <= 17
    BY <2>1
  <2> QED
    BY <1>2, <2>1, <2>2, <2>3, <2>4, <2>5, <2>6, <2>7, <2>8 DEF p
<1>3. CASE config.automatic # 1 /\ config.calibrate # 1
  <2>1. p \in Seq(Operations) /\ Len(p) = 4
    BY <1>3, ProbeUncalibratedIs
  <2>2. p[1] = "softReset" /\ p[2] = "configure" /\ p[3] = "set" /\ p[4] = "start"
    BY <1>3, ProbeUncalibratedIs
  <2> HIDE DEF p
  <2>3. p # <<>> /\ Head(p) = "softReset"
    <3>1. Len(p) > 0 /\ p[1] = "softReset"
      BY <2>1, <2>2
    <3> QED
      BY <2>1, <3>1, FirstOf
  <2>4. /\ p[Len(p)] = "start" /\ 2 \in 1 .. Len(p)
        /\ \A i \in 2 .. Len(p) : p[i] # "softReset" /\ (p[i] = "configure" => i = 2)
    BY <2>1, <2>2
  <2>5. \A i \in 1 .. Len(p) :
          p[i] \notin {"check", "burst", "deliver", "acknowledge", "await"}
    BY <2>1, <2>2
  <2>6. /\ \A i \in 1 .. Len(p) - 1 : i \in 1 .. Len(p) /\ i + 1 \in 1 .. Len(p)
        /\ \A i \in 1 .. Len(p) - 2 : i + 2 \in 1 .. Len(p)
        /\ Len(p) \in Nat /\ Len(p) <= 17
    BY <2>1
  <2> QED
    BY <1>3, <2>1, <2>2, <2>3, <2>4, <2>5, <2>6 DEF p
<1> QED
  BY <1>1, <1>2, <1>3

\* Where the transactions of an operation that begins stand.
LEMMA BeginningsInOrder ==
  ASSUME DriverTypes, config' = config, BeginProbe \/ BeginReading \/ BeginCalibration
  PROVE  /\ todo' \in Seq(Operations) /\ LeftToDo' /\ StepsInOrder'
         /\ todo' # <<>> /\ ~Doing("await")' /\ ~Doing("burst")' /\ ~Doing("deliver")'
         /\ ~Doing("acknowledge")'
         /\ Len(todo') <= 17 /\ (BeginProbe => Ahead("configure")' /\ Doing("softReset")')
<1>1. config.automatic \in {0, 1} /\ config.continuous \in {0, 1}
  BY DEF DriverTypes
<1>2. CASE BeginProbe
  <2>1. probed = 0 /\ probed' = 0 /\ todo' = Probe /\ Probe' = Probe
    BY <1>2 DEF BeginProbe, Probe, Calibrate, TriggerAndWait
  <2> DEFINE p == Probe
  <2>2. /\ p \in Seq(Operations) /\ p # <<>> /\ Head(p) = "softReset"
        /\ Len(p) \in Nat /\ Len(p) <= 17 /\ p[Len(p)] = "start"
        /\ 2 \in 1 .. Len(p) /\ p[2] = "configure"
        /\ \A i \in 2 .. Len(p) : p[i] # "softReset" /\ (p[i] = "configure" => i = 2)
        /\ \A i \in 1 .. Len(p) : p[i] \notin {"check", "burst", "deliver"}
        /\ config.automatic = 1 =>
             /\ \A i \in 1 .. Len(p) :
                  p[i] \in {"softReset", "configure", "set", "clearOffset", "start"}
             /\ \A i \in 1 .. Len(p) : p[i] = "start" => i = Len(p)
        /\ \A i \in 1 .. Len(p) - 1 : i \in 1 .. Len(p) /\ i + 1 \in 1 .. Len(p)
        /\ \A i \in 1 .. Len(p) - 2 : i + 2 \in 1 .. Len(p)
        /\ \A i \in 1 .. Len(p) - 1 : p[i + 1] = "acknowledge" => p[i] = "await"
        /\ \A i \in 1 .. Len(p) - 1 : p[i + 1] = "await" => p[i] = "trigger"
    BY <1>1, ProbeInOrder
  <2> HIDE DEF p
  <2>3. todo' = p /\ Probe' = p /\ probed' = 0
    BY <2>1 DEF p
  <2>4. LeftToDo'
    <3>1. \A what : Doing(what)' <=> what = "softReset"
      BY <2>2, <2>3 DEF Doing
    <3>2. ~Ahead("check")' /\ ~Ahead("burst")' /\ ~Ahead("deliver")'
      BY <2>2, <2>3 DEF Ahead
    <3> QED
      BY <2>2, <2>3, <3>1, <3>2 DEF LeftToDo
  <2>5. StepsInOrder'
    BY <2>2, <2>3 DEF StepsInOrder
  <2>6. Ahead("configure")' /\ Doing("softReset")'
    BY <2>2, <2>3 DEF Ahead, Doing
  <2>7. /\ todo' # <<>> /\ ~Doing("await")' /\ ~Doing("burst")' /\ ~Doing("deliver")'
        /\ ~Doing("acknowledge")'
    BY <2>2, <2>3 DEF Doing
  <2>8. Len(todo') <= 17
    BY <2>2, <2>3
  <2> QED
    BY <2>2, <2>3, <2>4, <2>5, <2>6, <2>7, <2>8
<1>3. CASE BeginReading /\ config.continuous = 1
  <2>1. todo' = ReadSample /\ probed = 1 /\ probed' = 1
    BY <1>3 DEF BeginReading
  <2> DEFINE p == ReadSample
  <2>2. p \in Seq(Operations) /\ Len(p) = 4
    BY ReadSampleIs
  <2>3. /\ p[1] = "check" /\ p[2] = "burst" /\ p[3] = "acknowledge"
        /\ p[4] = "deliver"
    BY ReadSampleIs
  <2> HIDE DEF p
  <2>4. todo' = p /\ probed' = 1
    BY <2>1 DEF p
  <2>5. p # <<>> /\ Head(p) = "check"
    <3>1. Len(p) > 0 /\ p[1] = "check"
      BY <2>2, <2>3
    <3> QED
      BY <2>2, <3>1, FirstOf
  <2>6. \A i \in 1 .. Len(p) : p[i] \notin {"softReset", "configure"}
    BY <2>2, <2>3
  <2>7. LeftToDo'
    <3>1. p[Len(p)] \in {"start", "deliver"}
      BY <2>2, <2>3
    <3>2. \A i \in 2 .. Len(p) : p[i] # "softReset" /\ p[i] # "configure"
      BY <2>2, <2>6
    <3>3. ~Doing("softReset")'
      BY <2>4, <2>5 DEF Doing
    <3>4. ~Ahead("softReset")' /\ ~Ahead("configure")'
      BY <2>4, <2>6 DEF Ahead
    <3> QED
      BY <2>4, <3>1, <3>2, <3>3, <3>4 DEF LeftToDo
  <2>8. StepsInOrder'
    <3>1. \A i \in 1 .. Len(p) - 1 :
            /\ p[i] = "burst" => p[i + 1] = "acknowledge"
            /\ p[i + 1] = "burst" => p[i] = "check"
            /\ p[i + 1] = "deliver" => p[i] = "acknowledge"
            /\ p[i + 1] = "acknowledge" => p[i] = "burst"
            /\ p[i + 1] = "await" => p[i] = "trigger"
      BY <2>2, <2>3
    <3>2. \A i \in 1 .. Len(p) - 2 : p[i] = "await" => p[i + 2] # "deliver"
      BY <2>2, <2>3
    <3> QED
      BY <1>3, <2>4, <3>1, <3>2 DEF StepsInOrder
  <2>9. ~BeginProbe
    BY <2>1 DEF BeginProbe
  <2>10. /\ todo' # <<>> /\ ~Doing("await")' /\ ~Doing("burst")' /\ ~Doing("deliver")'
         /\ ~Doing("acknowledge")'
    BY <2>4, <2>5 DEF Doing
  <2>11. Len(todo') <= 17
    <3>1. Len(todo') = 4
      BY <2>2, <2>4
    <3> QED
      BY <3>1
  <2> QED
    BY <2>2, <2>4, <2>7, <2>8, <2>9, <2>10, <2>11
<1>4. CASE BeginReading /\ config.continuous # 1
  <2>1. todo' = MeasureOnce /\ probed = 1 /\ probed' = 1
    BY <1>4 DEF BeginReading
  <2> DEFINE p == MeasureOnce
  <2>2. p \in Seq(Operations) /\ Len(p) = 5
    BY MeasureOnceIs
  <2>3. /\ p[1] = "trigger" /\ p[2] = "await" /\ p[3] = "acknowledge"
        /\ p[4] = "burst" /\ p[5] = "deliver"
    BY MeasureOnceIs
  <2> HIDE DEF p
  <2>4. todo' = p /\ probed' = 1
    BY <2>1 DEF p
  <2>5. p # <<>> /\ Head(p) = "trigger"
    <3>1. Len(p) > 0 /\ p[1] = "trigger"
      BY <2>2, <2>3
    <3> QED
      BY <2>2, <3>1, FirstOf
  <2>6. \A i \in 1 .. Len(p) : p[i] \notin {"softReset", "configure"}
    BY <2>2, <2>3
  <2>7. LeftToDo'
    <3>1. p[Len(p)] \in {"start", "deliver"}
      BY <2>2, <2>3
    <3>2. \A i \in 2 .. Len(p) : p[i] # "softReset" /\ p[i] # "configure"
      BY <2>2, <2>6
    <3>3. ~Doing("softReset")'
      BY <2>4, <2>5 DEF Doing
    <3>4. ~Ahead("softReset")' /\ ~Ahead("configure")'
      BY <2>4, <2>6 DEF Ahead
    <3> QED
      BY <2>4, <3>1, <3>2, <3>3, <3>4 DEF LeftToDo
  <2>8. StepsInOrder'
    <3>1. \A i \in 1 .. Len(p) - 1 :
            /\ p[i] = "burst" => p[i + 1] = "deliver"
            /\ p[i + 1] = "burst" => p[i] = "acknowledge"
            /\ p[i + 1] = "deliver" => p[i] = "burst"
            /\ p[i + 1] = "acknowledge" => p[i] = "await"
            /\ p[i + 1] = "await" => p[i] = "trigger"
      BY <2>2, <2>3
    <3>2. \A i \in 1 .. Len(p) - 2 : p[i] = "await" => p[i + 2] # "deliver"
      BY <2>2, <2>3
    <3> QED
      BY <1>4, <2>4, <3>1, <3>2 DEF StepsInOrder
  <2>9. ~BeginProbe
    BY <2>1 DEF BeginProbe
  <2>10. /\ todo' # <<>> /\ ~Doing("await")' /\ ~Doing("burst")' /\ ~Doing("deliver")'
         /\ ~Doing("acknowledge")'
    BY <2>4, <2>5 DEF Doing
  <2>11. Len(todo') <= 17
    <3>1. Len(todo') = 5
      BY <2>2, <2>4
    <3> QED
      BY <3>1
  <2> QED
    BY <2>2, <2>4, <2>7, <2>8, <2>9, <2>10, <2>11
<1>5. CASE BeginCalibration
  <2>1. todo' = Calibrate /\ probed = 1 /\ probed' = 1
    BY <1>5 DEF BeginCalibration
  <2> DEFINE p == Calibrate
  <2>2. p \in Seq(Operations) /\ Len(p) = 13
    BY CalibrateIs
  <2>3. /\ p[1] = "stop" /\ p[2] = "set" /\ p[3] = "trigger" /\ p[4] = "await"
        /\ p[5] = "acknowledge" /\ p[6] = "keepSet" /\ p[7] = "reset"
        /\ p[8] = "trigger" /\ p[9] = "await" /\ p[10] = "acknowledge"
        /\ p[11] = "keepReset" /\ p[12] = "set" /\ p[13] = "start"
    BY CalibrateIs
  <2> HIDE DEF p
  <2>4. todo' = p /\ probed' = 1
    BY <2>1 DEF p
  <2>5. p # <<>> /\ Head(p) = "stop"
    <3>1. Len(p) > 0 /\ p[1] = "stop"
      BY <2>2, <2>3
    <3> QED
      BY <2>2, <3>1, FirstOf
  <2>6. \A i \in 1 .. Len(p) : p[i] \notin {"softReset", "configure"}
    BY <2>2, <2>3
  <2>7. LeftToDo'
    <3>1. p[Len(p)] \in {"start", "deliver"}
      BY <2>2, <2>3
    <3>2. \A i \in 2 .. Len(p) : p[i] # "softReset" /\ p[i] # "configure"
      BY <2>2, <2>6
    <3>3. ~Doing("softReset")'
      BY <2>4, <2>5 DEF Doing
    <3>4. ~Ahead("softReset")' /\ ~Ahead("configure")'
      BY <2>4, <2>6 DEF Ahead
    <3> QED
      BY <2>4, <3>1, <3>2, <3>3, <3>4 DEF LeftToDo
  <2>8. StepsInOrder'
    <3>1. \A i \in 1 .. Len(p) : p[i] \notin {"burst", "deliver"}
      BY <2>2, <2>3
    <3>2. \A i \in 1 .. Len(p) - 1 : i \in 1 .. Len(p) /\ i + 1 \in 1 .. Len(p)
      BY <2>2
    <3>3. \A i \in 1 .. Len(p) - 2 : i + 2 \in 1 .. Len(p)
      BY <2>2
    <3>4. \A i \in 1 .. Len(p) - 1 : p[i + 1] = "acknowledge" => p[i] = "await"
      BY <2>2, <2>3
    <3>5. \A i \in 1 .. Len(p) - 1 : p[i + 1] = "await" => p[i] = "trigger"
      BY <2>2, <2>3
    <3> QED
      BY <2>4, <3>1, <3>2, <3>3, <3>4, <3>5 DEF StepsInOrder
  <2>9. ~BeginProbe
    BY <2>1 DEF BeginProbe
  <2>10. /\ todo' # <<>> /\ ~Doing("await")' /\ ~Doing("burst")' /\ ~Doing("deliver")'
         /\ ~Doing("acknowledge")'
    BY <2>4, <2>5 DEF Doing
  <2>11. Len(todo') <= 17
    <3>1. Len(todo') = 13
      BY <2>2, <2>4
    <3> QED
      BY <3>1
  <2> QED
    BY <2>2, <2>4, <2>7, <2>8, <2>9, <2>10, <2>11
<1> QED
  BY <1>2, <1>3, <1>4, <1>5

\* What a transaction that is up next says of the one just done.
LEMMA NextInLine ==
  ASSUME DriverTypes, StepsInOrder, todo # <<>>, Advance
  PROVE  /\ Doing("deliver")' /\ config.continuous = 1 => Doing("acknowledge") /\ Then("deliver")
         /\ Doing("deliver")' /\ config.continuous # 1 => Doing("burst")
         /\ Doing("burst")' /\ config.continuous = 1 => Doing("check")
         /\ Doing("burst")' /\ config.continuous # 1 => Doing("acknowledge") /\ Then("burst")
         /\ Doing("await")' => Doing("trigger")
         /\ Doing("acknowledge")' /\ Then("burst")' => Doing("await")
         /\ Doing("acknowledge")' /\ Then("deliver")' => Doing("burst")
<1>1. todo \in Seq(Operations)
  BY DEF DriverTypes
<1>2. Len(todo) \in Nat /\ Len(todo) > 0
  BY <1>1, FirstOf
<1>3. /\ todo' \in Seq(Operations) /\ Len(todo') = Len(todo) - 1
      /\ \A i \in 1 .. Len(todo) - 1 : todo'[i] = todo[i + 1]
  BY <1>1, RestOf DEF Advance
<1>4. \A what : Doing(what) <=> todo[1] = what
  BY <1>1, <1>2, FirstOf DEF Doing
<1>5. \A what : Doing(what)' <=> Len(todo) > 1 /\ todo[2] = what
  <2>1. \A what : Doing(what)' <=> Len(todo') > 0 /\ todo'[1] = what
    BY <1>3, FirstOf DEF Doing
  <2>2. Len(todo') > 0 <=> Len(todo) > 1
    BY <1>2, <1>3
  <2>3. Len(todo) > 1 => todo'[1] = todo[2]
    BY <1>2, <1>3
  <2> QED
    BY <2>1, <2>2, <2>3
<1>6. \A what : Then(what)' <=> Len(todo) > 2 /\ todo[3] = what
  <2>1. Len(todo') > 1 <=> Len(todo) > 2
    BY <1>2, <1>3
  <2>2. Len(todo) > 2 => todo'[2] = todo[3]
    BY <1>2, <1>3
  <2> QED
    BY <2>1, <2>2 DEF Then
<1>7. ASSUME Len(todo) > 1
      PROVE  /\ todo[1] = "burst" =>
                  todo[2] = (IF config.continuous = 1 THEN "acknowledge" ELSE "deliver")
             /\ todo[2] = "burst" =>
                  todo[1] = (IF config.continuous = 1 THEN "check" ELSE "acknowledge")
             /\ todo[2] = "deliver" =>
                  todo[1] = (IF config.continuous = 1 THEN "acknowledge" ELSE "burst")
             /\ todo[2] = "acknowledge" => todo[1] \in {"await", "burst"}
             /\ todo[2] = "await" => todo[1] = "trigger"
  <2>1. 1 \in 1 .. Len(todo) - 1
    BY <1>2, <1>7
  <2>2. 1 + 1 = 2
    OBVIOUS
  <2> QED
    BY <2>1, <2>2 DEF StepsInOrder
<1>8. ASSUME Len(todo) > 2
      PROVE  /\ todo[3] = "burst" =>
                  todo[2] = (IF config.continuous = 1 THEN "check" ELSE "acknowledge")
             /\ todo[1] = "await" => todo[3] # "deliver"
  <2>1. 2 \in 1 .. Len(todo) - 1 /\ 1 \in 1 .. Len(todo) - 2
    BY <1>2, <1>8
  <2>2. 2 + 1 = 3 /\ 1 + 2 = 3
    OBVIOUS
  <2> QED
    BY <2>1, <2>2 DEF StepsInOrder
<1>9. Len(todo) > 2 => Len(todo) > 1
  BY <1>2
<1> QED
  BY <1>4, <1>5, <1>6, <1>7, <1>8, <1>9 DEF Then

\* What is up next is ahead.
LEMMA DoingIsAhead ==
  ASSUME DriverTypes, NEW what, Doing(what)
  PROVE  Ahead(what)
<1>1. todo \in Seq(Operations)
  BY DEF DriverTypes
<1>2. Len(todo) \in Nat /\ Len(todo) > 0 /\ todo[1] = what
  BY <1>1, FirstOf DEF Doing
<1> QED
  BY <1>2 DEF Ahead

(***************************************************************************)
(* The measurements' numbers.                                              *)
(***************************************************************************)
\* A step of the FMU that latches nothing keeps what NumbersGrow speaks of.
LEMMA QuietSteps ==
  ASSUME NumbersGrow, UNCHANGED <<done, data, taken, config, todo, probed, counts, sample>>
  PROVE  NumbersGrow'
  BY DEF NumbersGrow, Doing, Then, Fresh

\* What is read is newer than what was returned, whatever the step.
LEMMA NumbersKept ==
  ASSUME PartInv, Next
  PROVE  NumbersGrow'
<1>1. TypeOK /\ DriverTypes /\ LeftToDo /\ StepsInOrder /\ NumbersGrow
  BY DEF PartInv
<1>2. /\ data.id \in Nat /\ taken \in Nat /\ counts.id \in Nat /\ sample.id \in Nat
      /\ counts.id <= taken /\ sample.id <= counts.id /\ probed \in {0, 1}
      /\ config.continuous \in {0, 1} /\ done \in {0, 1}
  BY <1>1, BoundsAssumption DEF TypeOK, DriverTypes
<1>3. CASE BeginStep \/ ReadPeriod \/ SenseState \/ PublishLine
  BY <1>1, <1>3, QuietSteps DEF BeginStep, ReadPeriod, SenseState, PublishLine, part, driver
<1>4. CASE LatchMeasurement
  <2>1. /\ data'.id = taken + 1 /\ taken' = taken + 1
        /\ UNCHANGED <<config, todo, probed, counts, sample>>
    BY <1>4 DEF LatchMeasurement, Measurement, driver
  <2> QED
    BY <1>1, <1>2, <2>1 DEF NumbersGrow, Doing, Then, Fresh
<1>5. CASE BeginProbe \/ BeginReading \/ BeginCalibration
  <2>1. UNCHANGED <<done, data, taken, config, probed, counts, sample>>
    BY <1>5 DEF BeginProbe, BeginReading, BeginCalibration, part, step, Keeps
  <2>2. ~Doing("await")' /\ ~Doing("burst")' /\ ~Doing("deliver")' /\ ~Doing("acknowledge")'
    BY <1>1, <1>5, <2>1, BeginningsInOrder
  <2> QED
    BY <1>1, <2>1, <2>2 DEF NumbersGrow, Fresh
<1>6. CASE GiveUp \/ (CheckStatus /\ done = 0)
  <2>1. todo' = <<>> /\ UNCHANGED <<done, data, taken, config, probed, counts, sample>>
    BY <1>6 DEF GiveUp, CheckStatus, part, step, Keeps
  <2>2. \A what : ~Doing(what)'
    BY <2>1 DEF Doing
  <2> QED
    BY <1>1, <2>1, <2>2 DEF NumbersGrow, Fresh
<1>7. ASSUME todo # <<>>, Advance, config' = config, taken' = taken,
             \/ UNCHANGED <<done, data, counts, sample>> /\ ~Doing("acknowledge") /\ ~Doing("burst")
                  /\ ~Doing("trigger") /\ ~Doing("deliver")
                  /\ (Doing("check") \/ Doing("await") => done = 1)
             \/ SoftReset \/ Trigger \/ Acknowledge \/ Burst \/ Deliver
      PROVE  NumbersGrow'
  <2>1. /\ Doing("deliver")' /\ config.continuous = 1 => Doing("acknowledge") /\ Then("deliver")
        /\ Doing("deliver")' /\ config.continuous # 1 => Doing("burst")
        /\ Doing("burst")' /\ config.continuous = 1 => Doing("check")
        /\ Doing("burst")' /\ config.continuous # 1 => Doing("acknowledge") /\ Then("burst")
        /\ Doing("await")' => Doing("trigger")
        /\ Doing("acknowledge")' /\ Then("burst")' => Doing("await")
        /\ Doing("acknowledge")' /\ Then("deliver")' => Doing("burst")
    BY <1>1, <1>7, NextInLine
  <2>2. probed' \in {0, 1} /\ (probed = 1 => probed' = 1)
    BY <1>2, <1>7 DEF Advance
  <2>3. /\ probed = 1 => ~Doing("softReset") /\ ~Doing("configure")
        /\ probed = 0 => ~Doing("check") /\ ~Doing("burst") /\ ~Doing("deliver")
    BY <1>1, DoingIsAhead DEF LeftToDo
  <2>4. CASE /\ UNCHANGED <<done, data, counts, sample>>
             /\ ~Doing("acknowledge") /\ ~Doing("burst") /\ ~Doing("trigger")
             /\ ~Doing("deliver") /\ (Doing("check") \/ Doing("await") => done = 1)
    BY <1>1, <1>2, <1>7, <2>1, <2>2, <2>3, <2>4 DEF NumbersGrow, Fresh
  <2>5. CASE SoftReset
    <3>1. /\ Doing("softReset") /\ done' = 0 /\ data'.id = 0
          /\ UNCHANGED <<counts, sample>>
      BY <2>5 DEF SoftReset, None, Measurement, Keeps
    <3>2. ~Doing("check") /\ ~Doing("await") /\ ~Doing("acknowledge") /\ ~Doing("burst")
      BY <3>1 DEF Doing
    <3> QED
      BY <1>1, <1>2, <1>7, <2>1, <2>2, <2>3, <3>1, <3>2 DEF NumbersGrow, Fresh
  <2>6. CASE Trigger
    <3>1. Doing("trigger") /\ done' = 0 /\ UNCHANGED <<data, counts, sample>>
      BY <2>6 DEF Trigger, Keeps
    <3>2. ~Doing("check") /\ ~Doing("await") /\ ~Doing("acknowledge") /\ ~Doing("burst")
      BY <3>1 DEF Doing
    <3> QED
      BY <1>1, <1>2, <1>7, <2>1, <2>2, <2>3, <3>1, <3>2 DEF NumbersGrow, Fresh
  <2>7. CASE Acknowledge
    <3>1. Doing("acknowledge") /\ done' = 0 /\ UNCHANGED <<data, counts, sample>>
      BY <2>7 DEF Acknowledge, Keeps
    <3>2. ~Doing("check") /\ ~Doing("await") /\ ~Doing("burst")
      BY <3>1 DEF Doing
    <3> QED
      BY <1>1, <1>2, <1>7, <2>1, <2>2, <2>3, <3>1, <3>2 DEF NumbersGrow, Fresh
  <2>8. CASE Burst
    <3>1. Doing("burst") /\ counts' = data /\ UNCHANGED <<done, data, sample>>
      BY <2>8 DEF Burst, part
    <3>2. ~Doing("check") /\ ~Doing("await") /\ ~Doing("acknowledge") /\ ~Doing("trigger")
      BY <3>1 DEF Doing
    <3>3. probed = 1 /\ Fresh
      BY <1>1, <1>2, <2>3, <3>1 DEF NumbersGrow
    <3> QED
      BY <1>1, <1>2, <1>7, <2>1, <2>2, <2>3, <3>1, <3>2, <3>3 DEF NumbersGrow, Fresh
  <2>9. CASE Deliver
    <3>1. /\ Doing("deliver") /\ sample'.id = counts.id
          /\ UNCHANGED <<done, data, counts>>
      BY <2>9 DEF Deliver, Measurement, part
    <3>2. /\ ~Doing("check") /\ ~Doing("await") /\ ~Doing("acknowledge") /\ ~Doing("burst")
          /\ ~Doing("trigger")
      BY <3>1 DEF Doing
    <3>3. probed = 1
      BY <1>2, <2>3, <3>1
    <3>4. \A what \in {"await", "burst", "deliver"} : ~Doing(what)'
      BY <1>2, <2>1, <3>1, <3>2
    <3>5. ~(Doing("acknowledge")' /\ Then("burst")') /\ ~(Doing("acknowledge")' /\ Then("deliver")')
      BY <2>1, <3>2
    <3> QED
      BY <1>1, <1>2, <1>7, <2>2, <3>1, <3>3, <3>4, <3>5 DEF NumbersGrow, Fresh
  <2> QED
    BY <1>7, <2>4, <2>5, <2>6, <2>7, <2>8, <2>9
<1>8. CASE SoftReset \/ Trigger \/ Acknowledge \/ Burst \/ Deliver
  <2>1. todo # <<>> /\ Advance /\ config' = config /\ taken' = taken
    BY <1>8 DEF SoftReset, Trigger, Acknowledge, Burst, Deliver, Doing, Keeps, step
  <2> QED
    BY <1>7, <1>8, <2>1
<1>9. CASE \/ Configure \/ Pulse("set", 1) \/ Pulse("reset", -1) \/ SetContinuous("stop", 0)
           \/ SetContinuous("start", config.continuous) \/ KeepAfterSet \/ StoreOffset
           \/ ClearOffset \/ AwaitDone \/ (CheckStatus /\ done # 0)
  <2>1. todo # <<>> /\ Advance /\ config' = config /\ UNCHANGED <<taken, done, data, counts, sample>>
    BY <1>9 DEF Configure, Pulse, SetContinuous, KeepAfterSet, StoreOffset, ClearOffset, AwaitDone,
       CheckStatus, Doing, Keeps, step, part
  <2>2. /\ ~Doing("acknowledge") /\ ~Doing("burst") /\ ~Doing("trigger") /\ ~Doing("deliver")
        /\ (Doing("check") \/ Doing("await") => done = 1)
    BY <1>2, <1>9 DEF Configure, Pulse, SetContinuous, KeepAfterSet, StoreOffset, ClearOffset,
         AwaitDone,
       CheckStatus, Doing
  <2> QED
    BY <1>7, <2>1, <2>2
<1>10. CASE Fmu
  BY <1>3, <1>4, <1>10 DEF Fmu
<1>11. CASE CheckStatus
  BY <1>6, <1>9, <1>11
<1>12. CASE Driver
  BY <1>5, <1>6, <1>8, <1>9, <1>11, <1>12 DEF Driver
<1> QED
  BY <1>10, <1>12 DEF Next

\* What is left of an operation stays in order, whatever the step.
LEMMA OrderKept ==
  ASSUME PartInv, Next
  PROVE  todo' \in Seq(Operations) /\ LeftToDo' /\ StepsInOrder'
<1>1. TypeOK /\ DriverTypes /\ LeftToDo /\ StepsInOrder
  BY DEF PartInv
<1>2. probed \in {0, 1} /\ todo \in Seq(Operations)
  BY <1>1 DEF TypeOK, DriverTypes
<1>3. config' = config
  BY KindsOfStep
<1>4. CASE UNCHANGED <<todo, probed>>
  <2>1. Probe' = Probe
    BY <1>3 DEF Probe, Calibrate, TriggerAndWait
  <2> QED
    BY <1>1, <1>2, <1>3, <1>4, <2>1 DEF LeftToDo, StepsInOrder, Ahead, Doing
<1>5. CASE todo # <<>> /\ Advance
  BY <1>1, <1>2, <1>3, <1>5, AdvanceKeepsOrder
<1>6. CASE todo' = <<>>
  <2>1. todo' \in Seq(Operations) /\ Len(todo') = 0
    BY <1>6, EmptySeq
  <2>2. \A what : ~Doing(what)' /\ ~Ahead(what)'
    BY <1>6, <2>1 DEF Doing, Ahead
  <2>3. LeftToDo'
    BY <1>6, <2>1, <2>2 DEF LeftToDo
  <2>4. StepsInOrder'
    BY <2>1 DEF StepsInOrder
  <2> QED
    BY <2>1, <2>3, <2>4
<1>7. CASE BeginProbe \/ BeginReading \/ BeginCalibration
  BY <1>1, <1>3, <1>7, BeginningsInOrder
<1> QED
  BY <1>4, <1>5, <1>6, <1>7, KindsOfStep

(***************************************************************************)
(* The FMU's step, and the part as probe() leaves it.                      *)
(***************************************************************************)
\* The FMU senses only what it owes, whatever the step.
LEMMA OwingKept ==
  ASSUME PartInv, Next
  PROVE  Owing'
<1>1. /\ Owing /\ owed \in 0 .. PerStep /\ pending \in {0, 1} /\ taken \in 0 .. MaxMeasurements
      /\ engine \in {"idle", "period", "sense", "latch", "publish"}
      /\ owed \in Nat /\ old \in Nat /\ taken \in Nat /\ triggered \in {0, 1}
  BY BoundsAssumption DEF PartInv, TypeOK, DriverTypes, Owing
<1>2. CASE BeginStep
  BY <1>1, <1>2 DEF Owing, BeginStep, driver, history, Doing
<1>3. CASE ReadPeriod
  <2>1. owed' \in Nat
    BY <1>3, BoundsAssumption DEF ReadPeriod, Elapsed, ElapsedInWallTime
  <2>2. triggered = 0 /\ owed = 0 /\ UNCHANGED <<taken, triggered, old, todo>>
    BY <1>1, <1>3 DEF Owing, ReadPeriod, driver, history
  <2>3. Doing("softReset")' \/ old' <= taken' + triggered' + owed'
    <3>1. old' = old /\ taken' + triggered' + owed' = taken + owed'
      BY <1>1, <2>1, <2>2
    <3>2. Doing("softReset")' \/ old <= taken
      BY <1>1, <2>2 DEF Owing, Doing
    <3>3. \A a, b, c \in Nat : a <= b => a <= b + c
      OBVIOUS
    <3> QED
      BY <1>1, <2>1, <3>1, <3>2, <3>3
  <2>4. engine' \in {"sense", "publish"} /\ (engine' = "sense" <=> owed' > 0)
    BY <1>3 DEF ReadPeriod
  <2> QED
    BY <2>1, <2>2, <2>3, <2>4 DEF Owing
<1>4. CASE SenseState
  BY <1>1, <1>4 DEF Owing, SenseState, driver, history, Doing
<1>5. CASE LatchMeasurement
  BY <1>1, <1>5 DEF Owing, LatchMeasurement, driver, history, Doing
<1>6. CASE PublishLine
  BY <1>1, <1>6 DEF Owing, PublishLine, driver, history, Doing
<1>7. CASE Driver
  <2>1. UNCHANGED step
    BY <1>7 DEF Driver, BeginProbe, BeginReading, BeginCalibration, SoftReset, Configure, Pulse,
       Trigger, AwaitDone, GiveUp, Acknowledge, SetContinuous, KeepAfterSet, StoreOffset,
       ClearOffset, CheckStatus, Burst, Deliver
  <2>2. CASE SoftReset
    <3>1. old' = taken + triggered + owed
      BY <2>2 DEF SoftReset
    <3> QED
      BY <1>1, <2>1, <3>1 DEF Owing, step
  <2>3. CASE ~SoftReset
    <3>1. old' = old
      BY <1>7, <2>3 DEF Driver, BeginProbe, BeginReading, BeginCalibration, Configure, Pulse,
         Trigger, AwaitDone, GiveUp, Acknowledge, SetContinuous, KeepAfterSet, StoreOffset,
         ClearOffset, CheckStatus, Burst, Deliver, Keeps, history
    <3>2. ~Doing("softReset")
      BY <1>7, <2>3 DEF Driver, BeginProbe, BeginReading, BeginCalibration, Configure, Pulse,
         Trigger, AwaitDone, GiveUp, Acknowledge, SetContinuous, KeepAfterSet, StoreOffset,
         ClearOffset, CheckStatus, Burst, Deliver, Doing
    <3> QED
      BY <1>1, <2>1, <3>1, <3>2 DEF Owing, step
  <2> QED
    BY <2>2, <2>3
<1> QED
  BY <1>2, <1>3, <1>4, <1>5, <1>6, <1>7 DEF Next, Fmu

\* What the first transaction's end means for the rest and for probe().
LEMMA AdvanceMoves ==
  ASSUME DriverTypes, LeftToDo, todo # <<>>, Advance, probed \in {0, 1}
  PROVE  /\ \A what : Ahead(what) /\ ~Doing(what) => Ahead(what)'
         /\ probed' # probed =>
              probed = 0 /\ probed' = 1 /\ Doing("start") /\ \A what : Ahead(what) => what = "start"
         /\ probed = 0 /\ config.automatic = 1 =>
              \E what \in {"softReset", "configure", "set", "clearOffset", "start"} : Doing(what)
         /\ probed = 0 /\ config.automatic = 1 /\ Doing("start") => probed' = 1
         /\ Ahead("configure") => Doing("softReset") \/ Doing("configure")
         /\ Doing("softReset") => Ahead("configure")'
         /\ ~Doing("softReset")' /\ (Ahead("configure")' => Doing("softReset"))
<1>1. todo \in Seq(Operations) /\ config.automatic \in {0, 1}
  BY DEF DriverTypes
<1>2. Len(todo) \in Nat /\ Len(todo) > 0
  BY <1>1, FirstOf
<1>3. /\ todo' \in Seq(Operations) /\ Len(todo') = Len(todo) - 1
      /\ \A i \in 1 .. Len(todo) - 1 : todo'[i] = todo[i + 1]
  BY <1>1, RestOf DEF Advance
<1>4. \A what : Doing(what) <=> todo[1] = what
  BY <1>1, <1>2, FirstOf DEF Doing
<1>5. ASSUME NEW what, Ahead(what), ~Doing(what)
      PROVE  Ahead(what)'
  <2>1. PICK i \in 1 .. Len(todo) : todo[i] = what
    BY <1>5 DEF Ahead
  <2>2. i # 1
    BY <1>4, <1>5, <2>1
  <2> DEFINE k == i - 1
  <2>3. k \in 1 .. Len(todo) - 1 /\ i = k + 1
    BY <1>2, <2>2
  <2> HIDE DEF k
  <2>4. todo'[k] = what /\ k \in 1 .. Len(todo')
    BY <1>2, <1>3, <2>1, <2>3
  <2> QED
    BY <2>4 DEF Ahead
<1>6. probed' = IF Len(todo) = 1 THEN 1 ELSE probed
  BY DEF Advance
<1>7. ASSUME probed' # probed
      PROVE  /\ probed = 0 /\ probed' = 1 /\ Doing("start")
             /\ \A what : Ahead(what) => what = "start"
  <2>1. probed = 0 /\ probed' = 1 /\ Len(todo) = 1
    BY <1>6, <1>7
  <2>2. todo[1] \in {"start", "deliver"}
    BY <2>1 DEF LeftToDo
  <2>3. todo[1] # "deliver"
    BY <2>1 DEF LeftToDo, Ahead
  <2> QED
    BY <1>4, <2>1, <2>2, <2>3 DEF Ahead
<1>8. ASSUME probed = 0, config.automatic = 1
      PROVE  /\ todo[1] \in {"softReset", "configure", "set", "clearOffset", "start"}
             /\ todo[1] = "start" => Len(todo) = 1
  <2>1. 1 \in 1 .. Len(todo)
    BY <1>2
  <2> QED
    BY <1>8, <2>1 DEF LeftToDo
<1>9. \A i \in 2 .. Len(todo) :
        todo[i] # "softReset" /\ (todo[i] = "configure" => Doing("softReset"))
  BY DEF LeftToDo
<1>10. Ahead("configure") => Doing("softReset") \/ Doing("configure")
  <2>1. \A i \in 1 .. Len(todo) : i = 1 \/ i \in 2 .. Len(todo)
    BY <1>2
  <2> QED
    BY <1>4, <1>9, <2>1 DEF Ahead
<1>11. Doing("softReset") => Ahead("configure")'
  <2>1. Doing("softReset") => todo = Probe
    BY DEF LeftToDo
  <2> DEFINE p == Probe
  <2>2. 2 \in 1 .. Len(p) /\ p[2] = "configure" /\ Len(p) \in Nat
    BY <1>1, ProbeInOrder
  <2> HIDE DEF p
  <2>3. Doing("softReset") => 2 \in 1 .. Len(todo) /\ todo[2] = "configure"
    BY <2>1, <2>2 DEF p
  <2>4. Doing("softReset") => Ahead("configure") /\ ~Doing("configure")
    BY <1>4, <2>3 DEF Ahead
  <2> QED
    BY <1>5, <2>4
<1>12. ~Doing("softReset")' /\ (Ahead("configure")' => Doing("softReset"))
  <2>1. \A i \in 1 .. Len(todo') : i + 1 \in 2 .. Len(todo) /\ todo'[i] = todo[i + 1]
    BY <1>2, <1>3
  <2>2. \A what : Doing(what)' => Len(todo') > 0 /\ todo'[1] = what
    BY <1>3, FirstOf DEF Doing
  <2>3. Len(todo') > 0 => 1 \in 1 .. Len(todo')
    BY <1>2, <1>3
  <2> QED
    BY <1>9, <2>1, <2>2, <2>3 DEF Ahead
<1> QED
  BY <1>4, <1>5, <1>6, <1>7, <1>8, <1>10, <1>11, <1>12

\* A part that is to be configured is so next, or reset and then configured.
LEMMA ConfigureFirst ==
  ASSUME DriverTypes, LeftToDo, Ahead("configure")
  PROVE  Doing("softReset") \/ Doing("configure")
<1>1. PICK i \in 1 .. Len(todo) : todo[i] = "configure"
  BY DEF Ahead
<1>2. todo \in Seq(Operations) /\ Len(todo) \in Nat
  BY LenProperties DEF DriverTypes
<1>3. CASE i = 1
  BY <1>1, <1>2, <1>3, FirstOf DEF Doing
<1>4. CASE i # 1
  <2>1. i \in 2 .. Len(todo)
    BY <1>2, <1>4
  <2> QED
    BY <1>1, <2>1 DEF LeftToDo
<1> QED
  BY <1>3, <1>4

\* From the configuration on the part stays configured and announces what is new,
\* and nothing new begins before it, whatever the step.
LEMMA BringUpKept ==
  ASSUME PartInv, Next
  PROVE  BringUp'
<1>1. TypeOK /\ DriverTypes /\ LeftToDo /\ Owing /\ BringUp /\ data.id <= taken
  BY DEF PartInv, NumbersGrow
<1>2. /\ probed \in {0, 1} /\ config.automatic \in {0, 1} /\ config.continuous \in {0, 1}
      /\ done \in {0, 1} /\ interrupt \in {0, 1} /\ pending \in {0, 1} /\ triggered \in {0, 1}
      /\ owed \in Nat /\ taken \in Nat /\ old \in Nat /\ data.id \in Nat
      /\ engine \in {"idle", "period", "sense", "latch", "publish"}
  BY <1>1, BoundsAssumption DEF TypeOK, DriverTypes, Owing
<1>3. CASE Fmu
  <2>1. UNCHANGED <<config, todo, old, interrupt, automatic, continuous>>
    BY <1>3 DEF Fmu, BeginStep, ReadPeriod, SenseState, LatchMeasurement, PublishLine, driver, part,
         history
  <2>2. \A what : /\ Ahead(what)' <=> Ahead(what)
                  /\ Doing(what)' <=> Doing(what)
    BY <2>1 DEF Ahead, Doing
  <2>3. BroughtUp' <=> BroughtUp
    BY <2>1 DEF BroughtUp
  <2>4. NothingNew => NothingNew'
    <3>1. CASE BeginStep
      BY <1>1, <1>2, <2>1, <3>1 DEF NothingNew, Owing, BeginStep
    <3>2. CASE ReadPeriod
      BY <1>1, <1>2, <2>1, <3>2 DEF NothingNew, Owing, ReadPeriod, part
    <3>3. CASE SenseState
      BY <1>1, <1>2, <2>1, <3>3 DEF NothingNew, Owing, SenseState, part
    <3>4. CASE LatchMeasurement
      BY <1>1, <1>2, <2>1, <3>4 DEF NothingNew, Owing, LatchMeasurement
    <3>5. CASE PublishLine
      BY <1>1, <1>2, <2>1, <3>5 DEF NothingNew, Owing, PublishLine, part
    <3> QED
      BY <1>3, <3>1, <3>2, <3>3, <3>4, <3>5 DEF Fmu
  <2>5. Announced => Announced'
    BY <1>2, <1>3, <2>1 DEF Announced, Fmu, BeginStep, ReadPeriod, SenseState, LatchMeasurement,
       PublishLine, part
  <2> QED
    BY <1>1, <2>2, <2>3, <2>4, <2>5 DEF BringUp
<1>4. CASE BeginProbe
  BY <1>1, <1>4, KindsOfStep, BeginningsInOrder DEF BringUp
\* What does not configure the part: the flag may be cleared, and triggers and pulses
\* write the persistent bits again.
<1>5. ASSUME UNCHANGED <<config, old, data, engine, line>>, done' = 0 \/ done' = done,
             UNCHANGED <<interrupt, automatic>> \/ PersistentBits,
             ~Ahead("configure"), ~Ahead("configure")'
      PROVE  BringUp'
  <2>1. BroughtUp /\ Announced
    BY <1>1, <1>5 DEF BringUp
  <2>2. BroughtUp'
    BY <1>5, <2>1 DEF BroughtUp, PersistentBits
  <2>3. interrupt' = interrupt
    BY <1>5, <2>1, <2>2 DEF BroughtUp
  <2>4. Announced'
    BY <1>2, <1>5, <2>1, <2>3 DEF Announced
  <2> QED
    BY <1>5, <2>2, <2>4 DEF BringUp
<1>6. CASE BeginReading \/ BeginCalibration
  <2>1. UNCHANGED <<config, old, data, engine, line, done, interrupt, automatic>>
    BY <1>6 DEF BeginReading, BeginCalibration, Keeps, history, part, step
  <2>2. todo = <<>> /\ probed = 1 /\ probed' = 1
    BY <1>6 DEF BeginReading, BeginCalibration
  <2>3. ~Ahead("configure")
    BY <1>1, <2>2 DEF LeftToDo
  <2>4. ~Ahead("configure")'
    BY <1>1, <1>6, <2>1, <2>2, BeginningsInOrder DEF LeftToDo
  <2> QED
    BY <1>5, <2>1, <2>3, <2>4
<1>7. ASSUME todo # <<>>, Advance
      PROVE  /\ Ahead("configure") => Doing("softReset") \/ Doing("configure")
             /\ Doing("softReset") => Ahead("configure")'
             /\ ~Doing("softReset")' /\ (Ahead("configure")' => Doing("softReset"))
  BY <1>1, <1>2, <1>7, AdvanceMoves
<1>8. \A v, w : Doing(v) /\ Doing(w) => v = w
  BY DEF Doing
<1>9. CASE GiveUp \/ (CheckStatus /\ done = 0)
  <2>1. UNCHANGED <<config, old, data, engine, line, done, interrupt, automatic>> /\ todo' = <<>>
    BY <1>9 DEF GiveUp, CheckStatus, Keeps, history, part, step
  <2>2. Doing("await") \/ Doing("check")
    BY <1>9 DEF GiveUp, CheckStatus
  <2>3. ~Ahead("configure")
    BY <1>1, <1>8, <2>2, ConfigureFirst
  <2>4. ~Ahead("configure")'
    BY <2>1, EmptySeq DEF Ahead
  <2> QED
    BY <1>5, <2>1, <2>3, <2>4
<1>10. CASE SoftReset
  <2>1. /\ Doing("softReset") /\ todo # <<>> /\ Advance
        /\ pending' = 0 /\ continuous' = 0 /\ old' = taken + triggered + owed
        /\ UNCHANGED <<taken, triggered, owed>>
    BY <1>10 DEF SoftReset, Doing, step
  <2> QED
    BY <1>2, <1>7, <2>1 DEF BringUp, NothingNew
<1>11. CASE Configure
  <2>1. /\ Doing("configure") /\ todo # <<>> /\ Advance
        /\ PersistentBits /\ UNCHANGED <<config, old, data>>
    BY <1>11 DEF Configure, Doing, Keeps, history
  <2>2. Ahead("configure") /\ ~Doing("softReset")
    BY <1>1, <1>8, <2>1, DoingIsAhead
  <2>3. taken + triggered + owed <= old
    BY <1>1, <2>2 DEF BringUp, NothingNew
  <2>4. ~(data'.id > old')
    BY <1>1, <1>2, <2>1, <2>3
  <2>5. BroughtUp' /\ Announced'
    BY <2>1, <2>4 DEF BroughtUp, Announced, PersistentBits
  <2> QED
    BY <1>7, <2>1, <2>2, <2>5 DEF BringUp
<1>12. CASE \/ Trigger \/ Acknowledge \/ Pulse("set", 1) \/ Pulse("reset", -1)
            \/ SetContinuous("stop", 0) \/ SetContinuous("start", config.continuous)
            \/ AwaitDone \/ KeepAfterSet \/ StoreOffset \/ ClearOffset \/ Burst \/ Deliver
            \/ (CheckStatus /\ done # 0)
  <2>1. /\ todo # <<>> /\ Advance /\ ~Doing("softReset") /\ ~Doing("configure")
    BY <1>12 DEF Trigger, Acknowledge, Pulse, SetContinuous, AwaitDone, KeepAfterSet, StoreOffset,
       ClearOffset, Burst, Deliver, CheckStatus, Doing
  <2>2. UNCHANGED <<config, old, data, engine, line>> /\ (done' = 0 \/ done' = done)
    BY <1>12 DEF Trigger, Acknowledge, Pulse, SetContinuous, AwaitDone, KeepAfterSet, StoreOffset,
       ClearOffset, Burst, Deliver, CheckStatus, Keeps, history, part, step
  <2>3. UNCHANGED <<interrupt, automatic>> \/ PersistentBits
    BY <1>12 DEF Trigger, Acknowledge, Pulse, SetContinuous, AwaitDone, KeepAfterSet, StoreOffset,
       ClearOffset, Burst, Deliver, CheckStatus, part
  <2> QED
    BY <1>5, <1>7, <2>1, <2>2, <2>3
<1>13. CASE Driver
  BY <1>4, <1>6, <1>9, <1>10, <1>11, <1>12, <1>13 DEF Driver, CheckStatus
<1> QED
  BY <1>3, <1>13 DEF Next

(***************************************************************************)
(* Types.                                                                  *)
(***************************************************************************)
\* The values the proofs of the types speak of, apart from what is left to do.
Types ==
  /\ magnet \in {1, -1}
  /\ done \in {0, 1} /\ pending \in {0, 1} /\ continuous \in {0, 1}
  /\ interrupt \in {0, 1} /\ automatic \in {0, 1} /\ line \in {0, 1}
  /\ data \in [value : Readings, id : 0 .. MaxMeasurements] /\ taken \in 0 .. MaxMeasurements
  /\ engine \in {"idle", "period", "sense", "latch", "publish"} /\ owed \in 0 .. PerStep
  /\ sensed \in [magnet : {1, -1}, automatic : {0, 1}]
  /\ config \in [automatic : {0, 1}, continuous : {0, 1}, calibrate : {0, 1},
                 interrupt : {0, 1}, restored : Int]
  /\ probed \in {0, 1} /\ afterSet \in Readings /\ offset \in Int
  /\ old \in Nat /\ mistaken \in {0, 1} /\ failed \in {0, 1} /\ calibrated \in {0, 1}
  /\ counts \in [value : Readings, id : Nat] /\ sample \in [value : Int, id : Nat]
  /\ counts.id \in 0 .. taken /\ sample.id \in 0 .. counts.id

\* A measurement reads one of four values.
LEMMA ReadingIsOne ==
  ASSUME sensed \in [magnet : {1, -1}, automatic : {0, 1}]
  PROVE  Reading \in Readings
<1>1. 1 * Field = Field /\ (-1) * Field + Bridge = Bridge - Field
  BY ValuesAssumption
<1> QED
  BY <1>1 DEF Reading, Readings

\* Readings are integers, and the data register starts as one.
LEMMA ReadingsAreInt == Readings \subseteq Int /\ 0 \in Readings
  BY ValuesAssumption DEF Readings

\* Whatever the step, the part, the FMU and the driver's locals keep their types.
LEMMA TypesKept ==
  ASSUME Types, DriverTypes, Owing, NumbersGrow, Next
  PROVE  Types'
<1> USE BoundsAssumption, ReadingsAreInt
<1>1. CASE BeginStep
  BY <1>1 DEF Types, BeginStep, driver, history
<1>2. CASE ReadPeriod
  BY <1>2 DEF Types, ReadPeriod, Elapsed, ElapsedInWallTime, part, driver, history
<1>3. CASE SenseState
  BY <1>3 DEF Types, SenseState, part, driver, history
<1>4. CASE LatchMeasurement
  <2>1. Reading \in Readings
    BY ReadingIsOne DEF Types
  <2> QED
    BY <1>4, <2>1 DEF Types, Owing, LatchMeasurement, Measurement, driver, history
<1>5. CASE PublishLine
  BY <1>5 DEF Types, PublishLine, part, driver, history
<1>6. probed' \in {0, 1} /\ config' = config
  BY KindsOfStep DEF Types, Advance, BeginProbe, BeginReading, BeginCalibration
<1>7. CASE BeginProbe \/ BeginReading \/ BeginCalibration
  <2>1. UNCHANGED <<part, step, config, probed, offset, afterSet, counts, sample, history>>
    BY <1>7 DEF BeginProbe, BeginReading, BeginCalibration, Keeps, history
  <2> QED
    BY <2>1 DEF Types, part, step, history
<1>8. CASE SoftReset
  <2>1. old' \in Nat
    BY <1>8 DEF Types, Owing, SoftReset
  <2> QED
    BY <1>6, <1>8, <2>1 DEF Types, SoftReset, None, Measurement, step
<1>9. CASE Configure
  BY <1>6, <1>9 DEF Types, Configure, PersistentBits, step, Keeps, history
<1>10. CASE Pulse("set", 1) \/ Pulse("reset", -1)
  BY <1>6, <1>10 DEF Types, Pulse, PersistentBits, step, Keeps, history
<1>11. CASE Trigger
  BY <1>6, <1>11 DEF Types, Trigger, PersistentBits, step, Keeps, history
<1>12. CASE AwaitDone \/ GiveUp
  <2>1. UNCHANGED <<part, step, config, offset, afterSet, counts, sample, old, calibrated>>
    BY <1>12 DEF AwaitDone, GiveUp
  <2>2. mistaken' \in {0, 1} /\ failed' \in {0, 1}
    BY <1>12 DEF Types, AwaitDone, GiveUp
  <2> QED
    BY <1>6, <2>1, <2>2 DEF Types, part, step, history
<1>13. CASE Acknowledge
  BY <1>6, <1>13 DEF Types, Acknowledge, step, Keeps, history
<1>14. CASE SetContinuous("stop", 0) \/ SetContinuous("start", config.continuous)
  BY <1>6, <1>14 DEF Types, SetContinuous, step, Keeps, history
<1>15. CASE KeepAfterSet
  BY <1>6, <1>15 DEF Types, KeepAfterSet, part, step, history
<1>16. CASE StoreOffset
  <2>1. afterSet \in Int /\ data.value \in Int
    BY DEF Types
  <2>2. (afterSet + data.value) \div 2 \in Int
    BY <2>1
  <2> QED
    BY <1>6, <1>16, <2>2 DEF Types, StoreOffset, part, step, history
<1>17. CASE ClearOffset
  BY <1>6, <1>17 DEF Types, ClearOffset, part, step, history
<1>18. CASE CheckStatus
  BY <1>6, <1>18 DEF Types, CheckStatus, part, step, Keeps, history
<1>19. CASE Burst
  <2>1. data.id <= taken /\ data.id > sample.id
    BY <1>19 DEF NumbersGrow, Burst, Fresh
  <2> QED
    BY <1>6, <1>19, <2>1 DEF Types, Burst, part, step, history
<1>20. CASE Deliver
  <2>1. counts.value \in Int /\ offset \in Int /\ counts.id \in Nat
    BY DEF Types
  <2>2. counts.value - offset \in Int
    BY <2>1
  <2> QED
    BY <1>6, <1>20, <2>1, <2>2 DEF Types, Deliver, Measurement, part, step, history
<1> QED
  BY <1>1, <1>2, <1>3, <1>4, <1>5, <1>7, <1>8, <1>9, <1>10, <1>11, <1>12, <1>13, <1>14,
     <1>15, <1>16, <1>17, <1>18, <1>19, <1>20 DEF Next, Fmu, Driver

\* TypeOK and DriverTypes are those types, and what is left of an operation.
LEMMA TypesAre ==
  ASSUME todo \in Seq(Operations)
  PROVE  TypeOK /\ DriverTypes <=> Types /\ Len(todo) <= 17
  BY BoundsAssumption, CalibrateIs DEF TypeOK, DriverTypes, Types

\* No operation is longer than probe() with a calibration.
LEMMA LengthKept ==
  ASSUME PartInv, Next
  PROVE  Len(todo') <= 17
<1>1. TypeOK /\ DriverTypes /\ todo \in Seq(Operations) /\ Len(todo) \in Nat
  BY LenProperties DEF PartInv, DriverTypes
<1>2. config' = config
  BY KindsOfStep
<1>3. Len(todo) <= 17
  BY <1>1, TypesAre
<1>4. CASE UNCHANGED <<todo, probed>>
  BY <1>3, <1>4
<1>5. CASE todo # <<>> /\ Advance
  <2>1. Len(todo') = Len(todo) - 1
    BY <1>1, <1>5, RestOf DEF Advance
  <2> QED
    BY <1>1, <1>3, <2>1
<1>6. CASE todo' = <<>>
  <2>1. Len(todo') = 0
    BY <1>6, EmptySeq
  <2> QED
    BY <2>1
<1>7. CASE BeginProbe \/ BeginReading \/ BeginCalibration
  BY <1>1, <1>2, <1>7, BeginningsInOrder
<1> QED
  BY <1>4, <1>5, <1>6, <1>7, KindsOfStep

\* A part as any driver may have left it satisfies the invariant.
LEMMA PartInit == Init => PartInv
<1> SUFFICES ASSUME Init PROVE PartInv
  OBVIOUS
<1>1. Types
  BY BoundsAssumption, ValuesAssumption, ReadingsAreInt DEF Init, Types, None, Measurement
<1>2. /\ config.automatic \in {0, 1} /\ config.continuous \in {0, 1}
      /\ todo = Probe /\ probed = 0
  BY DEF Init
<1> DEFINE p == Probe
<1>3. /\ p \in Seq(Operations) /\ p # <<>> /\ Head(p) = "softReset"
      /\ Len(p) \in Nat /\ Len(p) <= 17 /\ p[Len(p)] = "start"
      /\ \A i \in 2 .. Len(p) : p[i] # "softReset" /\ (p[i] = "configure" => i = 2)
      /\ 2 \in 1 .. Len(p) /\ p[2] = "configure"
      /\ \A i \in 1 .. Len(p) : p[i] \notin {"check", "burst", "deliver"}
      /\ config.automatic = 1 =>
           /\ \A i \in 1 .. Len(p) :
                p[i] \in {"softReset", "configure", "set", "clearOffset", "start"}
           /\ \A i \in 1 .. Len(p) : p[i] = "start" => i = Len(p)
      /\ \A i \in 1 .. Len(p) - 1 : i \in 1 .. Len(p) /\ i + 1 \in 1 .. Len(p)
      /\ \A i \in 1 .. Len(p) - 2 : i + 2 \in 1 .. Len(p)
      /\ \A i \in 1 .. Len(p) - 1 : p[i + 1] = "acknowledge" => p[i] = "await"
      /\ \A i \in 1 .. Len(p) - 1 : p[i + 1] = "await" => p[i] = "trigger"
  BY <1>2, ProbeInOrder
<1> HIDE DEF p
<1>4. todo = p /\ Probe = p /\ probed = 0
  BY <1>2 DEF p
<1>5. LeftToDo
  <2>1. Doing("softReset") /\ \A what : Doing(what) <=> what = "softReset"
    BY <1>3, <1>4 DEF Doing
  <2>2. ~Ahead("check") /\ ~Ahead("burst") /\ ~Ahead("deliver")
    BY <1>3, <1>4 DEF Ahead
  <2> QED
    BY <1>3, <1>4, <2>1, <2>2 DEF LeftToDo
<1>6. StepsInOrder
  BY <1>3, <1>4 DEF StepsInOrder
<1>7. TypeOK /\ DriverTypes
  BY <1>1, <1>3, <1>4, TypesAre
<1>8. Owing
  BY <1>3, <1>4 DEF Init, Owing, Doing
<1>9. BringUp
  BY <1>2, <1>3, <1>4 DEF BringUp, Ahead, Doing
<1>10. NumbersGrow
  <2>1. \A what \in {"await", "burst", "acknowledge", "deliver"} : ~Doing(what)
    BY <1>3, <1>4 DEF Doing
  <2> QED
    BY <2>1 DEF Init, NumbersGrow, None, Measurement, Fresh
<1> QED
  BY <1>5, <1>6, <1>7, <1>8, <1>9, <1>10 DEF PartInv

\* The invariant holds in every state.
THEOREM PartInvariant == Spec => []PartInv
<1>1. PartInv /\ [Next]_vars => PartInv'
  <2> SUFFICES ASSUME PartInv, [Next]_vars PROVE PartInv'
    OBVIOUS
  <2>1. CASE Next
    <3>1. todo' \in Seq(Operations) /\ LeftToDo' /\ StepsInOrder'
      BY <2>1, OrderKept
    <3>2. Types'
      <4>1. todo \in Seq(Operations) /\ TypeOK /\ DriverTypes
        BY DEF PartInv, DriverTypes
      <4>2. Types
        BY <4>1, TypesAre
      <4> QED
        BY <2>1, <4>1, <4>2, TypesKept DEF PartInv
    <3>3. (TypeOK /\ DriverTypes)'
      <4>1. Len(todo') <= 17
        BY <2>1, LengthKept
      <4> QED
        BY <3>1, <3>2, <4>1, BoundsAssumption, CalibrateIs DEF TypeOK, DriverTypes, Types
    <3> QED
      BY <2>1, <3>1, <3>3, OwingKept, BringUpKept, NumbersKept DEF PartInv
  <2>2. CASE UNCHANGED vars
    <3>1. Probe' = Probe
      BY <2>2 DEF vars, driver, Probe, Calibrate, TriggerAndWait
    <3> QED
      BY <2>2, <3>1 DEF vars, part, step, driver, history, PartInv, TypeOK, DriverTypes, LeftToDo,
           StepsInOrder,
         Owing, BringUp, NumbersGrow, Doing, Ahead, Then, BroughtUp, Announced, NothingNew, Fresh
  <2> QED
    BY <2>1, <2>2
<1> QED
  BY <1>1, PartInit, PTL DEF Spec

\* The registers and locals keep their types, the persistent bits stay as configured and an
\* unread measurement is announced, in every configuration and whatever times out.
THEOREM PartStaysConfiguredAlways == Spec => []PartStaysConfigured
<1>1. PartInv => PartStaysConfigured
  BY DEF PartInv, BringUp, PartStaysConfigured, ConfigurationKept, LineAnnouncesMeasurement,
     BroughtUp, Announced, LeftToDo
<1> QED
  BY <1>1, PartInvariant, PTL

\* No measurement is handed out twice or out of order.
THEOREM EachSampleOnce == Spec => []NeverTheSameTwice
<1>1. PartInv => NeverTheSameTwice
  BY DEF PartInv, NumbersGrow, NeverTheSameTwice
<1> QED
  BY <1>1, PartInvariant, PTL

(***************************************************************************)
(* The polarity, and what is read.                                         *)
(***************************************************************************)
\* A calibration flips the polarity and keeps the measurements in order.
LEMMA CalibrateFlips ==
  /\ FlipsInOrder(Calibrate)
  /\ \A what \in {"reset", "keepSet", "keepReset", "stop"} :
       \E i \in 1 .. Len(Calibrate) : Calibrate[i] = what
  /\ \A i \in 1 .. Len(Calibrate) : Calibrate[i] # "clearOffset"
<1> DEFINE p == Calibrate
<1>1. Len(p) = 13
  BY CalibrateIs
<1>2. /\ p[1] = "stop" /\ p[2] = "set" /\ p[3] = "trigger" /\ p[4] = "await"
      /\ p[5] = "acknowledge" /\ p[6] = "keepSet" /\ p[7] = "reset"
      /\ p[8] = "trigger" /\ p[9] = "await" /\ p[10] = "acknowledge"
      /\ p[11] = "keepReset" /\ p[12] = "set" /\ p[13] = "start"
  BY CalibrateIs
<1> HIDE DEF p
<1>3. \A i \in 1 .. Len(p) :
        /\ p[i] = "stop" <=> i = 1
        /\ p[i] = "set" => i = 2 \/ i = 12
        /\ p[i] = "reset" => i = 7
        /\ p[i] = "keepSet" => i = 6
        /\ p[i] = "keepReset" => i = 11
        /\ p[i] = "start" => i = 13
        /\ p[i] \notin {"check", "burst", "deliver", "clearOffset"}
  BY <1>1, <1>2
<1>4. /\ 1 \in 1 .. Len(p) /\ 6 \in 1 .. Len(p) /\ 7 \in 1 .. Len(p) /\ 11 \in 1 .. Len(p)
      /\ 6 \in 1 + 1 .. Len(p) /\ 7 \in 1 + 1 .. Len(p)
      /\ 6 \in 2 + 1 .. Len(p) /\ 7 \in 2 + 1 .. Len(p) /\ 7 \in 6 + 1 .. Len(p)
      /\ 12 \in 7 + 1 .. Len(p) /\ 12 \in 11 + 1 .. Len(p)
      /\ 13 .. Len(p) = {13}
  BY <1>1
<1>5. /\ Later(p, 1, "reset") /\ Later(p, 1, "keepSet")
      /\ Later(p, 2, "reset") /\ Later(p, 2, "keepSet") /\ Later(p, 6, "reset")
      /\ Later(p, 7, "set") /\ Later(p, 11, "set")
  BY <1>2, <1>4 DEF Later
<1>6. /\ ~Later(p, 12, "set") /\ ~Later(p, 7, "reset") /\ ~Later(p, 11, "reset")
      /\ ~Later(p, 11, "keepSet") /\ ~Later(p, 12, "keepReset")
  <2>1. \A k \in {7, 11, 12} : \A j \in k + 1 .. Len(p) : j \in 1 .. Len(p) /\ j > k
    BY <1>1
  <2> QED
    BY <1>3, <2>1 DEF Later
<1>7. \A i \in 1 .. Len(p) : ~Later(p, i, "stop")
  <2>1. \A i \in 1 .. Len(p) : \A j \in i + 1 .. Len(p) : j \in 1 .. Len(p) /\ j # 1
    BY <1>1
  <2> QED
    BY <1>3, <2>1 DEF Later
<1>8. \A i \in 1 .. Len(p) - 1 :
        /\ p[i + 1] \in {"keepSet", "keepReset"} => p[i] = "acknowledge"
        /\ p[i + 1] = "set" => p[i] \in {"configure", "stop", "keepReset"}
        /\ p[i + 1] = "trigger" => p[i] \in {"set", "reset"}
  BY <1>1, <1>2
<1>9. \A i \in 1 .. Len(p) - 1 :
        /\ p[i] = "trigger" => p[i + 1] = "await"
        /\ p[i] = "await" => p[i + 1] = "acknowledge"
  BY <1>1, <1>2
<1>10. \A i \in 1 .. Len(p) : p[i] = "start" => \A j \in i .. Len(p) : p[j] = "start"
  BY <1>2, <1>3, <1>4
<1>11. FlipsInOrder(p)
  BY <1>3, <1>5, <1>6, <1>7, <1>8, <1>9, <1>10 DEF FlipsInOrder
<1> QED
  BY <1>2, <1>3, <1>4, <1>11 DEF p

\* A reading flips nothing and keeps nothing, and what it waits for it triggers.
LEMMA ReadingFlipsNothing ==
  ASSUME NEW p, p = MeasureOnce \/ p = ReadSample
  PROVE  /\ FlipsInOrder(p)
         /\ \A i \in 1 .. Len(p) :
              p[i] \notin {"set", "reset", "keepSet", "keepReset", "stop", "clearOffset", "start"}
<1>1. CASE p = MeasureOnce
  <2>1. Len(p) = 5
    BY <1>1, MeasureOnceIs
  <2>2. /\ p[1] = "trigger" /\ p[2] = "await" /\ p[3] = "acknowledge" /\ p[4] = "burst"
        /\ p[5] = "deliver"
    BY <1>1, MeasureOnceIs
  <2>3. \A i \in 1 .. Len(p) : p[i] \in {"trigger", "await", "acknowledge", "burst", "deliver"}
    BY <2>1, <2>2
  <2>4. \A i \in 1 .. Len(p) - 1 :
          /\ i \in 1 .. Len(p) /\ i + 1 \in 1 .. Len(p)
          /\ p[i] = "trigger" => p[i + 1] = "await"
          /\ p[i] = "await" => p[i + 1] = "acknowledge"
          /\ p[i + 1] # "trigger"
    BY <2>1, <2>2
  <2>5. \A i \in 1 .. Len(p) : \A j \in i + 1 .. Len(p) : j \in 1 .. Len(p)
    BY <2>1
  <2>6. FlipsInOrder(p)
    BY <2>3, <2>4, <2>5 DEF FlipsInOrder, Later
  <2> QED
    BY <2>3, <2>6
<1>2. CASE p = ReadSample
  <2>1. Len(p) = 4
    BY <1>2, ReadSampleIs
  <2>2. p[1] = "check" /\ p[2] = "burst" /\ p[3] = "acknowledge" /\ p[4] = "deliver"
    BY <1>2, ReadSampleIs
  <2>3. \A i \in 1 .. Len(p) : p[i] \in {"check", "burst", "acknowledge", "deliver"}
    BY <2>1, <2>2
  <2>4. \A i \in 1 .. Len(p) - 1 : i \in 1 .. Len(p) /\ i + 1 \in 1 .. Len(p)
    BY <2>1
  <2>5. \A i \in 1 .. Len(p) : \A j \in i + 1 .. Len(p) : j \in 1 .. Len(p)
    BY <2>1
  <2>6. FlipsInOrder(p)
    BY <2>3, <2>4, <2>5 DEF FlipsInOrder, Later
  <2> QED
    BY <2>3, <2>6
<1> QED
  BY <1>1, <1>2

\* Bringing up a part flips its polarity as its calibration does.
LEMMA ProbeFlips ==
  ASSUME config.automatic \in {0, 1}
  PROVE  /\ FlipsInOrder(Probe)
         /\ config.automatic = 1 =>
              /\ \A i \in 1 .. Len(Probe) : Probe[i] # "keepReset"
              /\ \E i \in 1 .. Len(Probe) : Probe[i] = "clearOffset"
         /\ config.automatic = 0 =>
              /\ \A i \in 1 .. Len(Probe) : Probe[i] # "clearOffset"
              /\ (\E i \in 1 .. Len(Probe) : Probe[i] = "keepReset") =>
                   /\ \E i \in 1 .. Len(Probe) : Probe[i] = "reset"
                   /\ \E i \in 1 .. Len(Probe) : Probe[i] = "keepSet"
<1> DEFINE p == Probe
<1>1. CASE config.automatic = 1
  <2>1. Len(p) = 5
    BY <1>1, ProbeAutomaticIs
  <2>2. /\ p[1] = "softReset" /\ p[2] = "configure" /\ p[3] = "set" /\ p[4] = "clearOffset"
        /\ p[5] = "start"
    BY <1>1, ProbeAutomaticIs
  <2> HIDE DEF p
  <2>3. \A i \in 1 .. Len(p) :
          /\ p[i] = "set" => i = 3
          /\ p[i] = "start" => i = 5
          /\ p[i] \in {"softReset", "configure", "set", "clearOffset", "start"}
    BY <2>1, <2>2
  <2>4. \A i \in 1 .. Len(p) - 1 :
          /\ i \in 1 .. Len(p) /\ i + 1 \in 1 .. Len(p)
          /\ p[i + 1] = "set" => p[i] = "configure"
    BY <2>1, <2>2
  <2>5. ~Later(p, 3, "set") /\ \A i \in 1 .. Len(p) : ~Later(p, i, "stop") /\ ~Later(p, i, "keepReset")
    <3>1. \A j \in 3 + 1 .. Len(p) : j \in 1 .. Len(p) /\ j > 3
      BY <2>1
    <3>2. \A i \in 1 .. Len(p) : \A j \in i + 1 .. Len(p) : j \in 1 .. Len(p)
      BY <2>1
    <3> QED
      BY <2>3, <3>1, <3>2 DEF Later
  <2>6. 5 .. Len(p) = {5} /\ 4 \in 1 .. Len(p)
    BY <2>1
  <2>7. FlipsInOrder(p)
    BY <2>2, <2>3, <2>4, <2>5, <2>6 DEF FlipsInOrder
  <2> QED
    BY <1>1, <2>2, <2>3, <2>6, <2>7 DEF p
<1>2. CASE config.automatic # 1 /\ config.calibrate = 1
  <2>1. Len(p) = 17
    BY <1>2, ProbeManualIs
  <2>2. /\ p[1] = "softReset" /\ p[2] = "configure" /\ p[3] = "set"
        /\ p[4] = "stop" /\ p[5] = "set" /\ p[6] = "trigger" /\ p[7] = "await"
        /\ p[8] = "acknowledge" /\ p[9] = "keepSet" /\ p[10] = "reset"
        /\ p[11] = "trigger" /\ p[12] = "await" /\ p[13] = "acknowledge"
        /\ p[14] = "keepReset" /\ p[15] = "set" /\ p[16] = "start"
        /\ p[17] = "start"
    BY <1>2, ProbeManualIs
  <2> HIDE DEF p
  <2>3. \A i \in 1 .. Len(p) :
          /\ p[i] = "stop" => i = 4
          /\ p[i] = "set" => i = 3 \/ i = 5 \/ i = 15
          /\ p[i] = "reset" => i = 10
          /\ p[i] = "keepSet" => i = 9
          /\ p[i] = "keepReset" => i = 14
          /\ p[i] = "start" => i = 16 \/ i = 17
          /\ p[i] \notin {"check", "burst", "deliver", "clearOffset"}
    BY <2>1, <2>2
  <2>4. /\ 9 \in 1 .. Len(p) /\ 10 \in 1 .. Len(p) /\ 14 \in 1 .. Len(p)
        /\ 10 \in 3 + 1 .. Len(p) /\ 10 \in 5 + 1 .. Len(p) /\ 10 \in 9 + 1 .. Len(p)
        /\ 9 \in 3 + 1 .. Len(p) /\ 9 \in 4 + 1 .. Len(p) /\ 9 \in 5 + 1 .. Len(p)
        /\ 10 \in 4 + 1 .. Len(p)
        /\ 15 \in 10 + 1 .. Len(p) /\ 15 \in 14 + 1 .. Len(p)
        /\ 16 .. Len(p) = {16, 17} /\ 17 .. Len(p) = {17}
    BY <2>1
  <2>5. /\ Later(p, 3, "reset") /\ Later(p, 5, "reset") /\ Later(p, 9, "reset")
        /\ Later(p, 10, "set") /\ Later(p, 14, "set") /\ Later(p, 4, "reset")
        /\ Later(p, 3, "keepSet") /\ Later(p, 4, "keepSet") /\ Later(p, 5, "keepSet")
    BY <2>2, <2>4 DEF Later
  <2>6. /\ ~Later(p, 15, "set") /\ ~Later(p, 10, "reset") /\ ~Later(p, 14, "reset")
        /\ ~Later(p, 14, "keepSet") /\ ~Later(p, 15, "keepReset")
    <3>1. \A k \in {10, 14, 15} : \A j \in k + 1 .. Len(p) : j \in 1 .. Len(p) /\ j > k
      BY <2>1
    <3> QED
      BY <2>3, <3>1 DEF Later
  <2>7. \A i \in 1 .. Len(p) - 1 :
          /\ p[i + 1] \in {"keepSet", "keepReset"} => p[i] = "acknowledge"
          /\ p[i + 1] = "set" => p[i] \in {"configure", "stop", "keepReset"}
          /\ p[i + 1] = "trigger" => p[i] \in {"set", "reset"}
    BY <2>1, <2>2
  <2>8. \A i \in 1 .. Len(p) - 1 :
          /\ p[i] = "trigger" => p[i + 1] = "await"
          /\ p[i] = "await" => p[i + 1] = "acknowledge"
    BY <2>1, <2>2
  <2>9. \A i \in 1 .. Len(p) : p[i] = "start" => \A j \in i .. Len(p) : p[j] = "start"
    BY <2>2, <2>3, <2>4
  <2>10. \A i \in 1 .. Len(p) :
          /\ p[i] = "set" => Later(p, i, "reset") \/ ~Later(p, i, "set")
          /\ p[i] = "reset" => Later(p, i, "set") /\ ~Later(p, i, "reset")
          /\ p[i] = "set" /\ Later(p, i, "keepReset") => Later(p, i, "keepSet")
          /\ p[i] = "stop" => Later(p, i, "reset") /\ Later(p, i, "keepSet")
    BY <2>3, <2>5, <2>6
  <2>11. \A i \in 1 .. Len(p) :
           /\ p[i] = "keepSet" => Later(p, i, "reset")
           /\ p[i] = "keepReset" =>
                Later(p, i, "set") /\ ~Later(p, i, "reset") /\ ~Later(p, i, "keepSet")
    BY <2>3, <2>5, <2>6
  <2>12. \A i \in 1 .. Len(p) :
           p[i] \notin {"softReset", "configure", "set"} => ~Later(p, i, "stop")
    <3>1. \A i \in 1 .. Len(p) : p[i] \notin {"softReset", "configure", "set"} => i > 3
      BY <2>1, <2>2
    <3>2. \A i \in 1 .. Len(p) : i > 3 => \A j \in i + 1 .. Len(p) : j \in 1 .. Len(p) /\ j # 4
      BY <2>1
    <3> QED
      BY <2>3, <3>1, <3>2 DEF Later
  <2>13. FlipsInOrder(p)
    BY <2>3, <2>7, <2>8, <2>9, <2>10, <2>11, <2>12 DEF FlipsInOrder
  <2> QED
    BY <1>2, <2>2, <2>3, <2>4, <2>13 DEF p
<1>3. CASE config.automatic # 1 /\ config.calibrate # 1
  <2>1. Len(p) = 4
    BY <1>3, ProbeUncalibratedIs
  <2>2. p[1] = "softReset" /\ p[2] = "configure" /\ p[3] = "set" /\ p[4] = "start"
    BY <1>3, ProbeUncalibratedIs
  <2> HIDE DEF p
  <2>3. \A i \in 1 .. Len(p) :
          /\ p[i] = "set" => i = 3
          /\ p[i] = "start" => i = 4
          /\ p[i] \in {"softReset", "configure", "set", "start"}
    BY <2>1, <2>2
  <2>4. \A i \in 1 .. Len(p) - 1 :
          /\ i \in 1 .. Len(p) /\ i + 1 \in 1 .. Len(p)
          /\ p[i + 1] = "set" => p[i] = "configure"
    BY <2>1, <2>2
  <2>5. ~Later(p, 3, "set") /\ \A i \in 1 .. Len(p) : ~Later(p, i, "stop") /\ ~Later(p, i, "keepReset")
    <3>1. \A j \in 3 + 1 .. Len(p) : j \in 1 .. Len(p) /\ j > 3
      BY <2>1
    <3>2. \A i \in 1 .. Len(p) : \A j \in i + 1 .. Len(p) : j \in 1 .. Len(p)
      BY <2>1
    <3> QED
      BY <2>3, <3>1, <3>2 DEF Later
  <2>6. 4 .. Len(p) = {4}
    BY <2>1
  <2>7. FlipsInOrder(p)
    BY <2>2, <2>3, <2>4, <2>5, <2>6 DEF FlipsInOrder
  <2> QED
    BY <1>3, <2>3, <2>7 DEF p
<1> QED
  BY <1>1, <1>2, <1>3

\* What is left of a sequence that flips in order flips in order.
LEMMA TailFlips ==
  ASSUME NEW s \in Seq(Operations), s # <<>>, FlipsInOrder(s)
  PROVE  FlipsInOrder(Tail(s))
<1> DEFINE t == Tail(s)
<1>1. Len(s) \in Nat /\ Len(s) > 0
  BY FirstOf
<1>2. Len(t) = Len(s) - 1 /\ \A i \in 1 .. Len(s) - 1 : t[i] = s[i + 1]
  BY RestOf
<1> HIDE DEF t
<1>3. ASSUME NEW i \in 1 .. Len(t), NEW what
      PROVE  Later(t, i, what) <=> Later(s, i + 1, what)
  <2>1. ASSUME NEW j \in i + 1 .. Len(t)
        PROVE  j + 1 \in (i + 1) + 1 .. Len(s) /\ t[j] = s[j + 1]
    BY <1>1, <1>2, <1>3
  <2>2. ASSUME NEW j \in (i + 1) + 1 .. Len(s)
        PROVE  j - 1 \in i + 1 .. Len(t) /\ t[j - 1] = s[j]
    <3> DEFINE k == j - 1
    <3>1. k \in i + 1 .. Len(t) /\ k \in 1 .. Len(s) - 1 /\ k + 1 = j
      BY <1>1, <1>2
    <3> HIDE DEF k
    <3>2. t[k] = s[j]
      BY <1>2, <3>1
    <3> QED
      BY <3>1, <3>2 DEF k
  <2> QED
    BY <2>1, <2>2 DEF Later
<1>4. ASSUME NEW i \in 1 .. Len(t)
      PROVE  /\ t[i] = "set" => Later(t, i, "reset") \/ ~Later(t, i, "set")
             /\ t[i] = "reset" => Later(t, i, "set") /\ ~Later(t, i, "reset")
             /\ t[i] = "keepSet" => Later(t, i, "reset")
             /\ t[i] = "keepReset" =>
                  Later(t, i, "set") /\ ~Later(t, i, "reset") /\ ~Later(t, i, "keepSet")
             /\ t[i] \in {"check", "burst", "deliver"} => ~Later(t, i, "set")
             /\ t[i] = "start" => \A j \in i .. Len(t) : t[j] = "start"
             /\ t[i] = "stop" => Later(t, i, "reset") /\ Later(t, i, "keepSet")
             /\ t[i] \notin {"softReset", "configure", "set"} => ~Later(t, i, "stop")
             /\ t[i] = "set" /\ Later(t, i, "keepReset") => Later(t, i, "keepSet")
  <2> DEFINE k == i + 1
  <2>1. k \in 1 .. Len(s) /\ t[i] = s[k]
    BY <1>1, <1>2
  <2>2. \A what : Later(t, i, what) <=> Later(s, k, what)
    BY <1>3
  <2>3. \A j \in i .. Len(t) : j + 1 \in k .. Len(s) /\ t[j] = s[j + 1]
    BY <1>1, <1>2
  <2> HIDE DEF k
  <2> QED
    BY <2>1, <2>2, <2>3 DEF FlipsInOrder
<1>5. ASSUME NEW i \in 1 .. Len(t) - 1
      PROVE  /\ t[i + 1] \in {"keepSet", "keepReset"} => t[i] = "acknowledge"
             /\ t[i + 1] = "set" => t[i] \in {"configure", "stop", "keepReset"}
             /\ t[i + 1] = "trigger" => t[i] \in {"set", "reset"}
             /\ t[i] = "trigger" => t[i + 1] = "await"
             /\ t[i] = "await" => t[i + 1] = "acknowledge"
  <2> DEFINE k == i + 1
  <2>1. k \in 1 .. Len(s) - 1 /\ t[i] = s[k] /\ t[i + 1] = s[k + 1]
    BY <1>1, <1>2
  <2> HIDE DEF k
  <2> QED
    BY <2>1 DEF FlipsInOrder
<1>6. FlipsInOrder(t)
  BY <1>4, <1>5 DEF FlipsInOrder
<1> QED
  BY <1>6 DEF t

\* What stands before what: each measurement is kept before the polarity flips, each
\* flip but a calibration's first SET follows one, and nothing is read before a SET.
LEMMA FlipsAhead ==
  ASSUME DriverTypes, LeftToDo, FlipsInOrder(todo)
  PROVE  /\ Ahead("keepSet") => Ahead("reset")
         /\ Ahead("keepReset") => Ahead("set")
         /\ Ahead("set") /\ ~Doing("set") /\ ~Ahead("configure") =>
              Ahead("stop") \/ Ahead("keepReset")
         /\ \A what : Doing(what) /\ what \notin {"softReset", "configure", "set", "stop"} =>
                        ~Ahead("stop")
         /\ Doing("check") \/ Doing("burst") \/ Doing("deliver") =>
              ~Ahead("set") /\ ~Ahead("keepReset")
         /\ Doing("await") /\ Ahead("set") => Ahead("keepReset")
         /\ Doing("reset") => Ahead("keepReset") /\ ~Ahead("keepSet")
<1>1. todo \in Seq(Operations)
  BY DEF DriverTypes
<1>2. Len(todo) \in Nat
  BY <1>1, LenProperties
<1>3. \A what : Doing(what) <=> Len(todo) > 0 /\ todo[1] = what
  BY <1>1, FirstOf DEF Doing
<1>4. ASSUME NEW i \in 1 .. Len(todo), NEW what, Later(todo, i, what)
      PROVE  Ahead(what) /\ \E j \in 1 .. Len(todo) : todo[j] = what /\ j > i
  <2>1. PICK j \in i + 1 .. Len(todo) : todo[j] = what
    BY <1>4 DEF Later
  <2>2. j \in 1 .. Len(todo) /\ j > i
    BY <1>2
  <2> QED
    BY <2>1, <2>2 DEF Ahead
<1>5. ASSUME NEW what, Ahead(what), ~Doing(what)
      PROVE  \E i \in 1 .. Len(todo) - 1 : todo[i + 1] = what
  <2>1. PICK j \in 1 .. Len(todo) : todo[j] = what
    BY <1>5 DEF Ahead
  <2>2. j # 1
    BY <1>2, <1>3, <1>5, <2>1
  <2> DEFINE k == j - 1
  <2>3. k \in 1 .. Len(todo) - 1 /\ j = k + 1
    BY <1>2, <2>2
  <2> HIDE DEF k
  <2> QED
    BY <2>1, <2>3
<1>6. \A i \in 1 .. Len(todo) - 1 : i \in 1 .. Len(todo)
  BY <1>2
<1>7. Ahead("keepSet") => Ahead("reset")
  BY <1>4 DEF Ahead, FlipsInOrder
<1>8. Ahead("keepReset") => Ahead("set")
  BY <1>4 DEF Ahead, FlipsInOrder
<1>9. Ahead("set") /\ ~Doing("set") /\ ~Ahead("configure") =>
        Ahead("stop") \/ Ahead("keepReset")
  <2> SUFFICES ASSUME Ahead("set"), ~Doing("set"), ~Ahead("configure")
               PROVE  Ahead("stop") \/ Ahead("keepReset")
    OBVIOUS
  <2>1. PICK i \in 1 .. Len(todo) - 1 : todo[i + 1] = "set"
    BY <1>5
  <2>2. todo[i] \in {"configure", "stop", "keepReset"}
    BY <2>1 DEF FlipsInOrder
  <2> QED
    BY <1>6, <2>2 DEF Ahead
<1>10. Len(todo) > 0 => 1 \in 1 .. Len(todo)
  BY <1>2
<1>11. ASSUME NEW what, Len(todo) > 0, todo[1] # what, Ahead(what)
       PROVE  Later(todo, 1, what)
  <2>1. PICK j \in 1 .. Len(todo) : todo[j] = what
    BY <1>11 DEF Ahead
  <2>2. j # 1
    BY <1>11, <2>1
  <2>3. j \in 1 + 1 .. Len(todo)
    BY <1>2, <2>2
  <2> QED
    BY <2>1, <2>3 DEF Later
<1>12. ASSUME NEW what, Doing(what), what \notin {"softReset", "configure", "set", "stop"}
       PROVE  ~Ahead("stop")
  <2>1. todo[1] = what /\ Len(todo) > 0
    BY <1>3, <1>12
  <2>2. ~Later(todo, 1, "stop")
    BY <1>10, <1>12, <2>1 DEF FlipsInOrder
  <2> QED
    BY <1>11, <1>12, <2>1, <2>2
<1>13. Doing("check") \/ Doing("burst") \/ Doing("deliver") => ~Ahead("set")
  <2>1. Doing("check") \/ Doing("burst") \/ Doing("deliver") =>
          Len(todo) > 0 /\ todo[1] \in {"check", "burst", "deliver"}
    BY <1>3
  <2>2. Len(todo) > 0 /\ todo[1] \in {"check", "burst", "deliver"} => ~Later(todo, 1, "set")
    BY <1>10 DEF FlipsInOrder
  <2>3. todo[1] \in {"check", "burst", "deliver"} => todo[1] # "set"
    OBVIOUS
  <2> QED
    BY <1>11, <2>1, <2>2, <2>3
<1>14. Doing("await") \/ Doing("reset") =>
         ~Ahead("configure") /\ ~Ahead("stop") /\ ~Doing("set")
  <2>1. Doing("await") \/ Doing("reset") =>
          ~Doing("set") /\ ~Doing("softReset") /\ ~Doing("configure")
    BY DEF Doing
  <2> QED
    BY <1>12, <2>1, ConfigureFirst
<1>15. Doing("reset") => Ahead("set") /\ ~Ahead("keepSet")
  <2> SUFFICES ASSUME Doing("reset") PROVE Ahead("set") /\ ~Ahead("keepSet")
    OBVIOUS
  <2>1. todo[1] = "reset" /\ Len(todo) > 0 /\ 1 \in 1 .. Len(todo)
    BY <1>3, <1>10
  <2>2. Later(todo, 1, "set") /\ ~Later(todo, 1, "reset")
    BY <2>1 DEF FlipsInOrder
  <2>3. Ahead("set")
    BY <1>4, <2>1, <2>2
  <2>4. ASSUME Ahead("keepSet") PROVE FALSE
    <3>1. PICK i \in 1 .. Len(todo) : todo[i] = "keepSet"
      BY <2>4 DEF Ahead
    <3>2. Later(todo, i, "reset")
      BY <3>1 DEF FlipsInOrder
    <3>3. PICK j \in 1 .. Len(todo) : todo[j] = "reset" /\ j > i
      BY <1>4, <3>2
    <3>4. j \in 1 + 1 .. Len(todo)
      BY <1>2, <3>3
    <3> QED
      BY <2>2, <3>3, <3>4 DEF Later
  <2> QED
    BY <2>3, <2>4
<1> QED
  BY <1>7, <1>8, <1>9, <1>12, <1>13, <1>14, <1>15

\* What the first transaction's end leaves ahead, and what it says of the next.
LEMMA FirstFlip ==
  ASSUME DriverTypes, LeftToDo, StepsInOrder, FlipsInOrder(todo), todo # <<>>, Advance
  PROVE  /\ \A what : Ahead(what) <=> Doing(what) \/ Ahead(what)'
         /\ Doing("set") => Ahead("reset")' \/ ~Ahead("set")'
         /\ Doing("reset") => Ahead("set")' /\ ~Ahead("reset")'
         /\ Doing("keepSet") => Ahead("reset")'
         /\ Doing("keepReset") => Ahead("set")' /\ ~Ahead("reset")' /\ ~Ahead("keepSet")'
         /\ Doing("check") \/ Doing("burst") \/ Doing("deliver") => ~Ahead("set")'
         /\ Doing("start") => \A what : Ahead(what)' => what = "start"
         /\ Doing("trigger") => Doing("await")'
         /\ Doing("await") => Doing("acknowledge")' /\ ~Then("deliver")'
         /\ Doing("keepSet")' \/ Doing("keepReset")' => Doing("acknowledge")
         /\ Doing("acknowledge")' => Doing("await") \/ Doing("burst")
         /\ Doing("burst")' => Doing("check") \/ Doing("acknowledge")
         /\ Doing("deliver")' => (Doing("acknowledge") /\ Then("deliver")) \/ Doing("burst")
         /\ Doing("await")' => Doing("trigger")
         /\ Doing("set") /\ Ahead("keepReset")' => Ahead("keepSet")'
         /\ Doing("stop") => Ahead("reset")' /\ Ahead("keepSet")'
         /\ Doing("set")' => Doing("configure") \/ Doing("stop") \/ Doing("keepReset")
         /\ Doing("trigger")' => Doing("set") \/ Doing("reset")
         /\ Ahead("keepSet")' => Ahead("reset")'
<1>1. todo \in Seq(Operations) /\ config.continuous \in {0, 1}
  BY DEF DriverTypes
<1>2. Len(todo) \in Nat /\ Len(todo) > 0
  BY <1>1, FirstOf
<1>3. /\ todo' \in Seq(Operations) /\ Len(todo') = Len(todo) - 1
      /\ \A i \in 1 .. Len(todo) - 1 : todo'[i] = todo[i + 1]
  BY <1>1, RestOf DEF Advance
<1>4. \A what : Doing(what) <=> todo[1] = what
  BY <1>1, <1>2, FirstOf DEF Doing
<1>5. \A what : Doing(what)' <=> Len(todo) > 1 /\ todo[2] = what
  <2>1. \A what : Doing(what)' <=> Len(todo') > 0 /\ todo'[1] = what
    BY <1>3, FirstOf DEF Doing
  <2>2. Len(todo') > 0 <=> Len(todo) > 1
    BY <1>2, <1>3
  <2>3. Len(todo) > 1 => todo'[1] = todo[2]
    BY <1>2, <1>3
  <2> QED
    BY <2>1, <2>2, <2>3
<1>6. ASSUME NEW what
      PROVE  Ahead(what)' <=> Later(todo, 1, what)
  <2>1. ASSUME NEW i \in 1 .. Len(todo')
        PROVE  i + 1 \in 1 + 1 .. Len(todo) /\ todo'[i] = todo[i + 1]
    BY <1>2, <1>3
  <2>2. ASSUME NEW j \in 1 + 1 .. Len(todo)
        PROVE  \E i \in 1 .. Len(todo') : todo'[i] = todo[j]
    <3> DEFINE k == j - 1
    <3>1. k \in 1 .. Len(todo) - 1 /\ k \in 1 .. Len(todo') /\ k + 1 = j
      BY <1>2, <1>3
    <3> HIDE DEF k
    <3>2. todo'[k] = todo[j]
      BY <1>3, <3>1
    <3> QED
      BY <3>1, <3>2
  <2> QED
    BY <2>1, <2>2 DEF Ahead, Later
<1>7. ASSUME NEW what
      PROVE  Ahead(what) <=> todo[1] = what \/ Later(todo, 1, what)
  <2>1. 1 \in 1 .. Len(todo) /\ \A j \in 1 + 1 .. Len(todo) : j \in 1 .. Len(todo)
    BY <1>2
  <2>2. \A i \in 1 .. Len(todo) : i = 1 \/ i \in 1 + 1 .. Len(todo)
    BY <1>2
  <2> QED
    BY <2>1, <2>2 DEF Ahead, Later
<1>8. /\ todo[1] = "set" => Later(todo, 1, "reset") \/ ~Later(todo, 1, "set")
      /\ todo[1] = "reset" => Later(todo, 1, "set") /\ ~Later(todo, 1, "reset")
      /\ todo[1] = "keepSet" => Later(todo, 1, "reset")
      /\ todo[1] = "keepReset" =>
           Later(todo, 1, "set") /\ ~Later(todo, 1, "reset") /\ ~Later(todo, 1, "keepSet")
      /\ todo[1] \in {"check", "burst", "deliver"} => ~Later(todo, 1, "set")
      /\ todo[1] = "start" => \A j \in 1 .. Len(todo) : todo[j] = "start"
      /\ todo[1] = "set" /\ Later(todo, 1, "keepReset") => Later(todo, 1, "keepSet")
      /\ todo[1] = "stop" => Later(todo, 1, "reset") /\ Later(todo, 1, "keepSet")
  <2>1. 1 \in 1 .. Len(todo)
    BY <1>2
  <2> QED
    BY <2>1 DEF FlipsInOrder
<1>9. todo[1] = "start" => \A what : Later(todo, 1, what) => what = "start"
  <2>1. \A j \in 1 + 1 .. Len(todo) : j \in 1 .. Len(todo)
    BY <1>2
  <2> QED
    BY <1>8, <2>1 DEF Later
<1>10. Len(todo) > 1 =>
         /\ todo[2] \in {"keepSet", "keepReset"} => todo[1] = "acknowledge"
         /\ todo[1] = "trigger" => todo[2] = "await"
         /\ todo[1] = "await" => todo[2] = "acknowledge"
         /\ todo[2] = "set" => todo[1] \in {"configure", "stop", "keepReset"}
         /\ todo[2] = "trigger" => todo[1] \in {"set", "reset"}
         /\ todo[2] = "acknowledge" => todo[1] \in {"await", "burst"}
         /\ todo[2] = "await" => todo[1] = "trigger"
  <2>1. Len(todo) > 1 => 1 \in 1 .. Len(todo) - 1 /\ 1 + 1 = 2
    BY <1>2
  <2> QED
    BY <2>1 DEF FlipsInOrder, StepsInOrder
<1>11. todo[1] \in {"trigger", "await"} => Len(todo) > 1
  <2>1. todo[Len(todo)] \in {"start", "deliver"}
    BY DEF LeftToDo
  <2> QED
    BY <1>2, <2>1
<1>12. ASSUME todo[1] = "await", Then("deliver")'
       PROVE  FALSE
  <2>1. Len(todo') > 1 /\ todo'[2] = "deliver"
    BY <1>12 DEF Then
  <2>2. Len(todo) > 2 /\ todo[3] = "deliver"
    BY <1>2, <1>3, <2>1
  <2>3. 1 \in 1 .. Len(todo) - 2 /\ 1 + 2 = 3
    BY <1>2, <2>2
  <2> QED
    BY <1>12, <2>2, <2>3 DEF StepsInOrder
<1>13. /\ Doing("deliver")' => (Doing("acknowledge") /\ Then("deliver")) \/ Doing("burst")
       /\ Doing("burst")' => Doing("check") \/ Doing("acknowledge")
  BY <1>1, NextInLine
<1>14. ASSUME Later(todo, 1, "keepSet") PROVE Later(todo, 1, "reset")
  <2>1. PICK i \in 1 + 1 .. Len(todo) : todo[i] = "keepSet"
    BY <1>14 DEF Later
  <2>2. i \in 1 .. Len(todo)
    BY <1>2
  <2>3. Later(todo, i, "reset")
    BY <2>1, <2>2 DEF FlipsInOrder
  <2>4. PICK j \in i + 1 .. Len(todo) : todo[j] = "reset"
    BY <2>3 DEF Later
  <2>5. j \in 1 + 1 .. Len(todo)
    BY <1>2
  <2> QED
    BY <2>4, <2>5 DEF Later
<1> HIDE DEF Then
<1> QED
  BY <1>4, <1>5, <1>6, <1>7, <1>8, <1>9, <1>10, <1>11, <1>12, <1>13, <1>14

\* Nothing that reads is done before a SET.
LEMMA ReadsWhenSet ==
  ASSUME DriverTypes, FlipsInOrder(todo), Doing("check") \/ Doing("burst") \/ Doing("deliver")
  PROVE  ~Ahead("set")
<1>1. todo \in Seq(Operations)
  BY DEF DriverTypes
<1>2. Len(todo) \in Nat /\ Len(todo) > 0
  BY <1>1, FirstOf DEF Doing
<1>3. todo[1] \in {"check", "burst", "deliver"}
  BY <1>1, FirstOf DEF Doing
<1>4. 1 \in 1 .. Len(todo) /\ \A i \in 1 .. Len(todo) : i = 1 \/ i \in 1 + 1 .. Len(todo)
  BY <1>2
<1> QED
  BY <1>3, <1>4 DEF FlipsInOrder, Ahead, Later

\* The order of the pulses is kept, whatever the step.
LEMMA PulsesKept ==
  ASSUME PartInv, PulsesInOrder, Next
  PROVE  PulsesInOrder'
<1>1. DriverTypes /\ LeftToDo /\ StepsInOrder /\ FlipsInOrder(todo) /\ todo \in Seq(Operations)
  BY DEF PartInv, PulsesInOrder, DriverTypes
<1>2. config.automatic \in {0, 1} /\ config' = config
  BY <1>1, KindsOfStep DEF DriverTypes
<1>3. CASE UNCHANGED <<todo, probed>>
  BY <1>2, <1>3 DEF PulsesInOrder, FlipsInOrder, Later, Ahead
<1>4. CASE todo # <<>> /\ Advance
  <2>1. \A what : Ahead(what)' => Ahead(what)
    BY <1>1, <1>4, FirstFlip
  <2>2. FlipsInOrder(Tail(todo))
    BY <1>1, <1>4, TailFlips
  <2>3. FlipsInOrder(todo)'
    BY <1>4, <2>2 DEF Advance, FlipsInOrder, Later
  <2> QED
    BY <1>2, <2>1, <2>3 DEF PulsesInOrder
<1>5. CASE todo' = <<>>
  <2>1. Len(todo') = 0 /\ 1 .. Len(todo') = {} /\ 1 .. Len(todo') - 1 = {}
    BY <1>5, EmptySeq
  <2> QED
    BY <2>1 DEF PulsesInOrder, FlipsInOrder, Ahead
<1>6. ASSUME NEW p, todo' = p, FlipsInOrder(p),
             config.automatic = 1 => \A i \in 1 .. Len(p) : p[i] # "keepReset",
             config.automatic = 0 => \A i \in 1 .. Len(p) : p[i] # "clearOffset"
      PROVE  PulsesInOrder'
  <2>1. FlipsInOrder(todo)'
    BY <1>6 DEF FlipsInOrder, Later
  <2>2. \A what : Ahead(what)' => \E i \in 1 .. Len(p) : p[i] = what
    BY <1>6 DEF Ahead
  <2> QED
    BY <1>2, <1>6, <2>1, <2>2 DEF PulsesInOrder
<1>7. CASE BeginProbe
  <2>1. todo' = Probe
    BY <1>7 DEF BeginProbe
  <2> QED
    BY <1>2, <1>6, <2>1, ProbeFlips
<1>8. CASE BeginReading
  <2>1. todo' = ReadSample \/ todo' = MeasureOnce
    BY <1>8 DEF BeginReading
  <2> QED
    BY <1>6, <2>1, ReadingFlipsNothing
<1>9. CASE BeginCalibration
  <2>1. todo' = Calibrate /\ config.automatic = 0
    BY <1>9 DEF BeginCalibration
  <2> QED
    BY <1>6, <2>1, CalibrateFlips
<1> QED
  BY <1>3, <1>4, <1>5, <1>7, <1>8, <1>9, KindsOfStep

\* Under automatic set/reset whatever is new and read is the field, and stays it.
LEMMA AutomaticReadsKept ==
  ASSUME PartInv, PulsesInOrder, AutomaticReads, Next, config.automatic = 1
  PROVE  AutomaticReads'
<1>1. /\ TypeOK /\ DriverTypes /\ LeftToDo /\ BringUp /\ Owing
      /\ data.id <= taken
  BY DEF PartInv, NumbersGrow
<1>2. /\ offset = 0 \/ (probed = 0 /\ Ahead("clearOffset"))
      /\ Doing("softReset") \/
           /\ engine = "latch" /\ taken >= old => sensed.automatic = 1
           /\ data.id > old => data.value = Field
           /\ counts.id > old => counts.value = Field
  BY DEF AutomaticReads
<1>3. /\ probed \in {0, 1} /\ old \in Nat /\ taken \in Nat /\ owed \in Nat
      /\ triggered \in {0, 1} /\ counts.id \in Nat /\ counts.id <= taken /\ data.id \in Nat
      /\ engine \in {"idle", "period", "sense", "latch", "publish"}
  BY <1>1, BoundsAssumption DEF TypeOK, DriverTypes, Owing
<1>4. config' = config
  BY KindsOfStep
<1>5. CASE Fmu
  <2>1. UNCHANGED <<config, todo, probed, offset, counts, old, automatic>>
    BY <1>5 DEF Fmu, BeginStep, ReadPeriod, SenseState, LatchMeasurement, PublishLine, driver,
         history, part
  <2>2. (Ahead("clearOffset")' <=> Ahead("clearOffset"))
        /\ (Doing("softReset")' <=> Doing("softReset"))
    BY <2>1 DEF Ahead, Doing
  <2>3. CASE Doing("softReset")
    BY <1>2, <1>4, <2>1, <2>2, <2>3 DEF AutomaticReads
  <2>4. CASE ~Doing("softReset") /\ (BeginStep \/ ReadPeriod \/ PublishLine)
    <3>1. engine' # "latch" /\ data' = data
      BY <2>4 DEF BeginStep, ReadPeriod, PublishLine, part
    <3> QED
      BY <1>2, <2>1, <2>2, <2>4, <3>1 DEF AutomaticReads
  <2>5. CASE ~Doing("softReset") /\ SenseState
    <3>1. data' = data /\ taken' = taken /\ sensed'.automatic = automatic
      BY <2>5 DEF SenseState, part
    <3>2. taken >= old => ~NothingNew
      BY <1>1, <1>3, <2>5 DEF SenseState, Owing, NothingNew
    <3>3. taken >= old => automatic = 1
      BY <1>1, <2>5, <3>2 DEF BringUp, BroughtUp
    <3> QED
      BY <1>2, <2>1, <2>2, <2>5, <3>1, <3>3 DEF AutomaticReads
  <2>6. CASE ~Doing("softReset") /\ LatchMeasurement
    <3>1. engine = "latch" /\ engine' # "latch" /\ data'.id = taken + 1 /\ data'.value = Reading
      BY <2>6 DEF LatchMeasurement, Measurement
    <3>2. data'.id > old => taken >= old
      BY <1>3, <3>1
    <3>3. data'.id > old => data'.value = Field
      BY <1>2, <2>6, <3>1, <3>2 DEF Reading
    <3> QED
      BY <1>2, <2>1, <2>2, <2>6, <3>1, <3>3 DEF AutomaticReads
  <2> QED
    BY <1>5, <2>3, <2>4, <2>5, <2>6 DEF Fmu
<1>6. \A what : Doing(what) => Ahead(what)
  BY <1>1, DoingIsAhead
<1>7. \A v, w : Doing(v) /\ Doing(w) => v = w
  BY DEF Doing
\* What the driver keeps of the offset when it does not write it.
<1>8. ASSUME todo # <<>>, Advance, ~Doing("clearOffset"), offset' = offset
      PROVE  offset' = 0 \/ (probed' = 0 /\ Ahead("clearOffset")')
  <2>1. /\ Ahead("clearOffset") => Ahead("clearOffset")'
        /\ probed' # probed => \A what : Ahead(what) => what = "start"
    BY <1>1, <1>3, <1>8, AdvanceMoves
  <2>2. Ahead("clearOffset") => probed' = probed
    BY <2>1
  <2> QED
    BY <1>2, <1>8, <2>1, <2>2
<1>9. CASE BeginProbe \/ BeginReading \/ BeginCalibration
  <2>1. /\ todo = <<>> /\ UNCHANGED <<config, probed, offset, counts, old>>
        /\ UNCHANGED <<engine, sensed, taken, data>>
    BY <1>9 DEF BeginProbe, BeginReading, BeginCalibration, Keeps, history, part, step
  <2>2. ~Ahead("clearOffset") /\ ~Doing("softReset")
    BY <2>1, EmptySeq DEF Ahead, Doing
  <2> QED
    BY <1>2, <2>1, <2>2 DEF AutomaticReads
<1>10. CASE GiveUp \/ (CheckStatus /\ done = 0)
  <2>1. UNCHANGED <<config, probed, offset, counts, old, engine, sensed, taken, data>>
    BY <1>10 DEF GiveUp, CheckStatus, Keeps, history, part, step
  <2>2. Doing("await") \/ Doing("check")
    BY <1>10 DEF GiveUp, CheckStatus
  <2>3. ~Doing("softReset")
    BY <1>7, <2>2
  <2>4. offset = 0
    <3>1. \A what : Ahead(what) => \E i \in 1 .. Len(todo) : todo[i] = what
      BY DEF Ahead
    <3>2. probed = 0 => \A what : Doing(what) =>
            what \in {"softReset", "configure", "set", "clearOffset", "start"}
      BY <1>1, <1>6, <3>1 DEF LeftToDo
    <3>3. probed = 1
      BY <1>3, <2>2, <3>2
    <3> QED
      BY <1>2, <3>3
  <2> QED
    BY <1>2, <2>1, <2>3, <2>4 DEF AutomaticReads
<1>11. CASE \/ Configure \/ Trigger \/ Acknowledge
            \/ Pulse("set", 1) \/ Pulse("reset", -1)
            \/ SetContinuous("stop", 0) \/ SetContinuous("start", config.continuous)
            \/ AwaitDone \/ KeepAfterSet \/ Deliver \/ (CheckStatus /\ done # 0)
  <2>1. /\ todo # <<>> /\ Advance
        /\ UNCHANGED <<offset, counts, old, engine, sensed, taken, data>>
    BY <1>11 DEF Configure, Trigger, Acknowledge, Pulse, SetContinuous, AwaitDone, KeepAfterSet,
       Deliver, CheckStatus, Doing, part, step, Keeps, history
  <2>2. ~Doing("clearOffset") /\ ~Doing("softReset")
    BY <1>11 DEF Configure, Trigger, Acknowledge, Pulse, SetContinuous, AwaitDone, KeepAfterSet,
       Deliver, CheckStatus, Doing
  <2> QED
    BY <1>2, <1>4, <1>8, <2>1, <2>2 DEF AutomaticReads
<1>12. CASE SoftReset
  <2>1. /\ todo # <<>> /\ Advance /\ UNCHANGED <<offset, counts, engine, sensed, taken>>
        /\ data'.id = 0 /\ old' = taken + triggered + owed
    BY <1>12 DEF SoftReset, Doing, None, Measurement, step
  <2>2. ~Doing("clearOffset")
    BY <1>12 DEF SoftReset, Doing
  <2>3. ~(engine = "latch" /\ taken >= old') /\ ~(data'.id > old') /\ ~(counts.id > old')
    BY <1>1, <1>3, <2>1 DEF Owing
  <2> QED
    BY <1>4, <1>8, <2>1, <2>2, <2>3 DEF AutomaticReads
<1>13. ~StoreOffset
  BY <1>6 DEF StoreOffset, PulsesInOrder
<1>14. CASE ClearOffset
  <2>1. offset' = 0 /\ UNCHANGED <<counts, old, engine, sensed, taken, data>> /\ ~Doing("softReset")
    BY <1>14 DEF ClearOffset, Doing, history, part, step
  <2> QED
    BY <1>2, <1>4, <2>1 DEF AutomaticReads
<1>15. CASE Burst
  <2>1. /\ Doing("burst") /\ todo # <<>> /\ Advance
        /\ counts' = data /\ UNCHANGED <<offset, old, engine, sensed, taken, data>>
    BY <1>15 DEF Burst, Doing, history, part, step
  <2>2. ~Doing("clearOffset") /\ ~Doing("softReset")
    BY <1>7, <2>1
  <2> QED
    BY <1>2, <1>4, <1>8, <2>1, <2>2 DEF AutomaticReads
<1>16. CASE Driver
  BY <1>9, <1>10, <1>11, <1>12, <1>13, <1>14, <1>15, <1>16 DEF Driver, CheckStatus
<1> QED
  BY <1>5, <1>16 DEF Next

\* A measurement taken with the polarity that was sensed.
LEMMA ReadingOfPolarity ==
  ASSUME magnet \in {1, -1}, sensed.magnet = magnet, sensed.automatic = 0
  PROVE  OfPolarity(Reading)
<1>1. 1 * Field + Bridge = Field + Bridge /\ (-1) * Field + Bridge = Bridge - Field
  BY ValuesAssumption
<1>2. Reading = sensed.magnet * Field + Bridge
  BY DEF Reading
<1>3. magnet = 1 => Reading = Field + Bridge
  BY <1>1, <1>2
<1>4. magnet = -1 => Reading = Bridge - Field
  BY <1>1, <1>2
<1> QED
  BY <1>3, <1>4 DEF OfPolarity

\* Without automatic set/reset whatever is new and read is the field in either
\* polarity, over the bridge's offset, and stays it.
LEMMA ManualReadsKept ==
  ASSUME PartInv, ManualReads, Next, config.automatic = 0
  PROVE  ManualReads'
<1>1. TypeOK /\ DriverTypes /\ Owing /\ data.id <= taken
  BY DEF PartInv, NumbersGrow
<1>2. /\ Doing("softReset") \/
           /\ automatic = 0
           /\ engine = "latch" /\ taken >= old => sensed.automatic = 0
           /\ data.id > old => data.value \in EitherPolarity
           /\ counts.id > old => counts.value \in EitherPolarity
  BY DEF ManualReads
<1>3. /\ old \in Nat /\ taken \in Nat /\ owed \in Nat /\ sensed.magnet \in {1, -1}
      /\ triggered \in {0, 1} /\ counts.id \in Nat /\ counts.id <= taken /\ data.id \in Nat
  BY <1>1, BoundsAssumption DEF TypeOK, DriverTypes, Owing
<1>4. config' = config
  BY KindsOfStep
<1>5. CASE Fmu
  <2>1. UNCHANGED <<config, todo, counts, old, automatic>>
    BY <1>5 DEF Fmu, BeginStep, ReadPeriod, SenseState, LatchMeasurement, PublishLine, driver,
         history, part
  <2>2. Doing("softReset")' <=> Doing("softReset")
    BY <2>1 DEF Doing
  <2>3. CASE Doing("softReset")
    BY <2>2, <2>3 DEF ManualReads
  <2>4. CASE ~Doing("softReset") /\ (BeginStep \/ ReadPeriod \/ PublishLine)
    <3>1. engine' # "latch" /\ data' = data
      BY <2>4 DEF BeginStep, ReadPeriod, PublishLine, part
    <3> QED
      BY <1>2, <2>1, <2>4, <3>1 DEF ManualReads, EitherPolarity
  <2>5. CASE ~Doing("softReset") /\ SenseState
    <3>1. data' = data /\ sensed'.automatic = automatic
      BY <2>5 DEF SenseState, part
    <3> QED
      BY <1>2, <2>1, <2>5, <3>1 DEF ManualReads, EitherPolarity
  <2>6. CASE ~Doing("softReset") /\ LatchMeasurement
    <3>1. engine = "latch" /\ engine' # "latch" /\ data'.id = taken + 1 /\ data'.value = Reading
      BY <2>6 DEF LatchMeasurement, Measurement
    <3>2. data'.id > old => taken >= old
      BY <1>3, <3>1
    <3>3. 1 * Field + Bridge = Field + Bridge /\ (-1) * Field + Bridge = Bridge - Field
      BY ValuesAssumption
    <3>4. data'.id > old => Reading = sensed.magnet * Field + Bridge
      BY <1>2, <2>6, <3>1, <3>2 DEF Reading
    <3>5. data'.id > old => data'.value \in EitherPolarity
      BY <1>3, <3>1, <3>3, <3>4 DEF EitherPolarity
    <3> QED
      BY <1>2, <2>1, <2>6, <3>1, <3>5 DEF ManualReads, EitherPolarity
  <2> QED
    BY <1>5, <2>3, <2>4, <2>5, <2>6 DEF Fmu
<1>6. CASE SoftReset
  <2>1. /\ UNCHANGED <<counts, engine, sensed, taken>> /\ automatic' = 0
        /\ data'.id = 0 /\ old' = taken + triggered + owed
    BY <1>6 DEF SoftReset, None, Measurement, step
  <2>2. ~(engine = "latch" /\ taken >= old') /\ ~(data'.id > old') /\ ~(counts.id > old')
    BY <1>1, <1>3, <2>1 DEF Owing
  <2> QED
    BY <2>1, <2>2 DEF ManualReads
<1>7. CASE Driver /\ ~SoftReset
  <2>1. UNCHANGED <<engine, sensed, taken, old, data>>
    BY <1>7 DEF Driver, BeginProbe, BeginReading, BeginCalibration, Configure, Pulse,
       Trigger, AwaitDone, GiveUp, Acknowledge, SetContinuous, KeepAfterSet, StoreOffset,
       ClearOffset, CheckStatus, Burst, Deliver, Keeps, history, part, step
  <2>2. ~Doing("softReset")
    BY <1>7 DEF Driver, BeginProbe, BeginReading, BeginCalibration, Configure, Pulse,
       Trigger, AwaitDone, GiveUp, Acknowledge, SetContinuous, KeepAfterSet, StoreOffset,
       ClearOffset, CheckStatus, Burst, Deliver, Doing
  <2>3. automatic' = automatic \/ automatic' = config.automatic
    BY <1>7 DEF Driver, BeginProbe, BeginReading, BeginCalibration, Configure, Pulse,
       Trigger, AwaitDone, GiveUp, Acknowledge, SetContinuous, KeepAfterSet, StoreOffset,
       ClearOffset, CheckStatus, Burst, Deliver, PersistentBits, part
  <2>4. counts' = counts \/ counts' = data
    BY <1>7 DEF Driver, BeginProbe, BeginReading, BeginCalibration, Configure, Pulse,
       Trigger, AwaitDone, GiveUp, Acknowledge, SetContinuous, KeepAfterSet, StoreOffset,
       ClearOffset, CheckStatus, Burst, Deliver, Keeps
  <2>5. automatic' = 0
    BY <1>2, <2>2, <2>3
  <2>6. counts'.id > old => counts'.value \in EitherPolarity
    BY <1>2, <2>2, <2>4
  <2> QED
    BY <1>2, <2>1, <2>2, <2>5, <2>6 DEF ManualReads, EitherPolarity
<1> QED
  BY <1>5, <1>6, <1>7 DEF Next

\* A step of the FMU measures with the polarity of the part where that counts.
LEMMA FmuMeasuresThePolarity ==
  ASSUME PartInv, PulsesInOrder, ManualReads, config.automatic = 0, ~Doing("softReset"),
         Polarity, StillWhereItFlips, Waiting, Settled, Kept, Fmu
  PROVE  /\ ~Doing("softReset")'
         /\ Polarity' /\ StillWhereItFlips' /\ Waiting' /\ Settled' /\ Kept'
<1>1. TypeOK /\ DriverTypes /\ LeftToDo /\ Owing /\ FlipsInOrder(todo)
  BY DEF PartInv, PulsesInOrder
<1>2. /\ old \in Nat /\ taken \in Nat /\ owed \in Nat /\ magnet \in {1, -1}
      /\ triggered \in {0, 1} /\ pending \in {0, 1} /\ continuous \in {0, 1}
      /\ done \in {0, 1} /\ data.id \in Nat
      /\ engine \in {"idle", "period", "sense", "latch", "publish"}
  BY <1>1, BoundsAssumption DEF TypeOK, DriverTypes, Owing
<1>3. engine = "latch" /\ taken >= old => sensed.automatic = 0
  BY DEF ManualReads
<1>4. /\ UNCHANGED <<config, todo, offset, afterSet, counts, magnet, continuous>>
      /\ UNCHANGED <<old, mistaken, failed, calibrated>>
  BY DEF Fmu, BeginStep, ReadPeriod, SenseState, LatchMeasurement, PublishLine, driver, history, part
<1>5. \A what : /\ Ahead(what)' <=> Ahead(what)
                /\ Doing(what)' <=> Doing(what)
                /\ Then(what)' <=> Then(what)
  BY <1>4 DEF Ahead, Doing, Then
<1>6. Doing("await") => ~Ahead("stop")
  BY <1>1, FlipsAhead
<1>7. /\ Calibrating' <=> Calibrating
      /\ Halfway' <=> Halfway
  BY <1>5 DEF Calibrating, Halfway
<1>8. Polarity'
  BY <1>4, <1>5, <1>7 DEF Polarity
\* While the part is still its FMU measures nothing.
<1>9. Still => Still' /\ UNCHANGED <<done, data>> /\ engine # "latch"
  <2>1. Still => engine \notin {"sense", "latch"}
    BY <1>1, <1>2 DEF Still, Owing
  <2>2. CASE BeginStep
    BY <1>1, <1>4, <2>1, <2>2 DEF Still, BeginStep, Owing
  <2>3. CASE ReadPeriod
    BY <1>4, <2>1, <2>3 DEF Still, ReadPeriod, part
  <2>4. CASE SenseState \/ LatchMeasurement
    BY <2>1, <2>4 DEF SenseState, LatchMeasurement
  <2>5. CASE PublishLine
    BY <1>4, <2>1, <2>5 DEF Still, PublishLine, part
  <2> QED
    BY <2>2, <2>3, <2>4, <2>5 DEF Fmu
<1>10. StillWhereItFlips'
  BY <1>4, <1>5, <1>7, <1>9 DEF StillWhereItFlips
\* What the FMU latches has the polarity it sensed.
<1>11. ASSUME LatchMeasurement, taken >= old, sensed.magnet = magnet
       PROVE  OfPolarity(data.value)'
  <2>1. OfPolarity(Reading)
    BY <1>2, <1>3, <1>11, ReadingOfPolarity DEF LatchMeasurement
  <2> QED
    BY <1>4, <1>11, <2>1 DEF LatchMeasurement, Measurement, OfPolarity
<1>12. data' = data => (OfPolarity(data.value)' <=> OfPolarity(data.value))
  BY <1>4 DEF OfPolarity
<1>13. Waiting'
  <2> SUFFICES ASSUME Calibrating, Doing("await"), pending' = 0
               PROVE  /\ owed' = 0
                      /\ engine' \in {"sense", "latch"} => taken' >= old
                      /\ engine' = "latch" => sensed'.magnet = magnet
                      /\ triggered' = 0 => OfPolarity(data.value)'
    BY <1>4, <1>5, <1>7 DEF Waiting
  <2>1. continuous = 0
    BY <1>6 DEF StillWhereItFlips
  <2>2. pending = 0 =>
          /\ owed = 0
          /\ engine \in {"sense", "latch"} => taken >= old
          /\ engine = "latch" => sensed.magnet = magnet
          /\ triggered = 0 => OfPolarity(data.value)
    BY DEF Waiting
  <2>3. CASE BeginStep
    <3>1. engine = "idle" /\ triggered' = pending /\ UNCHANGED <<data, owed, taken>>
          /\ engine' \in {"sense", "period"}
      BY <2>3 DEF BeginStep
    <3>2. owed = 0 /\ triggered = 0 /\ old <= taken
      BY <1>1, <1>2, <3>1 DEF Owing
    <3> QED
      BY <1>2, <1>12, <2>2, <3>1, <3>2
  <2>4. CASE ReadPeriod
    <3>1. owed' = 0 /\ engine' = "publish" /\ UNCHANGED <<pending, triggered, data>>
      BY <2>1, <2>4 DEF ReadPeriod, part
    <3> QED
      BY <1>12, <2>2, <3>1
  <2>5. CASE SenseState
    <3>1. /\ engine = "sense" /\ sensed'.magnet = magnet
          /\ UNCHANGED <<pending, triggered, data, owed, taken>>
      BY <2>5 DEF SenseState, part
    <3> QED
      BY <1>12, <2>2, <3>1
  <2>6. CASE LatchMeasurement
    <3>1. /\ engine = "latch" /\ pending' = pending /\ triggered' = 0
          /\ owed' = IF triggered = 1 THEN owed ELSE owed - 1
          /\ engine' = IF triggered = 1 THEN "period" ELSE IF owed > 1 THEN "sense" ELSE "publish"
      BY <2>6 DEF LatchMeasurement
    <3>2. triggered = 1
      BY <1>1, <1>2, <2>2, <3>1 DEF Owing
    <3>3. OfPolarity(data.value)'
      BY <1>11, <2>2, <2>6, <3>1
    <3> QED
      BY <2>2, <3>1, <3>2, <3>3
  <2>7. CASE PublishLine
    <3>1. engine' = "idle" /\ UNCHANGED <<pending, triggered, data, owed>>
      BY <2>7 DEF PublishLine, part
    <3> QED
      BY <1>12, <2>2, <3>1
  <2> QED
    BY <2>3, <2>4, <2>5, <2>6, <2>7 DEF Fmu
<1>14. Settled'
  <2> SUFFICES ASSUME failed = 0 \/ Halfway
               PROVE  /\ engine' = "latch" /\ taken' >= old => sensed'.magnet = magnet
                      /\ data'.id > old
                           /\ (done' = 1 \/ Doing("acknowledge") \/ Doing("burst")) =>
                            OfPolarity(data.value)'
    BY <1>4, <1>5, <1>7 DEF Settled
  <2>1. /\ engine = "latch" /\ taken >= old => sensed.magnet = magnet
        /\ data.id > old /\ (done = 1 \/ Doing("acknowledge") \/ Doing("burst")) =>
              OfPolarity(data.value)
    BY DEF Settled
  <2>2. CASE BeginStep \/ ReadPeriod \/ PublishLine
    <3>1. engine' # "latch" /\ UNCHANGED <<data, done>>
      BY <2>2 DEF BeginStep, ReadPeriod, PublishLine, part
    <3> QED
      BY <1>12, <2>1, <3>1
  <2>3. CASE SenseState
    <3>1. sensed'.magnet = magnet /\ UNCHANGED <<data, done>>
      BY <2>3 DEF SenseState, part
    <3> QED
      BY <1>12, <2>1, <3>1
  <2>4. CASE LatchMeasurement
    <3>1. engine = "latch" /\ engine' # "latch" /\ data'.id = taken + 1
      BY <2>4 DEF LatchMeasurement, Measurement
    <3>2. data'.id > old => taken >= old
      BY <1>2, <3>1
    <3> QED
      BY <1>11, <2>1, <2>4, <3>1, <3>2
  <2> QED
    BY <2>2, <2>3, <2>4 DEF Fmu
<1>15. Kept'
  <2>1. Halfway /\ (Doing("acknowledge") \/ Doing("keepSet") \/ Doing("keepReset")) =>
          data' = data
    <3>1. \A v, w : Doing(v) /\ Doing(w) => v = w
      BY DEF Doing
    <3>2. Doing("acknowledge") \/ Doing("keepSet") \/ Doing("keepReset") => ~Doing("await")
      BY <3>1
    <3> QED
      BY <1>9, <3>2 DEF StillWhereItFlips
  <2> QED
    BY <1>4, <1>5, <1>7, <1>12, <2>1 DEF Kept
<1> QED
  BY <1>5, <1>8, <1>10, <1>13, <1>14, <1>15

\* An operation that breaks off leaves the part SET unless that counts as failed.
LEMMA BreakingOff ==
  ASSUME PartInv, PulsesInOrder, Polarity, Settled, GiveUp \/ (CheckStatus /\ done = 0)
  PROVE  Polarity' /\ StillWhereItFlips' /\ Waiting' /\ Settled' /\ Kept'
<1>1. DriverTypes /\ LeftToDo /\ FlipsInOrder(todo)
  BY DEF PartInv, PulsesInOrder
<1>2. /\ todo' = <<>> /\ UNCHANGED <<magnet, done, data, engine, sensed, taken, old>>
      /\ Doing("await") \/ Doing("check")
  BY DEF GiveUp, CheckStatus, Keeps, history, part, step
<1>3. \A what : ~Ahead(what)' /\ ~Doing(what)'
  BY <1>2, EmptySeq DEF Ahead, Doing
<1>4. failed' = 0 => failed = 0 /\ (Doing("await") => ~(Calibrating /\ ~Ahead("keepSet")))
  BY DEF GiveUp, CheckStatus, Keeps, history, Doing
<1>5. /\ Ahead("keepSet") => Ahead("reset")
      /\ Doing("check") => ~Ahead("set")
      /\ Doing("await") /\ Ahead("set") => Ahead("keepReset")
  BY <1>1, FlipsAhead
<1>6. failed' = 0 => magnet = 1
  BY <1>2, <1>4, <1>5 DEF Polarity, Calibrating
<1>7. ~Calibrating' /\ ~Halfway'
  BY <1>3 DEF Calibrating, Halfway
<1>8. OfPolarity(data.value)' <=> OfPolarity(data.value)
  BY <1>2 DEF OfPolarity
<1> QED
  BY <1>2, <1>3, <1>4, <1>6, <1>7, <1>8
     DEF Polarity, StillWhereItFlips, Waiting, Settled, Kept

\* A reading and a calibration begin with the part SET, as far as nothing failed.
LEMMA BeginningOver ==
  ASSUME PartInv, PulsesInOrder, Polarity, Settled, BeginReading \/ BeginCalibration
  PROVE  Polarity' /\ StillWhereItFlips' /\ Waiting' /\ Settled' /\ Kept'
<1>1. DriverTypes /\ LeftToDo /\ FlipsInOrder(todo)
  BY DEF PartInv, PulsesInOrder
<1>2. /\ todo = <<>> /\ probed = 1 /\ probed' = 1
      /\ UNCHANGED <<config, magnet, done, data, engine, sensed, taken, old, failed>>
  BY DEF BeginReading, BeginCalibration, Keeps, history, part, step
<1>3. \A what : ~Ahead(what)
  BY <1>2, EmptySeq DEF Ahead
<1>4. failed = 0 => magnet = 1
  BY <1>3 DEF Polarity
<1>5. OfPolarity(data.value)' <=> OfPolarity(data.value)
  BY <1>2 DEF OfPolarity
<1>6. ~Ahead("configure")'
  BY <1>1, <1>2, BeginningsInOrder DEF LeftToDo
<1>7. ASSUME NEW p, todo' = p, p \in Seq(Operations), p # <<>>
      PROVE  /\ Len(p) > 0
             /\ \A what : /\ Ahead(what)' <=> \E i \in 1 .. Len(p) : p[i] = what
                          /\ Doing(what)' <=> p[1] = what
  BY <1>7, FirstOf DEF Ahead, Doing
<1>8. CASE BeginReading
  <2>1. todo' = ReadSample \/ todo' = MeasureOnce
    BY <1>8 DEF BeginReading
  <2>2. \A i \in 1 .. Len(todo') :
          todo'[i] \notin {"set", "reset", "keepSet", "keepReset", "stop", "clearOffset", "start"}
    BY <2>1, ReadingFlipsNothing
  <2>3. \A what \in {"set", "reset", "keepSet", "keepReset"} : ~Ahead(what)'
    BY <2>2 DEF Ahead
  <2>4. /\ ~Doing("await")' /\ ~Doing("burst")' /\ ~Doing("deliver")' /\ ~Doing("acknowledge")'
        /\ todo' # <<>> /\ todo' \in Seq(Operations)
    BY <1>1, <1>2, BeginningsInOrder
  <2>5. ~Doing("set")'
    <3>1. Len(todo') \in Nat /\ Len(todo') > 0
      BY <2>4, FirstOf
    <3>2. Doing("set")' => todo'[1] = "set" /\ 1 \in 1 .. Len(todo')
      BY <2>4, <3>1, FirstOf DEF Doing
    <3> QED
      BY <2>2, <3>2
  <2>6. ~Calibrating' /\ ~Halfway'
    BY <2>3 DEF Calibrating, Halfway
  <2> QED
    BY <1>2, <1>4, <1>5, <1>6, <2>3, <2>4, <2>5, <2>6
       DEF Polarity, StillWhereItFlips, Waiting, Settled, Kept
<1>9. CASE BeginCalibration
  <2>1. todo' = Calibrate
    BY <1>9 DEF BeginCalibration
  <2>2. Ahead("reset")' /\ Ahead("keepSet")' /\ Ahead("stop")'
    BY <2>1, CalibrateFlips DEF Ahead
  <2>3. \A what : Doing(what)' <=> what = "stop"
    <3>1. Len(Calibrate) > 0 /\ Calibrate[1] = "stop" /\ Calibrate \in Seq(Operations)
      BY CalibrateIs
    <3> QED
      BY <2>1, <3>1, FirstOf DEF Doing
  <2>4. ~Halfway'
    BY <2>2, <2>3 DEF Halfway
  <2> QED
    BY <1>2, <1>4, <1>5, <1>6, <2>2, <2>3, <2>4
       DEF Polarity, StillWhereItFlips, Waiting, Settled, Kept
<1> QED
  BY <1>8, <1>9

\* A part that has been reset senses with the SET polarity, and nothing new.
LEMMA ResetStartsOver ==
  ASSUME PartInv, PulsesInOrder, config.automatic = 0, SoftReset
  PROVE  Polarity' /\ StillWhereItFlips' /\ Waiting' /\ Settled' /\ Kept'
<1>1. TypeOK /\ DriverTypes /\ LeftToDo /\ StepsInOrder /\ Owing /\ FlipsInOrder(todo)
  BY DEF PartInv, PulsesInOrder
<1>2. /\ old \in Nat /\ taken \in Nat /\ owed \in Nat
      /\ triggered \in {0, 1} /\ counts.id \in Nat /\ counts.id <= taken
  BY <1>1, BoundsAssumption DEF TypeOK, DriverTypes, Owing
<1>3. /\ Doing("softReset") /\ todo # <<>> /\ Advance
      /\ magnet' = 1 /\ done' = 0 /\ data' = None /\ pending' = 0 /\ continuous' = 0
      /\ old' = taken + triggered + owed
      /\ UNCHANGED <<config, engine, sensed, triggered, owed, taken, counts, failed>>
  BY DEF SoftReset, Doing, step
<1>4. ~(engine = "latch" /\ taken >= old') /\ ~(data'.id > old') /\ ~(counts.id > old')
  BY <1>1, <1>2, <1>3 DEF Owing, None, Measurement
<1>5. \A what : Doing(what) <=> what = "softReset"
  BY <1>3 DEF Doing
<1>6. Ahead("keepReset") => Ahead("reset") /\ Ahead("keepSet")
  <2>1. todo = Probe /\ config.automatic \in {0, 1}
    BY <1>1, <1>3 DEF LeftToDo, DriverTypes
  <2> QED
    BY <2>1, ProbeFlips DEF Ahead
<1>7. /\ \A what : Ahead(what) <=> Doing(what) \/ Ahead(what)'
      /\ Doing("acknowledge")' => Doing("await") \/ Doing("burst")
      /\ Doing("await")' => Doing("trigger")
      /\ Doing("keepSet")' \/ Doing("keepReset")' => Doing("acknowledge")
      /\ Doing("set")' => Doing("configure") \/ Doing("stop") \/ Doing("keepReset")
      /\ Doing("burst")' => Doing("check") \/ Doing("acknowledge")
      /\ Doing("deliver")' => (Doing("acknowledge") /\ Then("deliver")) \/ Doing("burst")
  BY <1>1, <1>3, FirstFlip
<1>8. \A what \in {"acknowledge", "await", "keepSet", "keepReset", "set", "burst", "deliver"} :
        ~Doing(what)'
  BY <1>5, <1>7
<1>9. Calibrating' => Ahead("reset")' /\ Ahead("keepSet")'
  BY <1>5, <1>6, <1>7 DEF Calibrating
<1>10. ~Halfway'
  BY <1>8, <1>9 DEF Halfway
<1> QED
  BY <1>3, <1>4, <1>8, <1>9, <1>10
     DEF Polarity, StillWhereItFlips, Waiting, Settled, Kept

\* What a transaction other than the software reset leaves ahead, and what is next.
LEMMA Onwards ==
  ASSUME PartInv, PulsesInOrder, NEW h, h # "softReset", Doing(h), Advance
  PROVE  /\ \A what : Doing(what) <=> what = h
         /\ \A what : Ahead(what) <=> what = h \/ Ahead(what)'
         /\ ~Ahead("configure")' /\ ~Doing("softReset")'
         /\ h = "set" => /\ Ahead("reset")' \/ ~Ahead("set")'
                         /\ Ahead("keepReset")' => Ahead("keepSet")' /\ Ahead("reset")'
         /\ h = "reset" => /\ Ahead("set")' /\ ~Ahead("reset")'
                           /\ Ahead("keepReset") /\ ~Ahead("keepSet")
         /\ h = "keepSet" => Ahead("reset")'
         /\ h = "keepReset" => Ahead("set")' /\ ~Ahead("reset")' /\ ~Ahead("keepSet")'
         /\ h = "start" => \A what : Ahead(what)' => what = "start"
         /\ h = "stop" => Ahead("reset")' /\ Ahead("keepSet")'
         /\ h = "await" => Doing("acknowledge")' /\ ~Then("deliver")' /\ ~Ahead("stop")
         /\ h = "trigger" => Doing("await")'
         /\ h \in {"check", "burst", "deliver"} => ~Ahead("set") /\ ~Ahead("keepReset")
         /\ h # "acknowledge" => ~Doing("keepSet")' /\ ~Doing("keepReset")'
         /\ h \notin {"await", "burst"} => ~Doing("acknowledge")'
         /\ h # "trigger" => ~Doing("await")'
         /\ h \notin {"check", "acknowledge"} => ~Doing("burst")'
         /\ h \notin {"acknowledge", "burst"} => ~Doing("deliver")'
         /\ h = "acknowledge" /\ Doing("deliver")' => Then("deliver")
         /\ h \notin {"configure", "stop", "keepReset"} => ~Doing("set")'
         /\ h \notin {"set", "reset"} => ~Doing("trigger")'
<1>1. DriverTypes /\ LeftToDo /\ StepsInOrder /\ FlipsInOrder(todo) /\ probed \in {0, 1}
  BY DEF PartInv, PulsesInOrder, TypeOK
<1>2. todo # <<>> /\ \A what : Doing(what) <=> what = h
  BY DEF Doing
<1>3. ~Ahead("configure")' /\ ~Doing("softReset")'
  BY <1>1, <1>2, AdvanceMoves
<1> HIDE DEF PartInv, PulsesInOrder
<1>4. /\ \A what : Ahead(what) <=> Doing(what) \/ Ahead(what)'
      /\ Doing("set") => Ahead("reset")' \/ ~Ahead("set")'
      /\ Doing("reset") => Ahead("set")' /\ ~Ahead("reset")'
      /\ Doing("keepSet") => Ahead("reset")'
      /\ Doing("keepReset") => Ahead("set")' /\ ~Ahead("reset")' /\ ~Ahead("keepSet")'
      /\ Doing("start") => \A what : Ahead(what)' => what = "start"
      /\ Doing("trigger") => Doing("await")'
      /\ Doing("await") => Doing("acknowledge")' /\ ~Then("deliver")'
      /\ Doing("set") /\ Ahead("keepReset")' => Ahead("keepSet")'
      /\ Doing("stop") => Ahead("reset")' /\ Ahead("keepSet")'
      /\ Ahead("keepSet")' => Ahead("reset")'
  BY <1>1, <1>2, FirstFlip
<1>5. /\ Doing("keepSet")' \/ Doing("keepReset")' => Doing("acknowledge")
      /\ Doing("acknowledge")' => Doing("await") \/ Doing("burst")
      /\ Doing("burst")' => Doing("check") \/ Doing("acknowledge")
      /\ Doing("deliver")' => (Doing("acknowledge") /\ Then("deliver")) \/ Doing("burst")
      /\ Doing("await")' => Doing("trigger")
      /\ Doing("set")' => Doing("configure") \/ Doing("stop") \/ Doing("keepReset")
      /\ Doing("trigger")' => Doing("set") \/ Doing("reset")
  BY <1>1, <1>2, FirstFlip
<1>6. /\ Doing("check") \/ Doing("burst") \/ Doing("deliver") => ~Ahead("set") /\ ~Ahead("keepReset")
      /\ Doing("reset") => Ahead("keepReset") /\ ~Ahead("keepSet")
      /\ \A what : Doing(what) /\ what \notin {"softReset", "configure", "set", "stop"} =>
                     ~Ahead("stop")
  BY <1>1, FlipsAhead
<1> QED
  BY <1>2, <1>3, <1>4, <1>5, <1>6

\* What the first steps of an operation keep of what is known of the polarity.
LEMMA ModesKeepPolarity ==
  ASSUME PartInv, PulsesInOrder, Polarity, StillWhereItFlips, Waiting, Settled, Kept,
         \/ Configure
         \/ SetContinuous("stop", 0)
         \/ SetContinuous("start", config.continuous)
  PROVE  Polarity' /\ StillWhereItFlips' /\ Waiting' /\ Settled' /\ Kept'
<1>1. /\ UNCHANGED <<config, magnet, done, data, pending, engine, sensed, triggered, owed, taken>>
      /\ UNCHANGED <<old, failed, afterSet, counts>>
  BY DEF Configure, SetContinuous, Keeps, history, step
<1>2. OfPolarity(data.value)' <=> OfPolarity(data.value)
  BY <1>1 DEF OfPolarity
<1>3. CASE Configure
  <2>1. Doing("configure") /\ Advance /\ continuous' = continuous
    BY <1>3 DEF Configure
  <2>2. /\ \A what : Doing(what) <=> what = "configure"
        /\ \A what : Ahead(what) <=> what = "configure" \/ Ahead(what)'
        /\ ~Ahead("configure")' /\ ~Doing("keepSet")' /\ ~Doing("keepReset")'
        /\ ~Doing("acknowledge")' /\ ~Doing("await")' /\ ~Doing("burst")' /\ ~Doing("deliver")'
        /\ ~Doing("trigger")'
    BY <2>1, Onwards
  <2> QED
    BY <1>1, <1>2, <2>1, <2>2
       DEF Polarity, StillWhereItFlips, Waiting, Settled, Kept, Halfway, Calibrating, Still
<1>4. CASE SetContinuous("stop", 0)
  <2>1. Doing("stop") /\ Advance /\ continuous' = 0
    BY <1>4 DEF SetContinuous
  <2>2. /\ \A what : Doing(what) <=> what = "stop"
        /\ \A what : Ahead(what) <=> what = "stop" \/ Ahead(what)'
        /\ ~Ahead("configure")' /\ ~Doing("keepSet")' /\ ~Doing("keepReset")'
        /\ ~Doing("acknowledge")' /\ ~Doing("await")' /\ ~Doing("burst")' /\ ~Doing("deliver")'
        /\ ~Doing("trigger")' /\ Ahead("reset")' /\ Ahead("keepSet")'
    BY <2>1, Onwards
  <2> QED
    BY <1>1, <1>2, <2>1, <2>2
       DEF Polarity, StillWhereItFlips, Waiting, Settled, Kept, Halfway, Calibrating, Still
<1>5. CASE SetContinuous("start", config.continuous)
  <2>1. Doing("start") /\ Advance
    BY <1>5 DEF SetContinuous
  <2>2. /\ \A what : Doing(what) <=> what = "start"
        /\ \A what : Ahead(what) <=> what = "start" \/ Ahead(what)'
        /\ \A what : Ahead(what)' => what = "start"
        /\ ~Doing("acknowledge")' /\ ~Doing("await")' /\ ~Doing("burst")' /\ ~Doing("deliver")'
        /\ ~Doing("trigger")' /\ ~Doing("set")'
    BY <2>1, Onwards
  <2> QED
    BY <1>1, <1>2, <2>1, <2>2
       DEF Polarity, StillWhereItFlips, Waiting, Settled, Kept, Halfway, Calibrating
<1> QED
  BY <1>3, <1>4, <1>5

\* A pulse flips the part only while nothing is under way, and none of what was
\* measured with the other polarity is read.
LEMMA PulsesKeepPolarity ==
  ASSUME PartInv, PulsesInOrder, Polarity, StillWhereItFlips, Waiting, Settled, Kept,
         Pulse("set", 1) \/ Pulse("reset", -1)
  PROVE  Polarity' /\ StillWhereItFlips' /\ Waiting' /\ Settled' /\ Kept'
<1>1. /\ UNCHANGED <<config, done, data, pending, continuous, engine, sensed>>
      /\ UNCHANGED <<triggered, owed, taken, old, failed, afterSet, counts>>
  BY DEF Pulse, Keeps, history, step
<1>2. magnet' = magnet => (OfPolarity(data.value)' <=> OfPolarity(data.value))
  BY <1>1 DEF OfPolarity
<1>3. Still => engine # "latch"
  BY DEF PartInv, Owing, Still
<1>4. CASE Pulse("set", 1)
  <2>1. Doing("set") /\ Advance /\ magnet' = 1
    BY <1>4 DEF Pulse
  <2>2. /\ \A what : Doing(what) <=> what = "set"
        /\ \A what : Ahead(what) <=> what = "set" \/ Ahead(what)'
        /\ ~Ahead("configure")' /\ ~Doing("keepSet")' /\ ~Doing("keepReset")'
        /\ ~Doing("acknowledge")' /\ ~Doing("await")' /\ ~Doing("burst")' /\ ~Doing("deliver")'
        /\ ~Doing("set")' /\ (Ahead("reset")' \/ ~Ahead("set")')
        /\ Ahead("keepReset")' => Ahead("keepSet")' /\ Ahead("reset")'
    BY <2>1, Onwards
  <2>3. ~Halfway'
    BY <2>2 DEF Halfway, Calibrating
  <2>4. Settled'
    <3>1. failed = 0 => magnet = 1 \/ (Still /\ done = 0)
      BY <2>2 DEF Polarity, StillWhereItFlips
    <3> QED
      BY <1>1, <1>2, <1>3, <2>1, <2>2, <2>3, <3>1 DEF Settled
  <2> QED
    BY <1>1, <2>1, <2>2, <2>3, <2>4
       DEF Polarity, StillWhereItFlips, Waiting, Kept, Calibrating
<1>5. CASE Pulse("reset", -1)
  <2>1. Doing("reset") /\ Advance /\ magnet' = -1
    BY <1>5 DEF Pulse
  <2>2. /\ \A what : Doing(what) <=> what = "reset"
        /\ \A what : Ahead(what) <=> what = "reset" \/ Ahead(what)'
        /\ ~Ahead("configure")' /\ ~Doing("keepSet")' /\ ~Doing("keepReset")'
        /\ ~Doing("acknowledge")' /\ ~Doing("await")' /\ ~Doing("burst")' /\ ~Doing("deliver")'
        /\ ~Doing("set")' /\ Ahead("set")' /\ ~Ahead("reset")'
        /\ Ahead("keepReset") /\ ~Ahead("keepSet")
    BY <2>1, Onwards
  <2>3. Still /\ done = 0
    BY <2>2 DEF StillWhereItFlips, Halfway, Calibrating
  <2>4. Still'
    BY <1>1, <2>3 DEF Still
  <2>5. Settled'
    BY <1>1, <1>3, <2>2, <2>3 DEF Settled
  <2> QED
    BY <1>1, <2>1, <2>2, <2>3, <2>4, <2>5
       DEF Polarity, StillWhereItFlips, Waiting, Kept, Calibrating, Halfway
<1> QED
  BY <1>4, <1>5

\* A measurement that a calibration waits for has the polarity of the part.
LEMMA WaitsKeepPolarity ==
  ASSUME PartInv, PulsesInOrder, Polarity, StillWhereItFlips, Waiting, Settled, Kept,
         Trigger \/ AwaitDone \/ Acknowledge, mistaken' = 0
  PROVE  Polarity' /\ StillWhereItFlips' /\ Waiting' /\ Settled' /\ Kept'
<1>1. /\ UNCHANGED <<config, magnet, data, continuous, engine, sensed, triggered, owed, taken>>
      /\ UNCHANGED <<old, failed, afterSet, counts>>
  BY DEF Trigger, AwaitDone, Acknowledge, Keeps, history, step, part
<1>2. OfPolarity(data.value)' <=> OfPolarity(data.value)
  BY <1>1 DEF OfPolarity
<1>3. CASE Trigger
  <2>1. Doing("trigger") /\ Advance /\ pending' = 1 /\ done' = 0
    BY <1>3 DEF Trigger
  <2>2. /\ \A what : Doing(what) <=> what = "trigger"
        /\ \A what : Ahead(what) <=> what = "trigger" \/ Ahead(what)'
        /\ ~Ahead("configure")' /\ ~Doing("keepSet")' /\ ~Doing("keepReset")'
        /\ ~Doing("acknowledge")' /\ ~Doing("burst")' /\ ~Doing("deliver")'
        /\ ~Doing("set")' /\ ~Doing("trigger")' /\ Doing("await")'
    BY <2>1, Onwards
  <2> QED
    BY <1>1, <1>2, <2>1, <2>2
       DEF Polarity, StillWhereItFlips, Waiting, Settled, Kept, Halfway, Calibrating
<1>4. CASE AwaitDone
  <2>1. Doing("await") /\ Advance /\ done = 1 /\ UNCHANGED <<done, pending>>
    BY <1>4 DEF AwaitDone, part
  <2>2. /\ \A what : Doing(what) <=> what = "await"
        /\ \A what : Ahead(what) <=> what = "await" \/ Ahead(what)'
        /\ ~Ahead("configure")' /\ ~Doing("keepSet")' /\ ~Doing("keepReset")'
        /\ Doing("acknowledge")' /\ ~Then("deliver")'
        /\ ~Doing("await")' /\ ~Doing("burst")' /\ ~Doing("deliver")'
        /\ ~Doing("set")' /\ ~Doing("trigger")' /\ ~Ahead("stop")
    BY <2>1, Onwards
  <2>3. Calibrating => pending = 0 /\ triggered = 0
    BY <1>4 DEF AwaitDone, PartInv, TypeOK, Owing
  <2>4. Calibrating => Still /\ OfPolarity(data.value)
    BY <2>2, <2>3 DEF Waiting, StillWhereItFlips, Still
  <2>5. Still => engine # "latch"
    BY DEF PartInv, Owing, Still
  <2>6. Still' <=> Still
    BY <1>1, <2>1 DEF Still
  <2>7. Polarity'
    BY <1>1, <2>2 DEF Polarity, Halfway, Calibrating
  <2>8. Settled'
    BY <1>1, <1>2, <2>1, <2>2, <2>4, <2>5 DEF Settled, Halfway, Calibrating
  <2> QED
    BY <1>1, <1>2, <2>1, <2>2, <2>4, <2>6, <2>7, <2>8
       DEF StillWhereItFlips, Waiting, Kept, Halfway, Calibrating
<1>5. CASE Acknowledge
  <2>1. Doing("acknowledge") /\ Advance /\ done' = 0 /\ pending' = pending
    BY <1>5 DEF Acknowledge
  <2>2. /\ \A what : Doing(what) <=> what = "acknowledge"
        /\ \A what : Ahead(what) <=> what = "acknowledge" \/ Ahead(what)'
        /\ ~Ahead("configure")' /\ ~Doing("acknowledge")' /\ ~Doing("await")'
        /\ ~Doing("set")' /\ ~Doing("trigger")' /\ (Doing("deliver")' => Then("deliver"))
    BY <2>1, Onwards
  <2>3. Still' <=> Still
    BY <1>1, <2>1 DEF Still
  <2>4. Halfway' => Halfway
    BY <2>2 DEF Halfway, Calibrating
  <2> QED
    BY <1>1, <1>2, <2>1, <2>2, <2>3, <2>4
       DEF Polarity, StillWhereItFlips, Waiting, Settled, Kept, Calibrating
<1> QED
  BY <1>3, <1>4, <1>5

\* The two measurements kept have the two polarities, so that the bridge is found.
LEMMA KeepingFindsTheBridge ==
  ASSUME PartInv, PulsesInOrder, Polarity, StillWhereItFlips, Waiting, Settled, Kept,
         KeepAfterSet \/ StoreOffset
  PROVE  /\ StoreOffset => offset' = Bridge
         /\ Polarity' /\ StillWhereItFlips' /\ Waiting' /\ Settled' /\ Kept'
<1>1. /\ UNCHANGED <<config, magnet, done, data, pending, continuous, engine, sensed>>
      /\ UNCHANGED <<triggered, owed, taken, old, counts>>
  BY DEF KeepAfterSet, StoreOffset, history, step, part
<1>2. OfPolarity(data.value)' <=> OfPolarity(data.value)
  BY <1>1 DEF OfPolarity
<1>3. Still' <=> Still
  BY <1>1 DEF Still
<1>4. CASE KeepAfterSet
  <2>1. Doing("keepSet") /\ Advance /\ afterSet' = data.value /\ failed' = failed
    BY <1>4 DEF KeepAfterSet, history
  <2>2. /\ \A what : Doing(what) <=> what = "keepSet"
        /\ \A what : Ahead(what) <=> what = "keepSet" \/ Ahead(what)'
        /\ ~Ahead("configure")' /\ ~Doing("keepSet")' /\ ~Doing("keepReset")'
        /\ ~Doing("acknowledge")' /\ ~Doing("await")' /\ ~Doing("burst")' /\ ~Doing("deliver")'
        /\ ~Doing("set")' /\ ~Doing("trigger")' /\ Ahead("reset")'
    BY <2>1, Onwards
  <2>3. Halfway' => Halfway
    BY <2>2 DEF Halfway, Calibrating
  <2>4. Calibrating => data.value = Field + Bridge
    BY <2>2 DEF Polarity, Kept, Halfway, Calibrating, OfPolarity
  <2> QED
    BY <1>1, <1>2, <1>3, <1>4, <2>1, <2>2, <2>3, <2>4
       DEF Polarity, StillWhereItFlips, Waiting, Settled, Kept, Calibrating, StoreOffset
<1>5. CASE StoreOffset
  <2>1. /\ Doing("keepReset") /\ Advance /\ afterSet' = afterSet
        /\ offset' = (afterSet + data.value) \div 2 /\ failed' = 0
    BY <1>5 DEF StoreOffset
  <2>2. /\ \A what : Doing(what) <=> what = "keepReset"
        /\ \A what : Ahead(what) <=> what = "keepReset" \/ Ahead(what)'
        /\ ~Ahead("configure")' /\ ~Doing("keepSet")' /\ ~Doing("keepReset")'
        /\ ~Doing("acknowledge")' /\ ~Doing("await")' /\ ~Doing("burst")' /\ ~Doing("deliver")'
        /\ ~Doing("trigger")' /\ Ahead("set")' /\ ~Ahead("reset")' /\ ~Ahead("keepSet")'
    BY <2>1, Onwards
  <2>3. Halfway /\ Calibrating /\ ~Ahead("keepSet") /\ ~Ahead("reset")
    BY <2>2 DEF Halfway, Calibrating
  <2>4. Still /\ done = 0 /\ magnet = -1
    BY <2>2, <2>3 DEF StillWhereItFlips, Polarity
  <2>5. afterSet = Field + Bridge /\ data.value = Bridge - Field
    BY <2>2, <2>3, <2>4 DEF Kept, OfPolarity
  <2>6. offset' = Bridge
    <3>1. (Field + Bridge) + (Bridge - Field) = 2 * Bridge
      BY ValuesAssumption
    <3>2. (2 * Bridge) \div 2 = Bridge
      BY ValuesAssumption
    <3> QED
      BY <2>1, <2>5, <3>1, <3>2
  <2>7. engine # "latch"
    BY <2>4 DEF PartInv, Owing, Still
  <2>8. Polarity'
    BY <1>1, <2>2, <2>4 DEF Polarity
  <2>9. Settled'
    BY <1>1, <2>2, <2>4, <2>7 DEF Settled
  <2> QED
    BY <1>1, <1>3, <2>1, <2>2, <2>3, <2>4, <2>5, <2>6, <2>8, <2>9
       DEF StillWhereItFlips, Waiting, Kept, Calibrating
<1> QED
  BY <1>4, <1>5

\* A sample is read from a part that is SET, unless a calibration has failed.
LEMMA ReadingKeepsPolarity ==
  ASSUME PartInv, PulsesInOrder, Polarity, StillWhereItFlips, Waiting, Settled, Kept,
         (CheckStatus /\ done # 0) \/ Burst \/ Deliver
  PROVE  Polarity' /\ StillWhereItFlips' /\ Waiting' /\ Settled' /\ Kept'
<1>1. /\ UNCHANGED <<config, magnet, done, data, pending, continuous, engine, sensed>>
      /\ UNCHANGED <<triggered, owed, taken, old, failed, afterSet>>
  BY DEF CheckStatus, Burst, Deliver, Keeps, history, step, part
<1>2. OfPolarity(data.value)' <=> OfPolarity(data.value)
  BY <1>1 DEF OfPolarity
<1>3. done \in {0, 1}
  BY DEF PartInv, TypeOK
<1>4. PICK h \in {"check", "burst", "deliver"} :
        /\ Doing(h) /\ Advance
        /\ h = "check" => done = 1 /\ counts' = counts
        /\ h = "burst" => counts' = data
  BY <1>3 DEF CheckStatus, Burst, Deliver, Keeps
<1>5. /\ \A what : Doing(what) <=> what = h
      /\ \A what : Ahead(what) <=> what = h \/ Ahead(what)'
      /\ ~Ahead("configure")' /\ ~Doing("keepSet")' /\ ~Doing("keepReset")'
      /\ ~Doing("await")' /\ ~Doing("set")' /\ ~Doing("trigger")'
      /\ ~Ahead("set") /\ ~Ahead("keepReset")
      /\ h # "burst" => ~Doing("acknowledge")'
      /\ h # "check" => ~Doing("burst")'
      /\ h # "burst" => ~Doing("deliver")'
  BY <1>4, Onwards
<1>6. ~Calibrating' /\ ~Halfway'
  BY <1>4, <1>5 DEF Halfway, Calibrating
<1>7. failed = 0 => magnet = 1
  BY <1>5 DEF Polarity
<1>8. Polarity'
  BY <1>1, <1>5, <1>6, <1>7 DEF Polarity
<1>9. Settled'
  BY <1>1, <1>2, <1>4, <1>5, <1>6 DEF Settled
<1>10. failed = 0 /\ h = "burst" /\ data.id > old => data.value = Field + Bridge
  BY <1>5, <1>7 DEF Settled, OfPolarity
<1> QED
  BY <1>1, <1>4, <1>5, <1>6, <1>7, <1>8, <1>9, <1>10
     DEF StillWhereItFlips, Waiting, Kept


\* Without automatic set/reset the offset in use stays the one due and the polarity
\* of what counts known, as long as no calibration is answered by a wrong measurement.
LEMMA CalibratedReadsKept ==
  ASSUME PartInv, PulsesInOrder, ManualReads, CalibratedReads, Next, config.automatic = 0
  PROVE  CalibratedReads'
<1>1. DriverTypes /\ TypeOK /\ LeftToDo
  BY DEF PartInv
<1>2. config' = config
  BY KindsOfStep
<1>3. SUFFICES ASSUME mistaken' = 0
               PROVE  /\ offset' = Due'
                      /\ Doing("softReset")' \/
                           (Polarity' /\ StillWhereItFlips' /\ Waiting' /\ Settled' /\ Kept')
  BY DEF CalibratedReads
<1>4. mistaken = 0
  <2>1. mistaken' = mistaken \/ AwaitDone
    BY DEF Next, Fmu, BeginStep, ReadPeriod, SenseState, LatchMeasurement, PublishLine, driver,
       Driver, BeginProbe, BeginReading, BeginCalibration, SoftReset, Configure, Pulse, Trigger,
       GiveUp, Acknowledge, SetContinuous, KeepAfterSet, StoreOffset, ClearOffset, CheckStatus,
       Burst, Deliver, Keeps, history
  <2>2. AwaitDone => mistaken' = 1 \/ mistaken' = mistaken
    BY DEF AwaitDone
  <2> QED
    BY <1>3, <2>1, <2>2
<1>5. /\ offset = Due
      /\ Doing("softReset") \/ (Polarity /\ StillWhereItFlips /\ Waiting /\ Settled /\ Kept)
  BY <1>4 DEF CalibratedReads
<1>6. ~ClearOffset
  <2>1. Doing("clearOffset") => Ahead("clearOffset")
    BY <1>1, DoingIsAhead
  <2> QED
    BY <2>1 DEF ClearOffset, PulsesInOrder
<1>7. UNCHANGED <<offset, calibrated>> \/ (StoreOffset /\ calibrated' = 1)
  BY <1>6 DEF Next, Fmu, BeginStep, ReadPeriod, SenseState, LatchMeasurement, PublishLine, driver,
     Driver, BeginProbe, BeginReading, BeginCalibration, SoftReset, Configure, Pulse, Trigger,
     AwaitDone, GiveUp, Acknowledge, SetContinuous, KeepAfterSet, StoreOffset, CheckStatus,
     Burst, Deliver, Keeps, history
<1>8. UNCHANGED <<offset, calibrated>> => offset' = Due'
  BY <1>2, <1>5 DEF Due
<1>9. CASE Fmu
  <2>1. UNCHANGED <<offset, calibrated, todo>>
    BY <1>9 DEF Fmu, BeginStep, ReadPeriod, SenseState, LatchMeasurement, PublishLine, driver,
       history
  <2>2. Doing("softReset")' <=> Doing("softReset")
    BY <2>1 DEF Doing
  <2> QED
    BY <1>5, <1>8, <1>9, <2>1, <2>2, FmuMeasuresThePolarity
<1>10. CASE Driver
  <2>1. CASE BeginProbe
    <3>1. todo' = Probe /\ UNCHANGED <<offset, calibrated>>
      BY <2>1 DEF BeginProbe, Keeps, history
    <3>2. Probe # <<>> /\ Head(Probe) = "softReset"
      BY <1>1, ProbeInOrder DEF DriverTypes
    <3> QED
      BY <1>8, <3>1, <3>2 DEF Doing
  <2>2. CASE SoftReset
    <3>1. UNCHANGED <<offset, calibrated>>
      BY <2>2 DEF SoftReset
    <3> QED
      BY <1>8, <2>2, <3>1, ResetStartsOver
  <2>3. CASE ~BeginProbe /\ ~SoftReset
    <3>1. ~Doing("softReset")
      <4>1. CASE todo = <<>>
        BY <4>1 DEF Doing
      <4>2. CASE todo # <<>>
        BY <1>10, <2>3, <4>2 DEF Driver, BeginProbe, BeginReading, BeginCalibration, Configure,
           Pulse, Trigger, AwaitDone, GiveUp, Acknowledge, SetContinuous, KeepAfterSet,
           StoreOffset, ClearOffset, CheckStatus, Burst, Deliver, Doing
      <4> QED
        BY <4>1, <4>2
    <3>2. Polarity /\ StillWhereItFlips /\ Waiting /\ Settled /\ Kept
      BY <1>5, <3>1
    <3>3. StoreOffset => offset' = Due'
      <4>1. StoreOffset => offset' = Bridge /\ calibrated' = 1
        BY <3>2, KeepingFindsTheBridge DEF StoreOffset
      <4> QED
        BY <1>2, <4>1 DEF Due
    <3>4. offset' = Due'
      BY <1>7, <1>8, <3>3
    <3>5. CASE BeginReading \/ BeginCalibration
      BY <3>2, <3>4, <3>5, BeginningOver
    <3>6. CASE GiveUp \/ (CheckStatus /\ done = 0)
      BY <3>2, <3>4, <3>6, BreakingOff
    <3>7. CASE \/ Configure
               \/ SetContinuous("stop", 0)
               \/ SetContinuous("start", config.continuous)
      BY <3>2, <3>4, <3>7, ModesKeepPolarity
    <3>8. CASE Pulse("set", 1) \/ Pulse("reset", -1)
      BY <3>2, <3>4, <3>8, PulsesKeepPolarity
    <3>9. CASE Trigger \/ AwaitDone \/ Acknowledge
      BY <1>3, <3>2, <3>4, <3>9, WaitsKeepPolarity
    <3>10. CASE KeepAfterSet \/ StoreOffset
      BY <3>2, <3>4, <3>10, KeepingFindsTheBridge
    <3>11. CASE (CheckStatus /\ done # 0) \/ Burst \/ Deliver
      BY <3>2, <3>4, <3>11, ReadingKeepsPolarity
    <3> QED
      BY <1>6, <1>10, <2>3, <3>5, <3>6, <3>7, <3>8, <3>9, <3>10, <3>11 DEF Driver
  <2> QED
    BY <2>1, <2>2, <2>3
<1> QED
  BY <1>9, <1>10 DEF Next

\* A part is found in any state, but the driver begins with its software reset.
LEMMA FieldInit == Init => FieldInv
<1> SUFFICES ASSUME Init PROVE FieldInv
  OBVIOUS
<1>1. PartInv /\ DriverTypes
  BY PartInit DEF PartInv
<1>2. /\ config.automatic \in {0, 1} /\ todo = Probe /\ probed = 0
      /\ offset = config.restored /\ calibrated = 0
  BY DEF Init
<1> DEFINE p == Probe
<1>3. /\ FlipsInOrder(p)
      /\ config.automatic = 1 =>
           /\ \A i \in 1 .. Len(p) : p[i] # "keepReset"
           /\ \E i \in 1 .. Len(p) : p[i] = "clearOffset"
      /\ config.automatic = 0 => \A i \in 1 .. Len(p) : p[i] # "clearOffset"
  BY <1>2, ProbeFlips
<1>4. p # <<>> /\ Head(p) = "softReset"
  BY <1>1, ProbeInOrder DEF DriverTypes
<1> HIDE DEF p
<1>5. todo = p
  BY <1>2 DEF p
<1>6. Doing("softReset")
  BY <1>4, <1>5 DEF Doing
<1>7. PulsesInOrder
  BY <1>3, <1>5 DEF PulsesInOrder, Ahead
<1>8. AutomaticReads
  BY <1>2, <1>3, <1>5, <1>6 DEF AutomaticReads, Ahead
<1>9. ManualReads
  BY <1>6 DEF ManualReads
<1>10. CalibratedReads
  BY <1>2, <1>6 DEF CalibratedReads, Due
<1> QED
  BY <1>1, <1>7, <1>8, <1>9, <1>10 DEF FieldInv

\* The invariant about what is read holds in every state.
THEOREM FieldInvariant == Spec => []FieldInv
<1>1. FieldInv /\ PartInv' /\ [Next]_vars => FieldInv'
  <2> SUFFICES ASSUME FieldInv, PartInv', [Next]_vars PROVE FieldInv'
    OBVIOUS
  <2>1. PartInv /\ PulsesInOrder /\ AutomaticReads /\ ManualReads /\ CalibratedReads
    BY DEF FieldInv
  <2>2. config.automatic \in {0, 1}
    BY <2>1 DEF PartInv, DriverTypes
  <2>3. CASE Next
    <3>1. PulsesInOrder'
      BY <2>1, <2>3, PulsesKept
    <3>2. config' = config
      BY <2>3, KindsOfStep
    <3>3. AutomaticReads'
      <4>1. CASE config.automatic = 1
        BY <2>1, <2>3, <4>1, AutomaticReadsKept
      <4> QED
        BY <3>2, <4>1 DEF AutomaticReads
    <3>4. ManualReads'
      <4>1. CASE config.automatic = 0
        BY <2>1, <2>3, <4>1, ManualReadsKept
      <4> QED
        BY <3>2, <4>1 DEF ManualReads
    <3>5. CalibratedReads'
      <4>1. CASE config.automatic = 0
        BY <2>1, <2>3, <4>1, CalibratedReadsKept
      <4> QED
        BY <3>2, <4>1 DEF CalibratedReads
    <3> QED
      BY <3>1, <3>3, <3>4, <3>5 DEF FieldInv
  <2>4. CASE UNCHANGED vars
    <3>1. UNCHANGED <<part, step, driver>>
      BY <2>4 DEF vars
    <3>2. /\ UNCHANGED <<magnet, done, data, pending, continuous, interrupt, automatic>>
          /\ UNCHANGED <<engine, sensed, triggered, owed, taken, line>>
          /\ UNCHANGED <<config, todo, probed, offset, afterSet, counts, sample>>
          /\ UNCHANGED <<old, mistaken, failed, calibrated>>
      BY <3>1 DEF part, step, driver, history
    <3>3. \A what : /\ Ahead(what)' <=> Ahead(what)
                    /\ Doing(what)' <=> Doing(what)
                    /\ Then(what)' <=> Then(what)
      BY <3>2 DEF Ahead, Doing, Then
    <3>4. PulsesInOrder'
      BY <2>1, <3>2, <3>3 DEF PulsesInOrder, FlipsInOrder, Later
    <3>5. AutomaticReads'
      BY <2>1, <3>2, <3>3 DEF AutomaticReads
    <3>6. OfPolarity(data.value)' <=> OfPolarity(data.value)
      BY <3>2 DEF OfPolarity
    <3>7. ManualReads'
      BY <2>1, <3>2, <3>3 DEF ManualReads, EitherPolarity
    <3>8. /\ Calibrating' <=> Calibrating
          /\ Halfway' <=> Halfway
          /\ Still' <=> Still
      BY <3>2, <3>3 DEF Calibrating, Halfway, Still
    <3>9. (Polarity /\ StillWhereItFlips)' <=> (Polarity /\ StillWhereItFlips)
      BY <3>2, <3>3, <3>8 DEF Polarity, StillWhereItFlips
    <3>10. (Waiting /\ Settled /\ Kept)' <=> (Waiting /\ Settled /\ Kept)
      BY <3>2, <3>3, <3>6, <3>8 DEF Waiting, Settled, Kept
    <3>11. Due' = Due
      BY <3>2 DEF Due
    <3>12. CalibratedReads'
      BY <2>1, <3>2, <3>3, <3>9, <3>10, <3>11 DEF CalibratedReads
    <3> QED
      BY <3>4, <3>5, <3>7, <3>12 DEF FieldInv
  <2> QED
    BY <2>3, <2>4
<1> QED
  BY <1>1, FieldInit, PartInvariant, PTL DEF Spec

\* What a caller is given is the field plus what the offset in use leaves of the
\* bridge's, in sign unless a calibration has failed, in magnitude always.
THEOREM SamplesAreTheFieldAlways == Spec => SamplesAreTheField
<1>1. FieldInv =>
        (Deliver /\ counts.id > old /\ (config.automatic = 1 \/ mistaken = 0) =>
           sample'.value - Uncorrected \in IF failed = 1 THEN {Field, -Field} ELSE {Field})
  <2> SUFFICES ASSUME FieldInv, Deliver, counts.id > old, config.automatic = 1 \/ mistaken = 0
               PROVE  sample'.value - Uncorrected \in
                        IF failed = 1 THEN {Field, -Field} ELSE {Field}
    OBVIOUS
  <2>1. /\ DriverTypes /\ LeftToDo /\ probed \in {0, 1}
        /\ AutomaticReads /\ ManualReads /\ CalibratedReads
    BY DEF FieldInv, PartInv, TypeOK
  <2>2. /\ Doing("deliver") /\ sample'.value = counts.value - offset
    BY DEF Deliver, Measurement
  <2>3. probed = 1 /\ ~Doing("softReset")
    <3>1. Ahead("deliver")
      BY <2>1, <2>2, DoingIsAhead
    <3> QED
      BY <2>1, <2>2, <3>1 DEF LeftToDo, Doing
  <2>4. CASE config.automatic = 1
    <3>1. counts.value = Field /\ offset = 0 /\ Uncorrected = 0
      BY <2>1, <2>3, <2>4 DEF AutomaticReads, Uncorrected
    <3>2. sample'.value - Uncorrected = Field
      BY <2>2, <3>1, ValuesAssumption
    <3> QED
      BY <3>2
  <2>5. CASE config.automatic # 1
    <3>1. config.automatic = 0 /\ mistaken = 0 /\ config.restored \in Int
      BY <2>1, <2>5 DEF DriverTypes
    <3>2. offset = Due /\ Kept
      BY <2>1, <2>3, <3>1 DEF CalibratedReads
    <3>3. Uncorrected = Bridge - offset /\ offset \in Int
      BY <2>1, <2>5, <3>2 DEF Uncorrected, DriverTypes
    <3>4. counts.value \in {Field + Bridge, Bridge - Field}
      BY <2>1, <2>3, <3>1 DEF ManualReads, EitherPolarity
    <3>5. failed # 1 => counts.value = Field + Bridge
      BY <2>1, <2>2, <3>2 DEF Kept, DriverTypes
    <3>6. /\ ((Field + Bridge) - offset) - (Bridge - offset) = Field
          /\ ((Bridge - Field) - offset) - (Bridge - offset) = -Field
      BY <3>3, ValuesAssumption
    <3>7. counts.value = Field + Bridge => sample'.value - Uncorrected = Field
      BY <2>2, <3>3, <3>6
    <3>8. counts.value = Bridge - Field => sample'.value - Uncorrected = -Field
      BY <2>2, <3>3, <3>6
    <3> QED
      BY <3>4, <3>5, <3>7, <3>8
  <2> QED
    BY <2>4, <2>5
<1>2. FieldInv /\ [Next]_vars =>
        [Deliver /\ counts.id > old /\ (config.automatic = 1 \/ mistaken = 0) =>
           sample'.value - Uncorrected \in IF failed = 1 THEN {Field, -Field} ELSE {Field}]_vars
  BY <1>1
<1> QED
  BY <1>2, FieldInvariant, PTL DEF Spec, SamplesAreTheField

\* Calibrated by the measurements it triggered, the driver uses the offset that is due.
THEOREM CalibrationFindsTheBridgeAlways == Spec => []CalibrationFindsTheBridge
<1>1. FieldInv => CalibrationFindsTheBridge
  <2> SUFFICES ASSUME FieldInv, mistaken = 0, probed = 1 PROVE offset = Due
    BY DEF CalibrationFindsTheBridge
  <2>1. config.automatic \in {0, 1}
    BY DEF FieldInv, PartInv, DriverTypes
  <2>2. CASE config.automatic = 1
    BY <2>2 DEF FieldInv, AutomaticReads, Due
  <2>3. CASE config.automatic = 0
    BY <2>3 DEF FieldInv, CalibratedReads
  <2> QED
    BY <2>1, <2>2, <2>3
<1> QED
  BY <1>1, FieldInvariant, PTL
=============================================================================

--------------------------- MODULE MonitorProofs ---------------------------
(***************************************************************************)
(* Safety of the monitor daemon for a stream of any length.  The invariant *)
(* locates every sample between the body and the file: the main thread,    *)
(* the forwarder, chanData and the decoder hold consecutive samples.       *)
(***************************************************************************)
EXTENDS Monitor, TLAPS, SequenceTheorems

Holding   == IF forwarder \in {"gather", "send"} THEN 1 ELSE 0
Pushing   == IF decoder = "push" THEN 1 ELSE 0

\* Where the samples are.
InFlight ==
  /\ decoded <= emitted
  /\ line = Len(file) \/ (main \in {"write", "panic"} /\ line = Len(file) + 1)
  /\ main = "write" => line = Len(file) + 1
  /\ Holding = 1 => held = line + 1
  /\ chanData # <<>> => chanData[1] = line + Holding + 1
  /\ decoded = line + Holding + Len(chanData) + Pushing

\* Who may still see the error caused by closing the body.
Closed ==
  /\ main = "start" => body = "none" /\ chanErr = "none" /\ decoder = "off"
                        /\ forwarder = "off"
  /\ main = "closeBody" => forwarder = "done"
  /\ body = "closed" => forwarder = "done" /\ main # "start"
  /\ chanErr = "closed" => body = "closed"
  /\ logged # "closed"

IInv == TypeOK /\ InFlight /\ LinesFollowStream /\ Closed

-----------------------------------------------------------------------------
\* A channel of capacity one holds nothing or its head alone.
LEMMA OneSlot ==
  ASSUME NEW S, NEW s \in Seq(S), Len(s) <= 1
  PROVE  /\ Len(s) \in {0, 1}
         /\ s = <<>> => Len(s) = 0
         /\ s # <<>> => Len(s) = 1 /\ s[1] \in S /\ Head(s) = s[1]
<1>1. Len(s) \in Nat
  OBVIOUS
<1>2. ASSUME s # <<>> PROVE Len(s) = 1 /\ s[1] \in S /\ Head(s) = s[1]
  <2>0. PICK n \in Nat : Len(s) = n /\ n # 0  BY <1>2, EmptySeq
  <2>1. n <= 1  BY <2>0
  <2>2. n = 1  BY <2>0, <2>1
  <2>3. s[1] \in S  BY <2>0, <2>2, ElementOfSeq
  <2>4. Head(s) = s[1]  BY <1>2
  <2> QED  BY <2>0, <2>2, <2>3, <2>4
<1>3. Len(<<>>) = 0
  BY EmptySeq
<1>4. CASE s = <<>>   BY <1>3, <1>4
<1>5. CASE s # <<>>   BY <1>2, <1>5
<1> QED  BY <1>4, <1>5

\* A sequence of one element.
LEMMA Single ==
  ASSUME NEW S, NEW e \in S
  PROVE  <<e>> \in Seq(S) /\ Len(<<e>>) = 1 /\ <<e>>[1] = e
  OBVIOUS

\* What the invariant says of the numbers and of chanData, as the steps use
\* it.
LEMMA Facts ==
  ASSUME IInv
  PROVE  /\ emitted \in Nat /\ decoded \in Nat /\ Len(file) \in Nat
         /\ emitted <= MaxSamples
         /\ chanData # <<>> => Len(chanData) = 1 /\ chanData[1] \in Samples
                              /\ Head(chanData) = chanData[1]
         /\ chanData = <<>> => Len(chanData) = 0
         /\ Len(chanData) \in {0, 1}
         /\ decoder = "push" => decoded \in Samples
         /\ main = "write" => line \in Samples
         /\ Holding \in {0, 1} /\ Pushing \in {0, 1} /\ line \in Nat
<1>1. /\ emitted \in Nat /\ decoded \in Nat /\ Len(file) \in Nat
      /\ emitted <= MaxSamples /\ MaxSamples \in Nat
      /\ chanData \in Seq(Samples) /\ Len(chanData) <= 1
  BY MaxSamplesAssumption DEF IInv, TypeOK
<1>2. /\ chanData # <<>> => Len(chanData) = 1 /\ chanData[1] \in Samples
                           /\ Head(chanData) = chanData[1]
      /\ chanData = <<>> => Len(chanData) = 0
      /\ Len(chanData) \in {0, 1}
  BY <1>1, OneSlot
<1>3. /\ decoded <= emitted /\ line \in {Len(file), Len(file) + 1}
      /\ main = "write" => line = Len(file) + 1
      /\ decoded = line + Holding + Len(chanData) + Pushing
  BY DEF IInv, InFlight
<1>4. /\ Holding \in {0, 1} /\ Pushing \in {0, 1}
      /\ decoder = "push" => Pushing = 1
  BY DEF Holding, Pushing
<1>5. /\ line \in Nat
      /\ decoder = "push" => decoded >= 1
      /\ main = "write" => line >= 1 /\ line <= decoded
  BY <1>1, <1>2, <1>3, <1>4
<1>6. /\ decoder = "push" => decoded \in Samples
      /\ main = "write" => line \in Samples
  BY <1>1, <1>3, <1>5 DEF Samples
<1> QED  BY <1>1, <1>2, <1>3, <1>4, <1>5, <1>6

\* The typing of the variables and the place of every sample hold initially.
LEMMA InitIInv == Init => IInv
<1> SUFFICES ASSUME Init PROVE IInv
  OBVIOUS
<1> USE DEF Init
<1>0. <<>> \in Seq(Samples) /\ Len(<<>>) = 0
  OBVIOUS
<1>1. TypeOK
  <2>1. chanData \in Seq(Samples) /\ Len(chanData) <= 1 /\ file \in Seq(Samples)
    BY <1>0
  <2>2. /\ emitted \in 0 .. MaxSamples /\ decoded \in 0 .. MaxSamples
        /\ held \in 0 .. MaxSamples /\ line \in 0 .. MaxSamples
    BY MaxSamplesAssumption
  <2>3. /\ body \in {"none", "open", "broken", "closed"}
        /\ decoder \in {"off", "decode", "push", "report", "done"}
        /\ chanErr \in {"none", "broken", "closed"}
        /\ forwarder \in {"off", "select", "gather", "send", "done"}
        /\ logged \in {"none", "broken", "closed"}
        /\ closing \in BOOLEAN /\ sigterm \in BOOLEAN /\ main \in Main
    BY DEF Main
  <2> QED  BY <2>1, <2>2, <2>3 DEF TypeOK
<1>2. InFlight
  BY <1>0 DEF InFlight, Holding, Pushing
<1>3. LinesFollowStream /\ Closed
  BY <1>0 DEF LinesFollowStream, Closed
<1> QED  BY <1>1, <1>2, <1>3 DEF IInv

\* Every step keeps the typing; a sample is numbered between 1 and emitted.
LEMMA NextTypeOK == IInv /\ [Next]_vars => TypeOK'
<1> SUFFICES ASSUME IInv, [Next]_vars PROVE TypeOK'
  OBVIOUS
<1>0. TypeOK /\ MaxSamples \in Nat
  BY MaxSamplesAssumption DEF IInv
<1> USE <1>0 DEF TypeOK, Main, docker, decVars, fwdVars, outVars
<1>1. CASE Emit
  BY <1>1 DEF Emit
<1>2. CASE Break
  BY <1>2 DEF Break
<1>3. CASE Signal
  BY <1>3 DEF Signal
<1>4. CASE DecodeSample
  BY <1>4, Facts DEF DecodeSample
<1>5. CASE PushSample
  <2>1. decoded \in Samples
    BY <1>5, Facts DEF PushSample
  <2>2. <<decoded>> \in Seq(Samples) /\ Len(<<decoded>>) = 1
    BY <2>1, Single
  <2> QED  BY <1>5, <2>2 DEF PushSample
<1>6. CASE DecodeError
  BY <1>6 DEF DecodeError
<1>7. CASE TakeClosing
  BY <1>7 DEF TakeClosing
<1>8. CASE TakeError
  BY <1>8 DEF TakeError
<1>9. CASE TakeSample
  <2>1. Head(chanData) \in 0 .. MaxSamples
    BY <1>9, Facts DEF TakeSample, Samples
  <2>2. <<>> \in Seq(Samples) /\ Len(<<>>) = 0
    OBVIOUS
  <2> QED  BY <1>9, <2>1, <2>2 DEF TakeSample
<1>10. CASE GatherNetworkStats
  BY <1>10 DEF GatherNetworkStats
<1>11. CASE Start
  BY <1>11 DEF Start
<1>12. CASE StartFails
  BY <1>12 DEF StartFails
<1>13. CASE Deliver
  BY <1>13 DEF Deliver
<1>14. CASE WriteLine
  <2>1. Append(file, line) \in Seq(Samples)
    BY <1>14, Facts DEF WriteLine
  <2> QED  BY <1>14, <2>1 DEF WriteLine
<1>15. CASE TakeSignal
  BY <1>15 DEF TakeSignal
<1>16. CASE StopClosing
  BY <1>16 DEF StopClosing
<1>17. CASE StopWait
  BY <1>17 DEF StopWait
<1>18. CASE StopCloseBody
  BY <1>18 DEF StopCloseBody
<1>19. CASE CloseFile
  BY <1>19 DEF CloseFile
<1>20. CASE Panic
  BY <1>20 DEF Panic
<1>21. CASE UNCHANGED vars
  BY <1>21 DEF vars
<1> QED
  BY <1>1, <1>2, <1>3, <1>4, <1>5, <1>6, <1>7, <1>8, <1>9, <1>10, <1>11,
     <1>12, <1>13, <1>14, <1>15, <1>16, <1>17, <1>18, <1>19, <1>20, <1>21
  DEF Next, Decoder, Forwarder, MainSteps

\* Every step leaves the samples in flight consecutive.
LEMMA NextInFlight == IInv /\ [Next]_vars => InFlight'
<1> SUFFICES ASSUME IInv, [Next]_vars PROVE InFlight'
  OBVIOUS
<1>0. InFlight /\ Closed
  BY DEF IInv
<1> USE <1>0, Facts
    DEF InFlight, Holding, Pushing, docker, decVars, fwdVars,
        outVars
<1>1. CASE Emit
  BY <1>1 DEF Emit
<1>2. CASE Break
  BY <1>2 DEF Break
<1>3. CASE Signal
  BY <1>3 DEF Signal
<1>4. CASE DecodeSample
  BY <1>4 DEF DecodeSample
<1>5. CASE PushSample
  <2>1. Len(<<decoded>>) = 1 /\ <<decoded>>[1] = decoded
    BY Single
  <2> QED  BY <1>5, <2>1 DEF PushSample
<1>6. CASE DecodeError
  BY <1>6 DEF DecodeError
<1>7. CASE TakeClosing
  BY <1>7 DEF TakeClosing
<1>8. CASE TakeError
  BY <1>8 DEF TakeError
<1>9. CASE TakeSample
  <2>1. Len(<<>>) = 0
    BY EmptySeq
  <2>2. held' = line + 1 /\ Len(chanData) = 1 /\ Len(chanData') = 0
    BY <1>9, <2>1 DEF TakeSample
  <2> QED  BY <1>9, <2>2 DEF TakeSample
<1>10. CASE GatherNetworkStats
  BY <1>10 DEF GatherNetworkStats
<1>11. CASE Start
  BY <1>11 DEF Start, Closed
<1>12. CASE StartFails
  BY <1>12 DEF StartFails
<1>13. CASE Deliver
  BY <1>13 DEF Deliver
<1>14. CASE WriteLine
  <2>1. Len(Append(file, line)) = Len(file) + 1
    BY DEF IInv, TypeOK
  <2> QED  BY <1>14, <2>1 DEF WriteLine
<1>15. CASE TakeSignal
  BY <1>15 DEF TakeSignal
<1>16. CASE StopClosing
  BY <1>16 DEF StopClosing
<1>17. CASE StopWait
  BY <1>17 DEF StopWait
<1>18. CASE StopCloseBody
  BY <1>18 DEF StopCloseBody
<1>19. CASE CloseFile
  BY <1>19 DEF CloseFile
<1>20. CASE Panic
  BY <1>20 DEF Panic
<1>21. CASE UNCHANGED vars
  BY <1>21 DEF vars
<1> QED
  BY <1>1, <1>2, <1>3, <1>4, <1>5, <1>6, <1>7, <1>8, <1>9, <1>10, <1>11,
     <1>12, <1>13, <1>14, <1>15, <1>16, <1>17, <1>18, <1>19, <1>20, <1>21
  DEF Next, Decoder, Forwarder, MainSteps

\* Every step keeps the error of a closed body away from the forwarder.
LEMMA NextClosed == IInv /\ [Next]_vars => Closed'
<1> SUFFICES ASSUME IInv, [Next]_vars PROVE Closed'
  OBVIOUS
<1> USE DEF IInv, Closed, docker, decVars, fwdVars, outVars
<1>1. CASE Emit
  BY <1>1 DEF Emit
<1>2. CASE Break
  BY <1>2 DEF Break
<1>3. CASE Signal
  BY <1>3 DEF Signal
<1>4. CASE DecodeSample
  BY <1>4 DEF DecodeSample
<1>5. CASE PushSample
  BY <1>5 DEF PushSample
<1>6. CASE DecodeError
  BY <1>6 DEF DecodeError
<1>7. CASE TakeClosing
  BY <1>7 DEF TakeClosing
<1>8. CASE TakeError
  BY <1>8 DEF TakeError
<1>9. CASE TakeSample
  BY <1>9 DEF TakeSample
<1>10. CASE GatherNetworkStats
  BY <1>10 DEF GatherNetworkStats
<1>11. CASE Start
  BY <1>11 DEF Start
<1>12. CASE StartFails
  BY <1>12 DEF StartFails
<1>13. CASE Deliver
  BY <1>13 DEF Deliver
<1>14. CASE WriteLine
  BY <1>14 DEF WriteLine
<1>15. CASE TakeSignal
  BY <1>15 DEF TakeSignal
<1>16. CASE StopClosing
  BY <1>16 DEF StopClosing
<1>17. CASE StopWait
  BY <1>17 DEF StopWait
<1>18. CASE StopCloseBody
  BY <1>18 DEF StopCloseBody
<1>19. CASE CloseFile
  BY <1>19 DEF CloseFile
<1>20. CASE Panic
  BY <1>20 DEF Panic
<1>21. CASE UNCHANGED vars
  BY <1>21 DEF vars
<1> QED
  BY <1>1, <1>2, <1>3, <1>4, <1>5, <1>6, <1>7, <1>8, <1>9, <1>10, <1>11,
     <1>12, <1>13, <1>14, <1>15, <1>16, <1>17, <1>18, <1>19, <1>20, <1>21
  DEF Next, Decoder, Forwarder, MainSteps

\* Only WriteLine changes the file, and it appends the next sample.
LEMMA NextLines == IInv /\ [Next]_vars => LinesFollowStream'
<1> SUFFICES ASSUME IInv, [Next]_vars PROVE LinesFollowStream'
  OBVIOUS
<1>1. CASE WriteLine
  <2>1. file \in Seq(Samples) /\ file' = Append(file, Len(file) + 1)
    BY <1>1 DEF WriteLine, IInv, TypeOK, InFlight
  <2>2. \A i \in 1 .. Len(file) : file[i] = i
    BY DEF IInv, LinesFollowStream
  <2> QED  BY <2>1, <2>2 DEF LinesFollowStream
<1>2. CASE UNCHANGED file
  BY <1>2 DEF IInv, LinesFollowStream
<1> QED
  BY <1>1, <1>2
  DEF Next, Decoder, Forwarder, MainSteps, Emit, Break, Signal, DecodeSample,
      PushSample, DecodeError, TakeClosing, TakeError, TakeSample,
      GatherNetworkStats, Start, StartFails, Deliver, TakeSignal, StopClosing,
      StopWait, StopCloseBody, CloseFile, Panic, vars, outVars

\* IInv is an invariant of the daemon.
LEMMA Invariance == Spec => []IInv
<1>1. IInv /\ [Next]_vars => IInv'
  BY NextTypeOK, NextInFlight, NextClosed, NextLines DEF IInv
<1> QED  BY InitIInv, <1>1, PTL DEF Spec

-----------------------------------------------------------------------------
\* Every variable keeps its type; in particular neither channel ever holds
\* more than its capacity.
THEOREM TypeCorrect == Spec => []TypeOK
<1>1. IInv => TypeOK  BY DEF IInv
<1> QED  BY <1>1, Invariance, PTL

\* The file is a gapless prefix of the stats stream, whatever the threads do.
THEOREM FileFollowsStream == Spec => []LinesFollowStream
<1>1. IInv => LinesFollowStream  BY DEF IInv
<1> QED  BY <1>1, Invariance, PTL

\* Stop never makes the forwarder print the error of the body it closes.
THEOREM StopIsSilent == Spec => []NoMisleadingError
<1>1. IInv => NoMisleadingError  BY DEF IInv, Closed, NoMisleadingError
<1> QED  BY <1>1, Invariance, PTL

\* At most four samples are ever between the body and the file.
THEOREM LagBounded == Spec => []BackPressure
<1>1. ASSUME IInv PROVE BackPressure
  <2>1. PICK n \in {0, 1} : n = Len(chanData)
    BY <1>1, Facts
  <2>2. PICK h \in {0, 1}, p \in {0, 1} : h = Holding /\ p = Pushing
    BY <1>1, Facts
  <2>3. PICK f \in Nat : f = Len(file)
    BY <1>1, Facts
  <2>4. decoded = line + h + n + p /\ line \in {f, f + 1}
    BY <1>1, <2>1, <2>2, <2>3 DEF IInv, InFlight
  <2>5. decoded <= f + 4
    BY <2>4
  <2> QED  BY <2>3, <2>5 DEF BackPressure
<1> QED  BY <1>1, Invariance, PTL

\* The three threads together implement the abstract pipe.
THEOREM ImplementsPipe == Spec => PipeSpec
<1>1. Init => Pipe!Init
  BY DEF Init, Pipe!Init
<1>2. IInv /\ [Next]_vars => [Pipe!Next]_<<emitted, file>>
  <2> SUFFICES ASSUME IInv, [Next]_vars PROVE [Pipe!Next]_<<emitted, file>>
    OBVIOUS
  <2>1. CASE Emit
    BY <2>1 DEF Emit, Pipe!Next, Pipe!Sample, outVars
  <2>2. CASE WriteLine
    <3>0. /\ line = Len(file) + 1 /\ decoded <= emitted
          /\ decoded = line + Holding + Len(chanData) + Pushing
      BY <2>2 DEF WriteLine, IInv, InFlight
    <3>1. line = Len(file) + 1 /\ Len(file) < emitted /\ Len(file) \in Nat
      BY <3>0, Facts
    <3> QED  BY <2>2, <3>1 DEF WriteLine, Pipe!Next, Pipe!Write, docker
  <2>3. CASE UNCHANGED <<emitted, file>>
    BY <2>3
  <2> QED
    BY <2>1, <2>2, <2>3
    DEF Next, Decoder, Forwarder, MainSteps, Break, Signal, DecodeSample,
        PushSample, DecodeError, TakeClosing, TakeError, TakeSample,
        GatherNetworkStats, Start, StartFails, Deliver, TakeSignal,
        StopClosing, StopWait, StopCloseBody, CloseFile, Panic, vars, docker,
        outVars
<1> QED  BY <1>1, <1>2, Invariance, PTL DEF Spec, PipeSpec, Pipe!Spec
=============================================================================

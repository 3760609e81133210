------------------------- MODULE DebugSessionProofs -------------------------
(***************************************************************************)
(* Proofs about DebugSession for every set of tasks and addresses, every   *)
(* number of triggers and every bound: types, exclusion on the link and    *)
(* the account of replies first; then that the adapter and the target      *)
(* agree on whether the target runs, that DebugSession implements          *)
(* RunControl and that every request is answered once.                     *)
(***************************************************************************)
EXTENDS DebugSession, FiniteSetTheorems, TLAPS

Busy(t) == task[t] \in {"send", "await"}
NoneBusy == \A t \in Task : ~Busy(t)

Commands == {"local", "launch", "attach", "inspect", "setBreakpoints",
             "configurationDone", "continue", "step", "pause", "disconnect"}

(* The handler that runs is the one of the request that was read.          *)
InHandler ==
  /\ pc \in Commands => req.cmd = pc
  /\ pc = "leave" => req.cmd = "disconnect"
  /\ pc = "awaitArm" => lines # <<>> /\ Head(lines) \in Address

(* _rsp is assigned once, by the launch or attach that comes first.        *)
ConnectOnce ==
  /\ client = "new" => ~rsp
  /\ pc \in {"launch", "attach", "connect"} => ~rsp /\ client # "new"

(* _running is set for as long as a task is inside its exchange, and only  *)
(* on a link that exists; HandleDisconnect's copy errs on the safe side.   *)
RunningGuards ==
  /\ (\E t \in Task : Busy(t)) => running /\ rsp
  /\ pc = "leave" /\ ~wasRunning => NoneBusy

IInv == TypeOK /\ InHandler /\ ConnectOnce /\ RunningGuards /\ ExclusiveExchange

-----------------------------------------------------------------------------
LEMMA LinesAreSeqs == Lines \subseteq Seq(Address \cup {Unmapped})
  BY ConstantsAssumption

LEMMA EmptyIsSeq == ASSUME NEW S PROVE <<>> \in Seq(S)
  OBVIOUS

LEMMA InitIInv == Init => IInv
  <1> SUFFICES ASSUME Init PROVE IInv
    OBVIOUS
  <1>1. AdapterType
    BY EmptyIsSeq DEF Init, AdapterType
  <1>2. ThreadType
    BY EmptyIsSeq DEF Init, ThreadType, Request, ControlPoint
  <1>3. TaskType
    BY DEF Init, TaskType
  <1>4. WireType /\ StubType /\ FrontType
    BY EmptyIsSeq DEF Init, WireType, StubType, FrontType
  <1>5. InHandler /\ ConnectOnce
    BY DEF Init, InHandler, ConnectOnce, Commands
  <1>6. RunningGuards /\ ExclusiveExchange
    BY DEF Init, RunningGuards, ExclusiveExchange, Busy, NoneBusy, Exchanging
  <1> QED
    BY <1>1, <1>2, <1>3, <1>4, <1>5, <1>6 DEF IInv, TypeOK

LEMMA SeqFacts ==
  ASSUME NEW S, NEW s \in Seq(S)
  PROVE  /\ s # <<>> => Head(s) \in S /\ Tail(s) \in Seq(S)
         /\ \A x \in S : Append(s, x) \in Seq(S)
  OBVIOUS

LEMMA Packets ==
  /\ \A op \in {"qSupported", "QStartNoAckMode", "?", "read", "c", "s", "D", "k", "0x03"} :
       Plain(op) \in Packet
  /\ \A a \in Address : Arm(a) \in Packet /\ Disarm(a) \in Packet
  BY DEF Packet

LEMMA ArmPackets ==
  ASSUME NEW p \in Packet, p.op \in {"Z1", "z1"}
  PROVE  p.at \in Address
  BY DEF Packet, Plain, Arm, Disarm

LEMMA WriteType ==
  ASSUME toStub \in Seq(Packet), NEW p \in Packet, Write(p)
  PROVE  toStub' \in Seq(Packet)
  BY SeqFacts DEF Write

LEMMA ReceivedType ==
  ASSUME toAdapter \in Seq(Reply), NEW reply, Received(reply)
  PROVE  toAdapter' \in Seq(Reply)
  BY SeqFacts DEF Received

LEMMA ServingType ==
  ASSUME toStub \in Seq(Packet), NEW op, Serving(op)
  PROVE  toStub' \in Seq(Packet) /\ Head(toStub) \in Packet
  BY SeqFacts DEF Serving

LEMMA SendReplyType ==
  ASSUME toAdapter \in Seq(Reply), NEW reply \in Reply, SendReply(reply)
  PROVE  toAdapter' \in Seq(Reply)
  BY SeqFacts DEF SendReply

LEMMA RequestFields ==
  ASSUME NEW r \in Request
  PROVE  /\ r.cmd \in Commands
         /\ r.cmd \in {"launch", "attach"} => r.entry \in BOOLEAN
         /\ r.cmd = "inspect" => r.reads \in Nat
         /\ r.cmd = "setBreakpoints" => r.lines \in Seq(Address \cup {Unmapped})
  BY LinesAreSeqs, ConstantsAssumption DEF Request, Commands

LEMMA TypesPreserved == ASSUME IInv, Next PROVE TypeOK'
  <1> USE DEF IInv, TypeOK, AdapterType, ThreadType, TaskType, WireType,
             StubType, FrontType, ControlPoint, adapter, thread, wire, stub,
             front, Respond, Tell, Caught, Halted, Resume, Break, More
  <1>1. ASSUME NEW r \in Request, ReadMessage(r) PROVE TypeOK'
    <2>1. pc' \in ControlPoint /\ lines' \in Seq(Address \cup {Unmapped})
      BY <1>1, RequestFields, EmptyIsSeq DEF ReadMessage, Commands
    <2>2. FrontType'
      BY <1>1 DEF ReadMessage
    <2> QED
      BY <1>1, <2>1, <2>2, EmptyIsSeq DEF ReadMessage
  <1>2. CASE ReadEndOfStream
    BY <1>2, EmptyIsSeq, SeqFacts, Packets, WriteType, ReceivedType, ServingType,
       SendReplyType DEF ReadEndOfStream
  <1>3. CASE HandleLocal
    BY <1>3, EmptyIsSeq, SeqFacts, Packets, WriteType, ReceivedType, ServingType,
       SendReplyType DEF HandleLocal
  <1>4. CASE HandleLaunch
    <2>1. req.entry \in BOOLEAN
      BY <1>4, RequestFields DEF HandleLaunch, InHandler, Commands
    <2>2. AdapterType' /\ ThreadType'
      BY <1>4, <2>1 DEF HandleLaunch
    <2> QED
      BY <1>4, <2>2 DEF HandleLaunch
  <1>5. CASE HandleLaunchFails
    <2>1. req.entry \in BOOLEAN
      BY <1>5, RequestFields DEF HandleLaunchFails, InHandler, Commands
    <2> QED
      BY <1>5, <2>1 DEF HandleLaunchFails
  <1>6. CASE HandleAttach
    <2>1. req.entry \in BOOLEAN
      BY <1>6, RequestFields DEF HandleAttach, InHandler, Commands
    <2> QED
      BY <1>6, <2>1 DEF HandleAttach
  <1>7. CASE TryConnect
    <2>1. script' \in Seq(Packet)
      <3>1. script' = <<Plain("qSupported"), Plain("QStartNoAckMode"), Plain("?")>>
        BY <1>7 DEF TryConnect, Negotiation
      <3> QED
        BY <3>1, Packets
    <2> QED
      BY <1>7, <2>1 DEF TryConnect
  <1>8. CASE TryConnectTimesOut
    BY <1>8, EmptyIsSeq, SeqFacts, Packets, WriteType, ReceivedType, ServingType,
       SendReplyType DEF TryConnectTimesOut
  <1>9. CASE SendPacket
    BY <1>9, EmptyIsSeq, SeqFacts, Packets, WriteType, ReceivedType, ServingType,
       SendReplyType DEF SendPacket
  <1>10. CASE ExchangeFails
    BY <1>10, EmptyIsSeq, SeqFacts, Packets, WriteType, ReceivedType, ServingType,
       SendReplyType DEF ExchangeFails
  <1>11. CASE NegotiateReply
    BY <1>11, EmptyIsSeq, SeqFacts, Packets, WriteType, ReceivedType, ServingType,
       SendReplyType DEF NegotiateReply
  <1>12. CASE RequireHaltedFails
    BY <1>12, EmptyIsSeq, SeqFacts, Packets, WriteType, ReceivedType, ServingType,
       SendReplyType DEF RequireHaltedFails
  <1>13. CASE HandleInspect
    <2>1. script' \in Seq(Packet)
      <3>1. req.reads \in Nat
        BY <1>13, RequestFields DEF HandleInspect, InHandler, Commands
      <3>2. Plain("read") \in Packet
        BY Packets
      <3>3. ASSUME NEW n \in Nat PROVE [i \in 1..n |-> Plain("read")] \in Seq(Packet)
        BY <3>2
      <3> QED
        BY <1>13, <3>1, <3>3 DEF HandleInspect
    <2> QED
      BY <1>13, <2>1 DEF HandleInspect
  <1>14. CASE InspectReply
    BY <1>14, EmptyIsSeq, SeqFacts, Packets, WriteType, ReceivedType, ServingType,
       SendReplyType DEF InspectReply
  <1>15. CASE HandleSetBreakpoints
    <2>1. script' \in Seq(Packet)
      <3>1. \A i \in 1..Len(armed) : Disarm(armed[i]) \in Packet
        BY Packets
      <3>2. [i \in 1..Len(armed) |-> Disarm(armed[i])] \in Seq(Packet)
        BY <3>1
      <3>3. DOMAIN armed = 1..Len(armed)
        OBVIOUS
      <3> QED
        BY <1>15, <3>2, <3>3 DEF HandleSetBreakpoints
    <2> QED
      BY <1>15, <2>1 DEF HandleSetBreakpoints
  <1>16. CASE ClearBreakpointReply
    BY <1>16, EmptyIsSeq, SeqFacts, Packets, WriteType, ReceivedType, ServingType,
       SendReplyType DEF ClearBreakpointReply
  <1>17. CASE SkipLine
    BY <1>17, EmptyIsSeq, SeqFacts, Packets, WriteType, ReceivedType, ServingType,
       SendReplyType DEF SkipLine
  <1>18. CASE TrySetBreakpoint
    BY <1>18, EmptyIsSeq, SeqFacts, Packets, WriteType, ReceivedType, ServingType,
       SendReplyType DEF TrySetBreakpoint
  <1>19. CASE SetBreakpointReply
    <2>1. Head(lines) \in Address /\ Tail(lines) \in Seq(Address \cup {Unmapped})
      BY <1>19, SeqFacts DEF SetBreakpointReply, InHandler
    <2>2. armed' \in Seq(Address)
      BY <1>19, <2>1, SeqFacts DEF SetBreakpointReply
    <2> QED
      BY <1>19, <2>1, <2>2, ReceivedType DEF SetBreakpointReply
  <1>20. CASE SetBreakpointsDone
    BY <1>20, EmptyIsSeq, SeqFacts, Packets, WriteType, ReceivedType, ServingType,
       SendReplyType DEF SetBreakpointsDone
  <1>21. CASE HandleConfigurationDone
    BY <1>21, EmptyIsSeq, SeqFacts, Packets, WriteType, ReceivedType, ServingType,
       SendReplyType DEF HandleConfigurationDone
  <1>22. CASE HandleContinue
    BY <1>22, EmptyIsSeq, SeqFacts, Packets, WriteType, ReceivedType, ServingType,
       SendReplyType DEF HandleContinue
  <1>23. CASE StartResume
    <2>1. task' \in [Task -> {"idle", "send", "await", "report", "exiting", "ending"}]
      BY <1>23 DEF StartResume
    <2>2. AdapterType'
      BY <1>23 DEF StartResume
    <2> QED
      BY <1>23, <2>1, <2>2 DEF StartResume
  <1>24. CASE HandleStep
    BY <1>24, EmptyIsSeq, SeqFacts, Packets, WriteType, ReceivedType, ServingType,
       SendReplyType DEF HandleStep
  <1>25. CASE StepReply
    <2>1. toAdapter' \in Seq(Reply)
      BY <1>25, ReceivedType DEF StepReply
    <2>2. AdapterType'
      BY <1>25 DEF StepReply
    <2>3. ThreadType'
      BY <1>25 DEF StepReply
    <2>4. FrontType'
      BY <1>25 DEF StepReply
    <2> QED
      BY <1>25, <2>1, <2>2, <2>3, <2>4 DEF StepReply
  <1>26. CASE HandlePause
    BY <1>26, EmptyIsSeq, SeqFacts, Packets, WriteType, ReceivedType, ServingType,
       SendReplyType DEF HandlePause
  <1>27. CASE Interrupt
    BY <1>27, EmptyIsSeq, SeqFacts, Packets, WriteType, ReceivedType, ServingType,
       SendReplyType DEF Interrupt
  <1>28. CASE HandleDisconnect
    BY <1>28, EmptyIsSeq, SeqFacts, Packets, WriteType, ReceivedType, ServingType,
       SendReplyType DEF HandleDisconnect
  <1>29. CASE Leave
    <2>1. script' \in Seq(Packet)
      <3>1. <<Plain("D")>> \in Seq(Packet)
        BY Packets
      <3> QED
        BY <1>29, <3>1 DEF Leave
    <2>2. ThreadType'
      BY <1>29, <2>1 DEF Leave
    <2> QED
      BY <1>29, <2>2 DEF Leave
  <1>30. CASE Kill
    BY <1>30, EmptyIsSeq, SeqFacts, Packets, WriteType, ReceivedType, ServingType,
       SendReplyType DEF Kill
  <1>31. CASE DetachReply
    BY <1>31, EmptyIsSeq, SeqFacts, Packets, WriteType, ReceivedType, ServingType,
       SendReplyType DEF DetachReply
  <1>32. CASE DetachFails
    BY <1>32, EmptyIsSeq, SeqFacts, Packets, WriteType, ReceivedType, ServingType,
       SendReplyType DEF DetachFails
  <1>33. CASE AnswerDisconnect
    BY <1>33, EmptyIsSeq, SeqFacts, Packets, WriteType, ReceivedType, ServingType,
       SendReplyType DEF AnswerDisconnect
  <1>34. CASE Cleanup
    BY <1>34, EmptyIsSeq, SeqFacts, Packets, WriteType, ReceivedType, ServingType,
       SendReplyType DEF Cleanup
  <1>35. CASE ReapSimulator
    BY <1>35, EmptyIsSeq, SeqFacts, Packets, WriteType, ReceivedType, ServingType,
       SendReplyType DEF ReapSimulator
  <1>36. ASSUME NEW t \in Task, TaskSend(t) PROVE TypeOK'
    <2>1. toStub' \in Seq(Packet)
      BY <1>36, Packets, WriteType DEF TaskSend
    <2>2. task' \in [Task -> {"idle", "send", "await", "report", "exiting", "ending"}]
      BY <1>36 DEF TaskSend
    <2> QED
      BY <1>36, <2>1, <2>2 DEF TaskSend
  <1>37. ASSUME NEW t \in Task, TaskStopped(t) PROVE TypeOK'
    <2>1. toAdapter' \in Seq(Reply)
      BY <1>37, ReceivedType DEF TaskStopped
    <2>2. task' \in [Task -> {"idle", "send", "await", "report", "exiting", "ending"}]
      BY <1>37 DEF TaskStopped
    <2>3. AdapterType'
      BY <1>37 DEF TaskStopped
    <2>4. WireType'
      BY <1>37, <2>1 DEF TaskStopped
    <2> QED
      BY <1>37, <2>2, <2>3, <2>4 DEF TaskStopped
  <1>38. ASSUME NEW t \in Task, TaskReport(t) PROVE TypeOK'
    BY <1>38, EmptyIsSeq, SeqFacts, Packets, WriteType, ReceivedType, ServingType,
       SendReplyType DEF TaskReport
  <1>39. ASSUME NEW t \in Task, TaskExited(t) PROVE TypeOK'
    <2>1. toAdapter' \in Seq(Reply)
      BY <1>39, ReceivedType DEF TaskExited
    <2>2. task' \in [Task -> {"idle", "send", "await", "report", "exiting", "ending"}]
      BY <1>39 DEF TaskExited
    <2>3. AdapterType'
      BY <1>39 DEF TaskExited
    <2>4. WireType'
      BY <1>39, <2>1 DEF TaskExited
    <2> QED
      BY <1>39, <2>2, <2>3, <2>4 DEF TaskExited
  <1>40. ASSUME NEW t \in Task, TaskMarkExited(t) PROVE TypeOK'
    BY <1>40, EmptyIsSeq, SeqFacts, Packets, WriteType, ReceivedType, ServingType,
       SendReplyType DEF TaskMarkExited
  <1>41. ASSUME NEW t \in Task, TaskLost(t) PROVE TypeOK'
    <2>1. toAdapter' \in Seq(Reply)
      BY <1>41, ReceivedType DEF TaskLost
    <2>2. task' \in [Task -> {"idle", "send", "await", "report", "exiting", "ending"}]
      BY <1>41 DEF TaskLost
    <2>3. AdapterType'
      BY <1>41 DEF TaskLost
    <2>4. WireType'
      BY <1>41, <2>1 DEF TaskLost
    <2> QED
      BY <1>41, <2>2, <2>3, <2>4 DEF TaskLost
  <1>42. ASSUME NEW t \in Task, TaskEnd(t) PROVE TypeOK'
    BY <1>42, EmptyIsSeq, SeqFacts, Packets, WriteType, ReceivedType, ServingType,
       SendReplyType DEF TaskEnd
  <1>43. CASE Boot
    BY <1>43, EmptyIsSeq, SeqFacts, Packets, WriteType, ReceivedType, ServingType,
       SendReplyType DEF Boot
  <1>44. CASE StubSkips
    BY <1>44, EmptyIsSeq, SeqFacts, Packets, WriteType, ReceivedType, ServingType,
       SendReplyType DEF StubSkips
  <1>45. CASE StubAnswers
    <2>1. toStub' \in Seq(Packet)
      BY <1>45, ServingType DEF StubAnswers
    <2>2. toAdapter' \in Seq(Reply)
      BY <1>45, SendReplyType DEF StubAnswers, Reply
    <2> QED
      BY <1>45, <2>1, <2>2 DEF StubAnswers
  <1>46. CASE StubArms
    <2>1. toStub' \in Seq(Packet) /\ Head(toStub) \in Packet
      BY <1>46, ServingType DEF StubArms
    <2>2. Head(toStub).at \in Address
      BY <1>46, <2>1, ArmPackets DEF StubArms, Serving
    <2>3. toAdapter' \in Seq(Reply)
      BY <1>46, SendReplyType DEF StubArms, Reply
    <2>4. triggers' \in [1..NumTriggers -> Address \cup {Unarmed}]
      BY <1>46, <2>2 DEF StubArms
    <2> QED
      BY <1>46, <2>1, <2>3, <2>4 DEF StubArms
  <1>47. CASE StubDisarms
    <2>1. toStub' \in Seq(Packet) /\ Head(toStub) \in Packet
      BY <1>47, ServingType DEF StubDisarms
    <2>2. Head(toStub).at \in Address
      BY <1>47, <2>1, ArmPackets DEF StubDisarms, Serving
    <2>3. toAdapter' \in Seq(Reply)
      BY <1>47, SendReplyType DEF StubDisarms, Reply
    <2>4. triggers' \in [1..NumTriggers -> Address \cup {Unarmed}]
      BY <1>47, <2>2 DEF StubDisarms
    <2> QED
      BY <1>47, <2>1, <2>3, <2>4 DEF StubDisarms
  <1>48. CASE StubSteps
    <2>1. toStub' \in Seq(Packet)
      BY <1>48, ServingType DEF StubSteps
    <2>2. toAdapter' \in Seq(Reply)
      BY <1>48, SendReplyType DEF StubSteps, Reply
    <2> QED
      BY <1>48, <2>1, <2>2 DEF StubSteps
  <1>49. CASE StubResumes
    BY <1>49, EmptyIsSeq, SeqFacts, Packets, WriteType, ReceivedType, ServingType,
       SendReplyType DEF StubResumes
  <1>50. CASE StubDetaches
    BY <1>50, EmptyIsSeq, SeqFacts, Packets, WriteType, ReceivedType, ServingType,
       SendReplyType DEF StubDetaches
  <1>51. CASE StubRefuses
    <2>1. toStub' \in Seq(Packet)
      BY <1>51, ServingType DEF StubRefuses
    <2>2. toAdapter' \in Seq(Reply)
      BY <1>51, SendReplyType DEF StubRefuses, Reply
    <2>3. WireType'
      BY <1>51, <2>1, <2>2 DEF StubRefuses
    <2> QED
      BY <1>51, <2>3 DEF StubRefuses
  <1>52. CASE StubInterrupted
    <2>1. toStub' \in Seq(Packet)
      BY <1>52, ServingType DEF StubInterrupted
    <2>2. toAdapter' \in Seq(Reply)
      BY <1>52, SendReplyType DEF StubInterrupted, Reply
    <2> QED
      BY <1>52, <2>1, <2>2 DEF StubInterrupted
  <1>53. CASE StubKilled
    BY <1>53, EmptyIsSeq DEF StubKilled, Gone
  <1>54. CASE HartStops
    <2>1. SendReply("stop") \/ SendReply("exit")
      BY <1>54 DEF HartStops
    <2>2. toAdapter' \in Seq(Reply)
      BY <2>1, SendReplyType DEF Reply
    <2> QED
      BY <1>54, <2>2 DEF HartStops
  <1>55. CASE DrainEnds
    <2>1. toAdapter' \in Seq(Reply)
      BY <1>55, SendReplyType DEF DrainEnds, Reply
    <2> QED
      BY <1>55, <2>1, EmptyIsSeq DEF DrainEnds, Gone
  <1>56. CASE SimulatorDies
    BY <1>56, EmptyIsSeq DEF SimulatorDies, Gone
  <1>57. CASE Finished
    BY <1>57 DEF Finished, vars
  <1> QED
    BY <1>1, <1>2, <1>3, <1>4, <1>5, <1>6, <1>7, <1>8, <1>9, <1>10,
       <1>11, <1>12, <1>13, <1>14, <1>15, <1>16, <1>17, <1>18, <1>19,
       <1>20, <1>21, <1>22, <1>23, <1>24, <1>25, <1>26, <1>27, <1>28,
       <1>29, <1>30, <1>31, <1>32, <1>33, <1>34, <1>35, <1>36, <1>37,
       <1>38, <1>39, <1>40, <1>41, <1>42, <1>43, <1>44, <1>45, <1>46,
       <1>47, <1>48, <1>49, <1>50, <1>51, <1>52, <1>53, <1>54, <1>55,
       <1>56, <1>57
       DEF Next, HandlerStep, TaskStep, StubStep

LEMMA HandlersPreserved == ASSUME IInv, Next PROVE (InHandler /\ ConnectOnce)'
  <1> USE DEF IInv, TypeOK, AdapterType, ThreadType, InHandler, ConnectOnce, Commands,
             adapter, thread, wire, stub, front, Respond, Caught, Guarded
  <1>1. ASSUME NEW r \in Request, ReadMessage(r) PROVE (InHandler /\ ConnectOnce)'
    BY <1>1, RequestFields DEF ReadMessage, MayAsk, ControlPoint
  <1>2. CASE ReadEndOfStream
    BY <1>2 DEF ReadEndOfStream
  <1>3. CASE HandleLocal
    BY <1>3 DEF HandleLocal
  <1>4. CASE HandleLaunch
    BY <1>4 DEF HandleLaunch
  <1>5. CASE HandleLaunchFails
    BY <1>5 DEF HandleLaunchFails
  <1>6. CASE HandleAttach
    BY <1>6 DEF HandleAttach
  <1>7. CASE TryConnect
    BY <1>7 DEF TryConnect
  <1>8. CASE TryConnectTimesOut
    BY <1>8 DEF TryConnectTimesOut
  <1>9. CASE SendPacket
    BY <1>9 DEF SendPacket
  <1>10. CASE ExchangeFails
    BY <1>10 DEF ExchangeFails
  <1>11. CASE NegotiateReply
    BY <1>11 DEF NegotiateReply
  <1>12. CASE RequireHaltedFails
    BY <1>12 DEF RequireHaltedFails
  <1>13. CASE HandleInspect
    BY <1>13 DEF HandleInspect
  <1>14. CASE InspectReply
    BY <1>14 DEF InspectReply
  <1>15. CASE HandleSetBreakpoints
    BY <1>15 DEF HandleSetBreakpoints
  <1>16. CASE ClearBreakpointReply
    BY <1>16 DEF ClearBreakpointReply
  <1>17. CASE SkipLine
    BY <1>17 DEF SkipLine
  <1>18. CASE TrySetBreakpoint
    <2>1. Head(lines) \in Address
      BY <1>18, SeqFacts DEF TrySetBreakpoint
    <2> QED
      BY <1>18, <2>1 DEF TrySetBreakpoint
  <1>19. CASE SetBreakpointReply
    BY <1>19 DEF SetBreakpointReply
  <1>20. CASE SetBreakpointsDone
    BY <1>20 DEF SetBreakpointsDone
  <1>21. CASE HandleConfigurationDone
    BY <1>21 DEF HandleConfigurationDone
  <1>22. CASE HandleContinue
    BY <1>22 DEF HandleContinue
  <1>23. CASE StartResume
    BY <1>23 DEF StartResume
  <1>24. CASE HandleStep
    BY <1>24 DEF HandleStep
  <1>25. CASE StepReply
    BY <1>25 DEF StepReply
  <1>26. CASE HandlePause
    BY <1>26 DEF HandlePause
  <1>27. CASE Interrupt
    BY <1>27 DEF Interrupt
  <1>28. CASE HandleDisconnect
    BY <1>28 DEF HandleDisconnect
  <1>29. CASE Leave
    BY <1>29 DEF Leave
  <1>30. CASE Kill
    BY <1>30 DEF Kill
  <1>31. CASE DetachReply
    BY <1>31 DEF DetachReply
  <1>32. CASE DetachFails
    BY <1>32 DEF DetachFails
  <1>33. CASE AnswerDisconnect
    BY <1>33 DEF AnswerDisconnect
  <1>34. CASE Cleanup
    BY <1>34 DEF Cleanup
  <1>35. CASE ReapSimulator
    BY <1>35 DEF ReapSimulator
  <1>36. ASSUME NEW t \in Task, TaskSend(t) PROVE (InHandler /\ ConnectOnce)'
    BY <1>36 DEF TaskSend
  <1>37. ASSUME NEW t \in Task, TaskStopped(t) PROVE (InHandler /\ ConnectOnce)'
    BY <1>37 DEF TaskStopped
  <1>38. ASSUME NEW t \in Task, TaskReport(t) PROVE (InHandler /\ ConnectOnce)'
    BY <1>38 DEF TaskReport
  <1>39. ASSUME NEW t \in Task, TaskExited(t) PROVE (InHandler /\ ConnectOnce)'
    BY <1>39 DEF TaskExited
  <1>40. ASSUME NEW t \in Task, TaskMarkExited(t) PROVE (InHandler /\ ConnectOnce)'
    BY <1>40 DEF TaskMarkExited
  <1>41. ASSUME NEW t \in Task, TaskLost(t) PROVE (InHandler /\ ConnectOnce)'
    BY <1>41 DEF TaskLost
  <1>42. ASSUME NEW t \in Task, TaskEnd(t) PROVE (InHandler /\ ConnectOnce)'
    BY <1>42 DEF TaskEnd
  <1>43. CASE Boot
    BY <1>43 DEF Boot
  <1>44. CASE StubSkips
    BY <1>44 DEF StubSkips
  <1>45. CASE StubAnswers
    BY <1>45 DEF StubAnswers
  <1>46. CASE StubArms
    BY <1>46 DEF StubArms
  <1>47. CASE StubDisarms
    BY <1>47 DEF StubDisarms
  <1>48. CASE StubSteps
    BY <1>48 DEF StubSteps
  <1>49. CASE StubResumes
    BY <1>49 DEF StubResumes
  <1>50. CASE StubDetaches
    BY <1>50 DEF StubDetaches
  <1>51. CASE StubRefuses
    BY <1>51 DEF StubRefuses
  <1>52. CASE StubInterrupted
    BY <1>52 DEF StubInterrupted
  <1>53. CASE StubKilled
    BY <1>53 DEF StubKilled
  <1>54. CASE HartStops
    BY <1>54 DEF HartStops
  <1>55. CASE DrainEnds
    BY <1>55 DEF DrainEnds
  <1>56. CASE SimulatorDies
    BY <1>56 DEF SimulatorDies
  <1>57. CASE Finished
    BY <1>57 DEF Finished, vars
  <1> QED
    BY <1>1, <1>2, <1>3, <1>4, <1>5, <1>6, <1>7, <1>8, <1>9, <1>10,
       <1>11, <1>12, <1>13, <1>14, <1>15, <1>16, <1>17, <1>18, <1>19,
       <1>20, <1>21, <1>22, <1>23, <1>24, <1>25, <1>26, <1>27, <1>28,
       <1>29, <1>30, <1>31, <1>32, <1>33, <1>34, <1>35, <1>36, <1>37,
       <1>38, <1>39, <1>40, <1>41, <1>42, <1>43, <1>44, <1>45, <1>46,
       <1>47, <1>48, <1>49, <1>50, <1>51, <1>52, <1>53, <1>54, <1>55,
       <1>56, <1>57
       DEF Next, HandlerStep, TaskStep, StubStep

LEMMA ExchangePreserved == ASSUME IInv, Next PROVE (RunningGuards /\ ExclusiveExchange)'
  <1> USE DEF IInv, TypeOK, AdapterType, ThreadType, TaskType, InHandler, ConnectOnce,
             RunningGuards, ExclusiveExchange, Busy, NoneBusy, Exchanging,
             adapter, thread, wire, stub, front, Caught, Halted, Commands, Guarded
  <1>1. ASSUME NEW r \in Request, ReadMessage(r) PROVE (RunningGuards /\ ExclusiveExchange)'
    BY <1>1, RequestFields DEF ReadMessage, MayAsk, ControlPoint
  <1>2. CASE ReadEndOfStream
    BY <1>2 DEF ReadEndOfStream
  <1>3. CASE HandleLocal
    BY <1>3 DEF HandleLocal
  <1>4. CASE HandleLaunch
    BY <1>4 DEF HandleLaunch
  <1>5. CASE HandleLaunchFails
    BY <1>5 DEF HandleLaunchFails
  <1>6. CASE HandleAttach
    BY <1>6 DEF HandleAttach
  <1>7. CASE TryConnect
    BY <1>7 DEF TryConnect
  <1>8. CASE TryConnectTimesOut
    BY <1>8 DEF TryConnectTimesOut
  <1>9. CASE SendPacket
    BY <1>9 DEF SendPacket
  <1>10. CASE ExchangeFails
    BY <1>10 DEF ExchangeFails
  <1>11. CASE NegotiateReply
    BY <1>11 DEF NegotiateReply
  <1>12. CASE RequireHaltedFails
    BY <1>12 DEF RequireHaltedFails
  <1>13. CASE HandleInspect
    BY <1>13 DEF HandleInspect
  <1>14. CASE InspectReply
    BY <1>14 DEF InspectReply
  <1>15. CASE HandleSetBreakpoints
    BY <1>15 DEF HandleSetBreakpoints
  <1>16. CASE ClearBreakpointReply
    BY <1>16 DEF ClearBreakpointReply
  <1>17. CASE SkipLine
    BY <1>17 DEF SkipLine
  <1>18. CASE TrySetBreakpoint
    BY <1>18 DEF TrySetBreakpoint
  <1>19. CASE SetBreakpointReply
    BY <1>19 DEF SetBreakpointReply
  <1>20. CASE SetBreakpointsDone
    BY <1>20 DEF SetBreakpointsDone
  <1>21. CASE HandleConfigurationDone
    BY <1>21 DEF HandleConfigurationDone
  <1>22. CASE HandleContinue
    BY <1>22 DEF HandleContinue
  <1>23. CASE StartResume
    BY <1>23 DEF StartResume
  <1>24. CASE HandleStep
    BY <1>24 DEF HandleStep
  <1>25. CASE StepReply
    BY <1>25 DEF StepReply
  <1>26. CASE HandlePause
    BY <1>26 DEF HandlePause
  <1>27. CASE Interrupt
    BY <1>27 DEF Interrupt
  <1>28. CASE HandleDisconnect
    BY <1>28 DEF HandleDisconnect
  <1>29. CASE Leave
    BY <1>29 DEF Leave
  <1>30. CASE Kill
    BY <1>30 DEF Kill
  <1>31. CASE DetachReply
    BY <1>31 DEF DetachReply
  <1>32. CASE DetachFails
    BY <1>32 DEF DetachFails
  <1>33. CASE AnswerDisconnect
    BY <1>33 DEF AnswerDisconnect
  <1>34. CASE Cleanup
    BY <1>34 DEF Cleanup
  <1>35. CASE ReapSimulator
    BY <1>35 DEF ReapSimulator
  <1>36. ASSUME NEW t \in Task, TaskSend(t) PROVE (RunningGuards /\ ExclusiveExchange)'
    BY <1>36 DEF TaskSend
  <1>37. ASSUME NEW t \in Task, TaskStopped(t) PROVE (RunningGuards /\ ExclusiveExchange)'
    BY <1>37 DEF TaskStopped
  <1>38. ASSUME NEW t \in Task, TaskReport(t) PROVE (RunningGuards /\ ExclusiveExchange)'
    BY <1>38 DEF TaskReport
  <1>39. ASSUME NEW t \in Task, TaskExited(t) PROVE (RunningGuards /\ ExclusiveExchange)'
    BY <1>39 DEF TaskExited
  <1>40. ASSUME NEW t \in Task, TaskMarkExited(t) PROVE (RunningGuards /\ ExclusiveExchange)'
    BY <1>40 DEF TaskMarkExited
  <1>41. ASSUME NEW t \in Task, TaskLost(t) PROVE (RunningGuards /\ ExclusiveExchange)'
    BY <1>41 DEF TaskLost
  <1>42. ASSUME NEW t \in Task, TaskEnd(t) PROVE (RunningGuards /\ ExclusiveExchange)'
    BY <1>42 DEF TaskEnd
  <1>43. CASE Boot
    BY <1>43 DEF Boot
  <1>44. CASE StubSkips
    BY <1>44 DEF StubSkips
  <1>45. CASE StubAnswers
    BY <1>45 DEF StubAnswers
  <1>46. CASE StubArms
    BY <1>46 DEF StubArms
  <1>47. CASE StubDisarms
    BY <1>47 DEF StubDisarms
  <1>48. CASE StubSteps
    BY <1>48 DEF StubSteps
  <1>49. CASE StubResumes
    BY <1>49 DEF StubResumes
  <1>50. CASE StubDetaches
    BY <1>50 DEF StubDetaches
  <1>51. CASE StubRefuses
    BY <1>51 DEF StubRefuses
  <1>52. CASE StubInterrupted
    BY <1>52 DEF StubInterrupted
  <1>53. CASE StubKilled
    BY <1>53 DEF StubKilled
  <1>54. CASE HartStops
    BY <1>54 DEF HartStops
  <1>55. CASE DrainEnds
    BY <1>55 DEF DrainEnds
  <1>56. CASE SimulatorDies
    BY <1>56 DEF SimulatorDies
  <1>57. CASE Finished
    BY <1>57 DEF Finished, vars
  <1> QED
    BY <1>1, <1>2, <1>3, <1>4, <1>5, <1>6, <1>7, <1>8, <1>9, <1>10,
       <1>11, <1>12, <1>13, <1>14, <1>15, <1>16, <1>17, <1>18, <1>19,
       <1>20, <1>21, <1>22, <1>23, <1>24, <1>25, <1>26, <1>27, <1>28,
       <1>29, <1>30, <1>31, <1>32, <1>33, <1>34, <1>35, <1>36, <1>37,
       <1>38, <1>39, <1>40, <1>41, <1>42, <1>43, <1>44, <1>45, <1>46,
       <1>47, <1>48, <1>49, <1>50, <1>51, <1>52, <1>53, <1>54, <1>55,
       <1>56, <1>57
       DEF Next, HandlerStep, TaskStep, StubStep

-----------------------------------------------------------------------------
LEMMA StepIInv == IInv /\ [Next]_vars => IInv'
  <1>1. ASSUME IInv, Next PROVE IInv'
    BY <1>1, TypesPreserved, HandlersPreserved, ExchangePreserved DEF IInv
  <1>2. ASSUME IInv, UNCHANGED vars PROVE IInv'
    BY <1>2 DEF IInv, TypeOK, AdapterType, ThreadType, TaskType, WireType,
         StubType, FrontType, InHandler, ConnectOnce, RunningGuards, NoneBusy,
         Busy, ExclusiveExchange, Exchanging, vars, adapter, thread, wire,
         stub, front
  <1> QED
    BY <1>1, <1>2

LEMMA Invariance == Spec => []IInv
  BY InitIInv, StepIInv, PTL DEF Spec

(* Whatever the number of tasks and slots, every variable stays within its *)
(* declared range: no handler reaches a control point, a packet or a list  *)
(* of breakpoints that DebugSession.cs and RspClient.cs do not have.       *)
THEOREM TypeCorrect == Spec => []TypeOK
  BY Invariance, PTL DEF IInv

(* _running, set under the lock by StartResume and tested by RequireHalted *)
(* and by HandleDisconnect's copy, is enough to keep every two threads out *)
(* of RspClient.Exchange at once: any client, any number of tasks.         *)
THEOREM ExchangesExclude == Spec => []ExclusiveExchange
  BY Invariance, PTL DEF IInv

-----------------------------------------------------------------------------
(* Proof that no reader of the RSP stream takes another's reply: at every  *)
(* moment the link owes one answer to a reader that waits, or none.        *)

Waiting == ThreadAwaits \/ \E t \in Task : TaskAwaits(t)
Asks(p) == p.op \notin {Break, "k"}
Pending(s) == Cardinality(Requests(s))

(* The link is used by nobody before it is up, and not up once disposed;   *)
(* every packet a handler exchanges is one the stub answers.               *)
LinkInv ==
  /\ ~rsp => link = "none"
  /\ link = "none" => toStub = <<>> /\ toAdapter = <<>> /\ ~Waiting
  /\ pc \in {"reap", "done"} => link # "up"
  /\ \A i \in DOMAIN script : Asks(script[i])

CInv == IInv /\ LinkInv /\ NoCrossTalk

-----------------------------------------------------------------------------
(* Packets in flight, counted.                                             *)

LEMMA PendingType ==
  ASSUME NEW s \in Seq(Packet)
  PROVE  IsFiniteSet(Requests(s)) /\ Pending(s) \in Nat
  <1>1. Requests(s) \subseteq 1..Len(s)
    BY DEF Requests
  <1>2. IsFiniteSet(1..Len(s))
    BY FS_Interval
  <1> QED
    BY <1>1, <1>2, FS_Subset, FS_CardinalityType DEF Pending

LEMMA PendingEmpty == Pending(<<>>) = 0
  BY FS_EmptySet DEF Pending, Requests

(* A packet at the end of the stream adds a request if it asks.            *)
LEMMA PendingAppend ==
  ASSUME NEW s \in Seq(Packet), NEW p \in Packet
  PROVE  Pending(Append(s, p)) = Pending(s) + (IF Asks(p) THEN 1 ELSE 0)
  <1>1. Requests(Append(s, p)) = Requests(s) \cup (IF Asks(p) THEN {Len(s) + 1} ELSE {})
    BY DEF Requests, Asks
  <1>2. Len(s) + 1 \notin Requests(s)
    BY DEF Requests
  <1>3. Cardinality(Requests(s) \cup {Len(s) + 1}) = Cardinality(Requests(s)) + 1
    BY <1>2, PendingType, FS_AddElement
  <1>4. CASE Asks(p)
    BY <1>1, <1>3, <1>4 DEF Pending
  <1>5. CASE ~Asks(p)
    <2>1. Requests(Append(s, p)) = Requests(s)
      BY <1>1, <1>5
    <2> QED
      BY <1>5, <2>1, PendingType DEF Pending
  <1> QED
    BY <1>4, <1>5

(* Reading the head of the stream takes a request away if it asks.         *)
LEMMA PendingTail ==
  ASSUME NEW s \in Seq(Packet), s # <<>>
  PROVE  Pending(s) = Pending(Tail(s)) + (IF Asks(Head(s)) THEN 1 ELSE 0)
  <1> DEFINE R == Requests(Tail(s))
             Later == {i \in Requests(s) : i # 1}
             shift == [i \in R |-> i + 1]
  <1>1. Tail(s) \in Seq(Packet) /\ Len(Tail(s)) = Len(s) - 1
    OBVIOUS
  <1>2. \A i \in 1..Len(s) - 1 : Tail(s)[i] = s[i + 1]
    OBVIOUS
  <1>3. IsFiniteSet(R) /\ IsFiniteSet(Requests(s))
    BY <1>1, PendingType
  <1>4. shift \in Bijection(R, Later)
    <2>1. R = {i \in 1..Len(s) - 1 : s[i + 1].op \notin {Break, "k"}}
      BY <1>1, <1>2 DEF Requests
    <2>2. Later = {i \in 2..Len(s) : s[i].op \notin {Break, "k"}}
      BY DEF Requests
    <2>3. \A i \in R : shift[i] \in Later
      BY <2>1, <2>2
    <2>4. \A i, j \in R : shift[i] = shift[j] => i = j
      BY <2>1
    <2>5. ASSUME NEW k \in Later PROVE k - 1 \in R /\ shift[k - 1] = k
      <3>1. k \in 2..Len(s) /\ s[k].op \notin {Break, "k"} /\ k = (k - 1) + 1
        BY <2>2
      <3>2. k - 1 \in R
        BY <2>1, <3>1
      <3> QED
        BY <3>1, <3>2
    <2> QED
      BY <2>3, <2>4, <2>5 DEF Bijection, Injection, Surjection, IsInjective
  <1>5. IsFiniteSet(Later) /\ Cardinality(Later) = Cardinality(R)
    BY <1>3, <1>4, FS_Bijection DEF ExistsBijection
  <1>6. Requests(s) = Later \cup (IF Asks(Head(s)) THEN {1} ELSE {})
    BY DEF Requests, Asks
  <1>7. Cardinality(Later \cup {1}) = Cardinality(R) + 1
    BY <1>5, FS_AddElement
  <1>8. CASE Asks(Head(s))
    BY <1>6, <1>7, <1>8 DEF Pending
  <1>9. CASE ~Asks(Head(s))
    <2>1. Requests(s) = Later
      BY <1>6, <1>9
    <2>2. Pending(s) = Pending(Tail(s))
      BY <1>5, <2>1 DEF Pending
    <2> QED
      BY <1>1, <1>9, <2>2, PendingType
  <1> QED
    BY <1>8, <1>9
-----------------------------------------------------------------------------
(* What a step may do to the account of the link.                          *)

LEMMA PendingNow == ASSUME TypeOK PROVE Pending(toStub) \in Nat
  BY PendingType DEF TypeOK, WireType

LEMMA PendingNext == ASSUME TypeOK' PROVE Pending(toStub') \in Nat
  BY PendingType DEF TypeOK, WireType

LEMMA Lengths == ASSUME TypeOK PROVE Len(toAdapter) \in Nat
  BY DEF TypeOK, WireType

(* It leaves link, stub and readers alone.                                 *)
LEMMA Quiet ==
  ASSUME NoCrossTalk, UNCHANGED <<link, toStub, toAdapter>>, Waiting' <=> Waiting,
         hart' \in {"running", "draining"} <=> hart \in {"running", "draining"}
  PROVE  NoCrossTalk'
  BY DEF NoCrossTalk, Owed, Waiting

(* A reader writes the packet whose answer it then waits for.              *)
LEMMA Asked ==
  ASSUME TypeOK, NoCrossTalk, ~Waiting,
         NEW p \in Packet, Asks(p), Write(p),
         UNCHANGED <<link, toAdapter, hart>>, Waiting'
  PROVE  NoCrossTalk'
  <1>1. CASE link = "up"
    <2>1. toStub' = Append(toStub, p)
      BY <1>1 DEF Write
    <2>2. Pending(toStub') = Pending(toStub) + 1
      BY <2>1, PendingAppend DEF TypeOK, WireType
    <2> QED
      BY <1>1, <2>2, PendingNow DEF NoCrossTalk, Owed, Pending, Waiting, TypeOK, WireType
  <1>2. CASE link # "up"
    BY <1>2 DEF NoCrossTalk
  <1> QED
    BY <1>1, <1>2

(* The reader that waits takes the answer.                                 *)
LEMMA Answered ==
  ASSUME TypeOK, NoCrossTalk, Waiting, NEW reply, Received(reply),
         UNCHANGED <<link, toStub, hart>>, ~Waiting'
  PROVE  NoCrossTalk'
  <1>1. Len(toAdapter') = Len(toAdapter) - 1
    BY DEF Received, TypeOK, WireType
  <1> QED
    BY <1>1, PendingNow DEF NoCrossTalk, Owed, Pending, Waiting, TypeOK, WireType

(* A break byte or a kill is written: neither is answered.                 *)
LEMMA Unasked ==
  ASSUME TypeOK, NoCrossTalk, NEW p \in Packet, ~Asks(p), Write(p),
         UNCHANGED <<link, toAdapter, hart>>, Waiting' <=> Waiting
  PROVE  NoCrossTalk'
  <1>1. CASE link = "up"
    <2>1. toStub' = Append(toStub, p)
      BY <1>1 DEF Write
    <2>2. Pending(toStub') = Pending(toStub)
      BY <2>1, PendingAppend, PendingNow DEF TypeOK, WireType
    <2> QED
      BY <1>1, <2>2 DEF NoCrossTalk, Owed, Pending, Waiting
  <1>2. CASE link # "up"
    BY <1>2 DEF NoCrossTalk
  <1> QED
    BY <1>1, <1>2

(* The stub reads a packet: it answers at once, or begins a run.           *)
LEMMA Served ==
  ASSUME TypeOK, NEW op, Serving(op)
  PROVE  Pending(toStub) = Pending(toStub') + (IF op \notin {Break, "k"} THEN 1 ELSE 0)
  BY PendingTail DEF Serving, Asks, TypeOK, WireType

LEMMA Replied ==
  ASSUME TypeOK, NEW reply \in Reply, SendReply(reply), link = "up"
  PROVE  Len(toAdapter') = Len(toAdapter) + 1
  BY DEF SendReply, TypeOK, WireType

LEMMA Conserved ==
  ASSUME NoCrossTalk, UNCHANGED <<link, pc, task>>, link = "up" => Owed' = Owed
  PROVE  NoCrossTalk'
  BY DEF NoCrossTalk, ThreadAwaits, TaskAwaits, Waiting

-----------------------------------------------------------------------------
(* The link's discipline.                                                  *)

LEMMA Asking ==
  /\ \A op \in {"qSupported", "QStartNoAckMode", "?", "read", "c", "s", "D"} : Asks(Plain(op))
  /\ \A a \in Address : Asks(Arm(a)) /\ Asks(Disarm(a))
  /\ ~Asks(Plain(Break)) /\ ~Asks(Plain("k"))
  BY DEF Asks, Plain, Arm, Disarm, Break

LEMMA LinkPreserved == ASSUME CInv, Next PROVE LinkInv'
  <1> USE DEF CInv, IInv, TypeOK, AdapterType, ThreadType, TaskType, WireType, LinkInv,
             InHandler, ConnectOnce, Commands, Waiting, ThreadAwaits, TaskAwaits, adapter,
             thread, wire, stub, front, Caught, Write, Received, SendReply, Serving, Gone
  <1>1. ASSUME NEW r \in Request, ReadMessage(r) PROVE LinkInv'
    <2>1. \A i \in DOMAIN script' : Asks(script'[i])
      BY <1>1 DEF ReadMessage
    <2> QED
      BY <1>1, <2>1, RequestFields DEF ReadMessage
  <1>2. CASE ReadEndOfStream
    BY <1>2 DEF ReadEndOfStream
  <1>3. CASE HandleLocal
    BY <1>3 DEF HandleLocal
  <1>4. CASE HandleLaunch
    BY <1>4 DEF HandleLaunch
  <1>5. CASE HandleLaunchFails
    BY <1>5 DEF HandleLaunchFails
  <1>6. CASE HandleAttach
    BY <1>6 DEF HandleAttach
  <1>7. CASE TryConnect
    <2>1. \A i \in DOMAIN script' : Asks(script'[i])
      BY <1>7, Asking DEF TryConnect, Negotiation
    <2> QED
      BY <1>7, <2>1 DEF TryConnect
  <1>8. CASE TryConnectTimesOut
    BY <1>8 DEF TryConnectTimesOut
  <1>9. CASE SendPacket
    BY <1>9 DEF SendPacket
  <1>10. CASE ExchangeFails
    BY <1>10 DEF ExchangeFails
  <1>11. CASE NegotiateReply
    BY <1>11 DEF NegotiateReply
  <1>12. CASE RequireHaltedFails
    BY <1>12 DEF RequireHaltedFails
  <1>13. CASE HandleInspect
    <2>1. \A i \in DOMAIN script' : Asks(script'[i])
      BY <1>13, Asking DEF HandleInspect
    <2> QED
      BY <1>13, <2>1 DEF HandleInspect
  <1>14. CASE InspectReply
    BY <1>14 DEF InspectReply
  <1>15. CASE HandleSetBreakpoints
    <2>1. \A i \in DOMAIN script' : Asks(script'[i])
      BY <1>15, Asking DEF HandleSetBreakpoints
    <2> QED
      BY <1>15, <2>1 DEF HandleSetBreakpoints
  <1>16. CASE ClearBreakpointReply
    BY <1>16 DEF ClearBreakpointReply
  <1>17. CASE SkipLine
    BY <1>17 DEF SkipLine
  <1>18. CASE TrySetBreakpoint
    BY <1>18 DEF TrySetBreakpoint
  <1>19. CASE SetBreakpointReply
    BY <1>19 DEF SetBreakpointReply
  <1>20. CASE SetBreakpointsDone
    BY <1>20 DEF SetBreakpointsDone
  <1>21. CASE HandleConfigurationDone
    BY <1>21 DEF HandleConfigurationDone
  <1>22. CASE HandleContinue
    BY <1>22 DEF HandleContinue
  <1>23. CASE StartResume
    BY <1>23 DEF StartResume
  <1>24. CASE HandleStep
    <2>1. \A i \in DOMAIN script' : Asks(script'[i])
      BY <1>24, Asking DEF HandleStep
    <2> QED
      BY <1>24, <2>1 DEF HandleStep
  <1>25. CASE StepReply
    BY <1>25 DEF StepReply
  <1>26. CASE HandlePause
    BY <1>26 DEF HandlePause
  <1>27. CASE Interrupt
    BY <1>27 DEF Interrupt
  <1>28. CASE HandleDisconnect
    BY <1>28 DEF HandleDisconnect
  <1>29. CASE Leave
    <2>1. \A i \in DOMAIN script' : Asks(script'[i])
      BY <1>29, Asking DEF Leave
    <2> QED
      BY <1>29, <2>1 DEF Leave
  <1>30. CASE Kill
    BY <1>30 DEF Kill
  <1>31. CASE DetachReply
    BY <1>31 DEF DetachReply
  <1>32. CASE DetachFails
    BY <1>32 DEF DetachFails
  <1>33. CASE AnswerDisconnect
    BY <1>33 DEF AnswerDisconnect
  <1>34. CASE Cleanup
    BY <1>34 DEF Cleanup
  <1>35. CASE ReapSimulator
    BY <1>35 DEF ReapSimulator
  <1>36. ASSUME NEW t \in Task, TaskSend(t) PROVE LinkInv'
    BY <1>36 DEF TaskSend
  <1>37. ASSUME NEW t \in Task, TaskStopped(t) PROVE LinkInv'
    BY <1>37 DEF TaskStopped
  <1>38. ASSUME NEW t \in Task, TaskReport(t) PROVE LinkInv'
    BY <1>38 DEF TaskReport
  <1>39. ASSUME NEW t \in Task, TaskExited(t) PROVE LinkInv'
    BY <1>39 DEF TaskExited
  <1>40. ASSUME NEW t \in Task, TaskMarkExited(t) PROVE LinkInv'
    BY <1>40 DEF TaskMarkExited
  <1>41. ASSUME NEW t \in Task, TaskLost(t) PROVE LinkInv'
    BY <1>41 DEF TaskLost
  <1>42. ASSUME NEW t \in Task, TaskEnd(t) PROVE LinkInv'
    BY <1>42 DEF TaskEnd
  <1>43. CASE Boot
    BY <1>43 DEF Boot
  <1>44. CASE StubSkips
    BY <1>44 DEF StubSkips
  <1>45. CASE StubAnswers
    BY <1>45 DEF StubAnswers
  <1>46. CASE StubArms
    BY <1>46 DEF StubArms
  <1>47. CASE StubDisarms
    BY <1>47 DEF StubDisarms
  <1>48. CASE StubSteps
    BY <1>48 DEF StubSteps
  <1>49. CASE StubResumes
    BY <1>49 DEF StubResumes
  <1>50. CASE StubDetaches
    BY <1>50 DEF StubDetaches
  <1>51. CASE StubRefuses
    BY <1>51 DEF StubRefuses
  <1>52. CASE StubInterrupted
    BY <1>52 DEF StubInterrupted
  <1>53. CASE StubKilled
    BY <1>53 DEF StubKilled
  <1>54. CASE HartStops
    BY <1>54 DEF HartStops
  <1>55. CASE DrainEnds
    BY <1>55 DEF DrainEnds
  <1>56. CASE SimulatorDies
    BY <1>56 DEF SimulatorDies
  <1>57. CASE Finished
    BY <1>57 DEF Finished, vars
  <1> QED
    BY <1>1, <1>2, <1>3, <1>4, <1>5, <1>6, <1>7, <1>8, <1>9, <1>10,
       <1>11, <1>12, <1>13, <1>14, <1>15, <1>16, <1>17, <1>18, <1>19,
       <1>20, <1>21, <1>22, <1>23, <1>24, <1>25, <1>26, <1>27, <1>28,
       <1>29, <1>30, <1>31, <1>32, <1>33, <1>34, <1>35, <1>36, <1>37,
       <1>38, <1>39, <1>40, <1>41, <1>42, <1>43, <1>44, <1>45, <1>46,
       <1>47, <1>48, <1>49, <1>50, <1>51, <1>52, <1>53, <1>54, <1>55,
       <1>56, <1>57
       DEF Next, HandlerStep, TaskStep, StubStep

-----------------------------------------------------------------------------
(* The account of the link balances after every step.                      *)

LEMMA CrossTalkPreserved == ASSUME CInv, Next PROVE NoCrossTalk'
  <1> USE DEF CInv, IInv, Waiting, ThreadAwaits, TaskAwaits, ExclusiveExchange, Exchanging,
             adapter, thread, wire, stub, front, Caught, More
  <1>0. TypeOK'
    BY TypesPreserved
  <1>1. ASSUME NEW r \in Request, ReadMessage(r) PROVE NoCrossTalk'
    <2>1. Waiting' <=> Waiting
      BY <1>1, RequestFields DEF ReadMessage, Commands
    <2> QED
      BY <1>1, <2>1, Quiet DEF ReadMessage, Commands
  <1>2. CASE ReadEndOfStream
    <2>1. Waiting' <=> Waiting
      BY <1>2 DEF ReadEndOfStream
    <2> QED
      BY <1>2, <2>1, Quiet DEF ReadEndOfStream
  <1>3. CASE HandleLocal
    <2>1. Waiting' <=> Waiting
      BY <1>3 DEF HandleLocal
    <2> QED
      BY <1>3, <2>1, Quiet DEF HandleLocal
  <1>4. CASE HandleLaunch
    <2>1. link' # "up"
      BY <1>4 DEF HandleLaunch, LinkInv, ConnectOnce
    <2> QED
      BY <2>1 DEF NoCrossTalk
  <1>5. CASE HandleLaunchFails
    <2>1. Waiting' <=> Waiting
      BY <1>5 DEF HandleLaunchFails
    <2> QED
      BY <1>5, <2>1, Quiet DEF HandleLaunchFails
  <1>6. CASE HandleAttach
    <2>1. Waiting' <=> Waiting
      BY <1>6 DEF HandleAttach
    <2> QED
      BY <1>6, <2>1, Quiet DEF HandleAttach
  <1>7. CASE TryConnect
    <2>1. link = "none" /\ toStub = <<>> /\ toAdapter = <<>> /\ ~Waiting
      BY <1>7 DEF TryConnect, ConnectOnce, LinkInv
    <2>2. ~Waiting'
      BY <1>7, <2>1 DEF TryConnect
    <2>3. Owed' = 0
      BY <1>7, <2>1, PendingEmpty DEF TryConnect, Owed, Pending
    <2> QED
      BY <2>2, <2>3 DEF NoCrossTalk
  <1>8. CASE TryConnectTimesOut
    <2>1. Waiting' <=> Waiting
      BY <1>8 DEF TryConnectTimesOut
    <2> QED
      BY <1>8, <2>1, Quiet DEF TryConnectTimesOut
  <1>9. CASE SendPacket
    <2>1. Head(script) \in Packet /\ Asks(Head(script))
      BY <1>9, SeqFacts DEF SendPacket, LinkInv, InHandler, TypeOK, ThreadType
    <2>2. Write(Head(script)) /\ UNCHANGED <<link, toAdapter, hart>>
      BY <1>9 DEF SendPacket
    <2>3. ~Waiting /\ Waiting'
      BY <1>9 DEF SendPacket, TypeOK, TaskType
    <2> QED
      BY <2>1, <2>2, <2>3, Asked
  <1>10. CASE ExchangeFails
    <2>1. link' # "up"
      BY <1>10 DEF ExchangeFails, LinkInv, LinkBroken
    <2> QED
      BY <2>1 DEF NoCrossTalk
  <1>11. CASE NegotiateReply
    <2>1. PICK reply : Received(reply)
      BY <1>11 DEF NegotiateReply
    <2>2. Waiting /\ ~Waiting'
      BY <1>11 DEF NegotiateReply
    <2>3. UNCHANGED <<link, toStub, hart>>
      BY <1>11 DEF NegotiateReply
    <2> QED
      BY <2>1, <2>2, <2>3, Answered
  <1>12. CASE RequireHaltedFails
    <2>1. Waiting' <=> Waiting
      BY <1>12 DEF RequireHaltedFails, Guarded
    <2> QED
      BY <1>12, <2>1, Quiet DEF RequireHaltedFails, Guarded
  <1>13. CASE HandleInspect
    <2>1. Waiting' <=> Waiting
      BY <1>13 DEF HandleInspect
    <2> QED
      BY <1>13, <2>1, Quiet DEF HandleInspect
  <1>14. CASE InspectReply
    <2>1. PICK reply : Received(reply)
      BY <1>14 DEF InspectReply
    <2>2. Waiting /\ ~Waiting'
      BY <1>14 DEF InspectReply
    <2>3. UNCHANGED <<link, toStub, hart>>
      BY <1>14 DEF InspectReply
    <2> QED
      BY <2>1, <2>2, <2>3, Answered
  <1>15. CASE HandleSetBreakpoints
    <2>1. Waiting' <=> Waiting
      BY <1>15 DEF HandleSetBreakpoints
    <2> QED
      BY <1>15, <2>1, Quiet DEF HandleSetBreakpoints
  <1>16. CASE ClearBreakpointReply
    <2>1. PICK reply : Received(reply)
      BY <1>16 DEF ClearBreakpointReply
    <2>2. Waiting /\ ~Waiting'
      BY <1>16 DEF ClearBreakpointReply
    <2>3. UNCHANGED <<link, toStub, hart>>
      BY <1>16 DEF ClearBreakpointReply
    <2> QED
      BY <2>1, <2>2, <2>3, Answered
  <1>17. CASE SkipLine
    <2>1. Waiting' <=> Waiting
      BY <1>17 DEF SkipLine
    <2> QED
      BY <1>17, <2>1, Quiet DEF SkipLine
  <1>18. CASE TrySetBreakpoint
    <2>1. Arm(Head(lines)) \in Packet /\ Asks(Arm(Head(lines)))
      BY <1>18, SeqFacts, Packets, Asking DEF TrySetBreakpoint, LinkInv, InHandler, TypeOK, ThreadType
    <2>2. Write(Arm(Head(lines))) /\ UNCHANGED <<link, toAdapter, hart>>
      BY <1>18 DEF TrySetBreakpoint
    <2>3. ~Waiting /\ Waiting'
      BY <1>18 DEF TrySetBreakpoint, TypeOK, TaskType
    <2> QED
      BY <2>1, <2>2, <2>3, Asked
  <1>19. CASE SetBreakpointReply
    <2>1. PICK reply : Received(reply)
      BY <1>19 DEF SetBreakpointReply
    <2>2. Waiting /\ ~Waiting'
      BY <1>19 DEF SetBreakpointReply
    <2>3. UNCHANGED <<link, toStub, hart>>
      BY <1>19 DEF SetBreakpointReply
    <2> QED
      BY <2>1, <2>2, <2>3, Answered
  <1>20. CASE SetBreakpointsDone
    <2>1. Waiting' <=> Waiting
      BY <1>20 DEF SetBreakpointsDone
    <2> QED
      BY <1>20, <2>1, Quiet DEF SetBreakpointsDone
  <1>21. CASE HandleConfigurationDone
    <2>1. Waiting' <=> Waiting
      BY <1>21 DEF HandleConfigurationDone
    <2> QED
      BY <1>21, <2>1, Quiet DEF HandleConfigurationDone
  <1>22. CASE HandleContinue
    <2>1. Waiting' <=> Waiting
      BY <1>22 DEF HandleContinue
    <2> QED
      BY <1>22, <2>1, Quiet DEF HandleContinue
  <1>23. CASE StartResume
    <2>1. Waiting' <=> Waiting
      BY <1>23 DEF StartResume, TypeOK, TaskType
    <2> QED
      BY <1>23, <2>1, Quiet DEF StartResume, TypeOK, TaskType
  <1>24. CASE HandleStep
    <2>1. Waiting' <=> Waiting
      BY <1>24 DEF HandleStep
    <2> QED
      BY <1>24, <2>1, Quiet DEF HandleStep
  <1>25. CASE StepReply
    <2>1. PICK reply : Received(reply)
      BY <1>25 DEF StepReply
    <2>2. Waiting /\ ~Waiting'
      BY <1>25 DEF StepReply
    <2>3. UNCHANGED <<link, toStub, hart>>
      BY <1>25 DEF StepReply
    <2> QED
      BY <2>1, <2>2, <2>3, Answered
  <1>26. CASE HandlePause
    <2>1. Waiting' <=> Waiting
      BY <1>26 DEF HandlePause
    <2> QED
      BY <1>26, <2>1, Quiet DEF HandlePause
  <1>27. CASE Interrupt
    <2>1. Waiting' <=> Waiting
      BY <1>27 DEF Interrupt
    <2>2. CASE Write(Plain(Break))
      BY <1>27, <2>1, <2>2, Packets, Asking, Unasked DEF Interrupt, Break
    <2>3. CASE UNCHANGED toStub
      BY <1>27, <2>1, <2>3, Quiet DEF Interrupt
    <2> QED
      BY <1>27, <2>1, <2>2, <2>3 DEF Interrupt
  <1>28. CASE HandleDisconnect
    <2>1. Waiting' <=> Waiting
      BY <1>28 DEF HandleDisconnect
    <2> QED
      BY <1>28, <2>1, Quiet DEF HandleDisconnect
  <1>29. CASE Leave
    <2>1. Waiting' <=> Waiting
      BY <1>29 DEF Leave
    <2> QED
      BY <1>29, <2>1, Quiet DEF Leave
  <1>30. CASE Kill
    <2>1. Waiting' <=> Waiting
      BY <1>30 DEF Kill
    <2>2. CASE Write(Plain(Break))
      BY <1>30, <2>1, <2>2, Packets, Asking, Unasked DEF Kill, Break
    <2>3. CASE Write(Plain("k"))
      BY <1>30, <2>1, <2>3, Packets, Asking, Unasked DEF Kill, Break
    <2>4. CASE UNCHANGED toStub
      BY <1>30, <2>1, <2>4, Quiet DEF Kill
    <2> QED
      BY <1>30, <2>1, <2>2, <2>3, <2>4 DEF Kill
  <1>31. CASE DetachReply
    <2>1. PICK reply : Received(reply)
      BY <1>31 DEF DetachReply
    <2>2. Waiting /\ ~Waiting'
      BY <1>31 DEF DetachReply
    <2>3. UNCHANGED <<link, toStub, hart>>
      BY <1>31 DEF DetachReply
    <2> QED
      BY <2>1, <2>2, <2>3, Answered
  <1>32. CASE DetachFails
    <2>1. link' # "up"
      BY <1>32 DEF DetachFails, LinkInv, LinkBroken
    <2> QED
      BY <2>1 DEF NoCrossTalk
  <1>33. CASE AnswerDisconnect
    <2>1. Waiting' <=> Waiting
      BY <1>33 DEF AnswerDisconnect
    <2> QED
      BY <1>33, <2>1, Quiet DEF AnswerDisconnect
  <1>34. CASE Cleanup
    <2>1. link' # "up"
      BY <1>34 DEF Cleanup, LinkInv
    <2> QED
      BY <2>1 DEF NoCrossTalk
  <1>35. CASE ReapSimulator
    <2>1. link' # "up"
      BY <1>35 DEF ReapSimulator, LinkInv
    <2> QED
      BY <2>1 DEF NoCrossTalk
  <1>36. ASSUME NEW t \in Task, TaskSend(t) PROVE NoCrossTalk'
    <2>1. Plain(Resume) \in Packet /\ Asks(Plain(Resume))
      BY <1>36, Packets, Asking DEF TaskSend, Resume
    <2>2. Write(Plain(Resume)) /\ UNCHANGED <<link, toAdapter, hart>>
      BY <1>36 DEF TaskSend
    <2>3. ~Waiting /\ Waiting'
      BY <1>36 DEF TaskSend, TypeOK, TaskType
    <2> QED
      BY <2>1, <2>2, <2>3, Asked
  <1>37. ASSUME NEW t \in Task, TaskStopped(t) PROVE NoCrossTalk'
    <2>1. PICK reply : Received(reply)
      BY <1>37 DEF TaskStopped
    <2>2. Waiting /\ ~Waiting'
      BY <1>37 DEF TaskStopped, TypeOK, TaskType
    <2>3. UNCHANGED <<link, toStub, hart>>
      BY <1>37 DEF TaskStopped
    <2> QED
      BY <2>1, <2>2, <2>3, Answered
  <1>38. ASSUME NEW t \in Task, TaskReport(t) PROVE NoCrossTalk'
    <2>1. Waiting' <=> Waiting
      BY <1>38 DEF TaskReport, TypeOK, TaskType
    <2> QED
      BY <1>38, <2>1, Quiet DEF TaskReport, TypeOK, TaskType
  <1>39. ASSUME NEW t \in Task, TaskExited(t) PROVE NoCrossTalk'
    <2>1. PICK reply : Received(reply)
      BY <1>39 DEF TaskExited
    <2>2. Waiting /\ ~Waiting'
      BY <1>39 DEF TaskExited, TypeOK, TaskType
    <2>3. UNCHANGED <<link, toStub, hart>>
      BY <1>39 DEF TaskExited
    <2> QED
      BY <2>1, <2>2, <2>3, Answered
  <1>40. ASSUME NEW t \in Task, TaskMarkExited(t) PROVE NoCrossTalk'
    <2>1. Waiting' <=> Waiting
      BY <1>40 DEF TaskMarkExited, TypeOK, TaskType
    <2> QED
      BY <1>40, <2>1, Quiet DEF TaskMarkExited, TypeOK, TaskType
  <1>41. ASSUME NEW t \in Task, TaskLost(t) PROVE NoCrossTalk'
    <2>1. CASE LinkBroken \/ link = "closed"
      <3>1. link' # "up"
        BY <1>41, <2>1 DEF TaskLost, LinkBroken
      <3> QED
        BY <3>1 DEF NoCrossTalk
    <2>2. CASE ~(LinkBroken \/ link = "closed")
      <3>1. PICK reply : Received(reply)
        BY <1>41, <2>2 DEF TaskLost
      <3>2. Waiting /\ ~Waiting'
        BY <1>41, <2>2 DEF TaskLost, TypeOK, TaskType
      <3>3. UNCHANGED <<link, toStub, hart>>
        BY <1>41 DEF TaskLost
      <3> QED
        BY <3>1, <3>2, <3>3, Answered
    <2> QED
      BY <2>1, <2>2
  <1>42. ASSUME NEW t \in Task, TaskEnd(t) PROVE NoCrossTalk'
    <2>1. Waiting' <=> Waiting
      BY <1>42 DEF TaskEnd, TypeOK, TaskType
    <2> QED
      BY <1>42, <2>1, Quiet DEF TaskEnd, TypeOK, TaskType
  <1>43. CASE Boot
    <2>1. Waiting' <=> Waiting
      BY <1>43 DEF Boot
    <2> QED
      BY <1>43, <2>1, Quiet DEF Boot
  <1>44. CASE StubSkips
    <2>1. link = "up" => Owed' = Owed
      <3> SUFFICES ASSUME link = "up" PROVE Owed' = Owed
        OBVIOUS
      <3>1. Pending(toStub') = Pending(toStub)
        BY <1>44, Served, <1>0, PendingNow, PendingNext DEF StubSkips
      <3>2. Len(toAdapter') = Len(toAdapter)
        BY <1>44 DEF StubSkips
      <3> QED
        BY <1>44, <3>1, <3>2, <1>0, PendingNow, PendingNext, Lengths DEF Owed, Pending, StubSkips
    <2> QED
      BY <1>44, <2>1, Conserved DEF StubSkips
  <1>45. CASE StubAnswers
    <2>1. link = "up" => Owed' = Owed
      <3> SUFFICES ASSUME link = "up" PROVE Owed' = Owed
        OBVIOUS
      <3>1. Pending(toStub) = Pending(toStub') + 1
        BY <1>45, Served DEF StubAnswers, Break, Resume
      <3>2. Len(toAdapter') = Len(toAdapter) + 1
        BY <1>45, Replied DEF StubAnswers, Reply
      <3> QED
        BY <1>45, <3>1, <3>2, <1>0, PendingNow, PendingNext, Lengths DEF Owed, Pending, StubAnswers
    <2> QED
      BY <1>45, <2>1, Conserved DEF StubAnswers
  <1>46. CASE StubArms
    <2>1. link = "up" => Owed' = Owed
      <3> SUFFICES ASSUME link = "up" PROVE Owed' = Owed
        OBVIOUS
      <3>1. Pending(toStub) = Pending(toStub') + 1
        BY <1>46, Served DEF StubArms, Break, Resume
      <3>2. Len(toAdapter') = Len(toAdapter) + 1
        BY <1>46, Replied DEF StubArms, Reply
      <3> QED
        BY <1>46, <3>1, <3>2, <1>0, PendingNow, PendingNext, Lengths DEF Owed, Pending, StubArms
    <2> QED
      BY <1>46, <2>1, Conserved DEF StubArms
  <1>47. CASE StubDisarms
    <2>1. link = "up" => Owed' = Owed
      <3> SUFFICES ASSUME link = "up" PROVE Owed' = Owed
        OBVIOUS
      <3>1. Pending(toStub) = Pending(toStub') + 1
        BY <1>47, Served DEF StubDisarms, Break, Resume
      <3>2. Len(toAdapter') = Len(toAdapter) + 1
        BY <1>47, Replied DEF StubDisarms, Reply
      <3> QED
        BY <1>47, <3>1, <3>2, <1>0, PendingNow, PendingNext, Lengths DEF Owed, Pending, StubDisarms
    <2> QED
      BY <1>47, <2>1, Conserved DEF StubDisarms
  <1>48. CASE StubSteps
    <2>1. link = "up" => Owed' = Owed
      <3> SUFFICES ASSUME link = "up" PROVE Owed' = Owed
        OBVIOUS
      <3>1. Pending(toStub) = Pending(toStub') + 1
        BY <1>48, Served DEF StubSteps, Break, Resume
      <3>2. Len(toAdapter') = Len(toAdapter) + 1
        BY <1>48, Replied DEF StubSteps, Reply
      <3> QED
        BY <1>48, <3>1, <3>2, <1>0, PendingNow, PendingNext, Lengths DEF Owed, Pending, StubSteps
    <2> QED
      BY <1>48, <2>1, Conserved DEF StubSteps
  <1>49. CASE StubResumes
    <2>1. link = "up" => Owed' = Owed
      <3> SUFFICES ASSUME link = "up" PROVE Owed' = Owed
        OBVIOUS
      <3>1. Pending(toStub) = Pending(toStub') + 1
        BY <1>49, Served DEF StubResumes, Break, Resume
      <3>2. Len(toAdapter') = Len(toAdapter)
        BY <1>49 DEF StubResumes
      <3> QED
        BY <1>49, <3>1, <3>2, <1>0, PendingNow, PendingNext, Lengths DEF Owed, Pending, StubResumes
    <2> QED
      BY <1>49, <2>1, Conserved DEF StubResumes
  <1>50. CASE StubDetaches
    <2>1. link = "up" => Owed' = Owed
      <3> SUFFICES ASSUME link = "up" PROVE Owed' = Owed
        OBVIOUS
      <3>1. Pending(toStub) = Pending(toStub') + 1
        BY <1>50, Served DEF StubDetaches, Break, Resume
      <3>2. Len(toAdapter') = Len(toAdapter)
        BY <1>50 DEF StubDetaches
      <3> QED
        BY <1>50, <3>1, <3>2, <1>0, PendingNow, PendingNext, Lengths DEF Owed, Pending, StubDetaches
    <2> QED
      BY <1>50, <2>1, Conserved DEF StubDetaches
  <1>51. CASE StubRefuses
    <2>1. link = "up" => Owed' = Owed
      <3> SUFFICES ASSUME link = "up" PROVE Owed' = Owed
        OBVIOUS
      <3>1. Pending(toStub) = Pending(toStub') + 1
        BY <1>51, Served DEF StubRefuses, Break, Resume
      <3>2. Len(toAdapter') = Len(toAdapter) + 1
        BY <1>51, Replied DEF StubRefuses, Reply
      <3> QED
        BY <1>51, <3>1, <3>2, <1>0, PendingNow, PendingNext, Lengths DEF Owed, Pending, StubRefuses
    <2> QED
      BY <1>51, <2>1, Conserved DEF StubRefuses
  <1>52. CASE StubInterrupted
    <2>1. link = "up" => Owed' = Owed
      <3> SUFFICES ASSUME link = "up" PROVE Owed' = Owed
        OBVIOUS
      <3>1. Pending(toStub') = Pending(toStub)
        BY <1>52, Served, <1>0, PendingNow, PendingNext DEF StubInterrupted
      <3>2. Len(toAdapter') = Len(toAdapter) + 1
        BY <1>52, Replied DEF StubInterrupted, Reply
      <3> QED
        BY <1>52, <3>1, <3>2, <1>0, PendingNow, PendingNext, Lengths DEF Owed, Pending, StubInterrupted
    <2> QED
      BY <1>52, <2>1, Conserved DEF StubInterrupted
  <1>53. CASE StubKilled
    <2>1. link' # "up"
      BY <1>53 DEF StubKilled, LinkInv, Gone
    <2> QED
      BY <2>1 DEF NoCrossTalk
  <1>54. CASE HartStops
    <2>1. link = "up" => Owed' = Owed
      <3> SUFFICES ASSUME link = "up" PROVE Owed' = Owed
        OBVIOUS
      <3>1. Pending(toStub') = Pending(toStub)
        BY <1>54 DEF HartStops
      <3>2. Len(toAdapter') = Len(toAdapter) + 1
        BY <1>54, Replied DEF HartStops, Reply
      <3> QED
        BY <1>54, <3>1, <3>2, <1>0, PendingNow, PendingNext, Lengths DEF Owed, Pending, HartStops
    <2> QED
      BY <1>54, <2>1, Conserved DEF HartStops
  <1>55. CASE DrainEnds
    <2>1. link' # "up"
      BY <1>55 DEF DrainEnds, LinkInv, Gone
    <2> QED
      BY <2>1 DEF NoCrossTalk
  <1>56. CASE SimulatorDies
    <2>1. link' # "up"
      BY <1>56 DEF SimulatorDies, LinkInv, Gone
    <2> QED
      BY <2>1 DEF NoCrossTalk
  <1>57. CASE Finished
    <2>1. Waiting' <=> Waiting
      BY <1>57 DEF Finished, vars
    <2> QED
      BY <1>57, <2>1, Quiet DEF Finished, vars
  <1> QED
    BY <1>1, <1>2, <1>3, <1>4, <1>5, <1>6, <1>7, <1>8, <1>9, <1>10,
       <1>11, <1>12, <1>13, <1>14, <1>15, <1>16, <1>17, <1>18, <1>19,
       <1>20, <1>21, <1>22, <1>23, <1>24, <1>25, <1>26, <1>27, <1>28,
       <1>29, <1>30, <1>31, <1>32, <1>33, <1>34, <1>35, <1>36, <1>37,
       <1>38, <1>39, <1>40, <1>41, <1>42, <1>43, <1>44, <1>45, <1>46,
       <1>47, <1>48, <1>49, <1>50, <1>51, <1>52, <1>53, <1>54, <1>55,
       <1>56, <1>57
       DEF Next, HandlerStep, TaskStep, StubStep

-----------------------------------------------------------------------------
LEMMA InitCInv == Init => CInv
  <1> SUFFICES ASSUME Init PROVE CInv
    OBVIOUS
  <1>1. LinkInv
    BY DEF Init, LinkInv, Waiting, ThreadAwaits, TaskAwaits
  <1>2. NoCrossTalk
    BY DEF Init, NoCrossTalk
  <1> QED
    BY <1>1, <1>2, InitIInv DEF CInv

LEMMA StepCInv == CInv /\ [Next]_vars => CInv'
  <1>1. ASSUME CInv, Next PROVE CInv'
    BY <1>1, StepIInv, LinkPreserved, CrossTalkPreserved DEF CInv
  <1>2. ASSUME CInv, UNCHANGED vars PROVE CInv'
    <2>1. IInv'
      BY <1>2, StepIInv DEF CInv
    <2>2. LinkInv' /\ NoCrossTalk'
      BY <1>2 DEF CInv, LinkInv, NoCrossTalk, Owed, Waiting, ThreadAwaits, TaskAwaits,
           vars, adapter, thread, wire, stub
    <2> QED
      BY <2>1, <2>2 DEF CInv
  <1> QED
    BY <1>1, <1>2

LEMMA CrossInvariance == Spec => []CInv
  BY InitCInv, StepCInv, PTL DEF Spec

(* RspClient pairs a reply with a request by their order on the stream     *)
(* alone (Exchange: SendPacket, then ReceivePacket). However many tasks,   *)
(* slots and triggers there are and whatever the client asks, no reader    *)
(* takes another's reply, and none is left over for a later one.           *)
THEOREM RepliesMatch == Spec => []NoCrossTalk
  BY CrossInvariance, PTL DEF CInv
-----------------------------------------------------------------------------
(* The adapter and the target agree on whether the target runs,            *)
(* DebugSession implements RunControl and each request is answered once,   *)
(* for a client that resumes only a target it was told is stopped. RInv is *)
(* the inductive invariant that the others build on.                       *)


(* Where the one run a client asked for is: with the request thread before *)
(* it reached the link, with a step, or with a task.                       *)
RunAsked == pc \in {"configurationDone", "continue", "resume", "step"}
Stepping == req.cmd = "step" /\ pc \in {"send", "await"}
Starting == req.cmd \in {"launch", "attach"} /\ pc \in {"send", "await"}
Runs(p) == p.op \in {Resume, "s"}

(* How far the client is, and what it was told, by what the thread does.   *)
StartUp ==
  /\ client \in {"new", "connecting", "failed", "configuring"} => told = "nothing"
  /\ client \in {"configuring", "active"} => rsp
  /\ client = "closed" => told = "ended"
  /\ pc = "connect" => req.cmd \in {"launch", "attach"}
  /\ pc = "interrupt" => req.cmd = "pause"
  /\ pc \in {"arm", "awaitArm"} => req.cmd = "setBreakpoints"
  /\ pc \in {"launch", "attach", "connect"} \/ Starting <=> client = "connecting"
  /\ client = "connecting" => replies = 0
  /\ RunAsked \/ Stepping => client = "active"
  /\ (\E t \in Task : task[t] # "idle") => client \in {"active", "closed"}
  /\ pc \in {"disconnect", "leave", "interruptKill", "kill", "answer", "cleanup", "reap", "done"}
       \/ (req.cmd = "disconnect" /\ pc \in {"send", "await"}) => told = "ended"

(* What the state of the link says about the target.                       *)
LinkEnds ==
  /\ pc = "launch" => hart = "none"
  /\ link = "none" => hart \notin {"running", "draining", "exited"}
  /\ link = "eof" => hart = "gone" /\ toStub = <<>>
  /\ link = "closed" => told = "ended"

(* A handler's packets run the target for a step or a detach only, and the *)
(* client has left before a detach.                                        *)
ScriptFits ==
  pc \in {"send", "await"} => \A i \in DOMAIN script :
    (Runs(script[i]) => Stepping) /\ (script[i].op = "D" => told = "ended")
DetachIsLast == \A i \in DOMAIN toStub : toStub[i].op = "D" => told = "ended"

SInv == StartUp /\ LinkEnds /\ ScriptFits /\ DetachIsLast

(* Nothing runs and nothing is about to: in the adapter, and at the target. *)
AllIdle == (\A t \in Task : task[t] = "idle") /\ ~running /\ ~exited
Still == hart \notin {"running", "draining", "exited"} /\ ~ResumeSent
Awaited == (Stepping /\ pc = "await") \/ \E t \in Task : TaskAwaits(t)

(* The adapter has one run at a time in hand, from the request to the news *)
(* of its end, and none while the client was last told "stopped".          *)
OneInHand ==
  /\ RunAsked \/ Stepping => told = "running" /\ AllIdle
  /\ Stepping => replies > 0
  /\ told \in {"nothing", "stopped"} => AllIdle
  /\ \A t, u \in Task : task[t] # "idle" /\ task[u] # "idle" => t = u
  /\ \A t \in Task : task[t] # "idle" =>
       ~RunAsked /\ ~Stepping /\ told \in {"running", "ended"}
  /\ \A t \in Task : task[t] \notin {"idle", "ending"} => ~exited
  /\ \A t \in Task : task[t] \notin {"idle", "send", "await"} => ~running

(* The target moves for that run only, and someone waits for its end.      *)
MustRest ==
  \/ RunAsked \/ (Stepping /\ pc = "send") \/ told # "running"
  \/ \E t \in Task : task[t] \in {"send", "report"}

OneAtTarget == told # "ended" =>
  /\ MustRest => Still
  /\ ResumeSent \/ hart \in {"running", "draining"} => Awaited
  /\ link = "up" /\ Awaited /\ hart = "exited" =>
       toAdapter # <<>> /\ Head(toAdapter) = "exit"

RInv == CInv /\ SInv /\ (Disciplined => OneInHand /\ OneAtTarget)

-----------------------------------------------------------------------------
LEMMA EndedStays == ASSUME Next, told = "ended" PROVE told' = "ended"
  <1> USE DEF adapter, thread, wire, stub, front, Respond, Tell, Caught
  <1>1. ASSUME NEW r \in Request, ReadMessage(r) PROVE told' = "ended"
    BY <1>1, RequestFields DEF ReadMessage, MayAsk
  <1>2. CASE ReadEndOfStream \/ HandleLocal \/ HandleLaunch \/ HandleLaunchFails \/
            HandleAttach \/ TryConnect \/ TryConnectTimesOut \/ SendPacket \/
            ExchangeFails \/ NegotiateReply
    BY <1>2
       DEF ReadEndOfStream, HandleLocal, HandleLaunch, HandleLaunchFails,
           HandleAttach, TryConnect, TryConnectTimesOut, SendPacket,
           ExchangeFails, NegotiateReply
  <1>3. CASE RequireHaltedFails \/ HandleInspect \/ InspectReply \/ HandleSetBreakpoints \/
            ClearBreakpointReply \/ SkipLine \/ TrySetBreakpoint \/
            SetBreakpointReply \/ SetBreakpointsDone \/ HandleConfigurationDone
    BY <1>3
       DEF RequireHaltedFails, HandleInspect, InspectReply,
           HandleSetBreakpoints, ClearBreakpointReply, SkipLine,
           TrySetBreakpoint, SetBreakpointReply, SetBreakpointsDone,
           HandleConfigurationDone
  <1>4. CASE HandleContinue \/ StartResume \/ HandleStep \/ StepReply \/ HandlePause \/
            Interrupt \/ HandleDisconnect \/ Leave \/ Kill \/ DetachReply
    BY <1>4
       DEF HandleContinue, StartResume, HandleStep, StepReply, HandlePause,
           Interrupt, HandleDisconnect, Leave, Kill, DetachReply
  <1>5. CASE DetachFails \/ AnswerDisconnect \/ Cleanup \/ ReapSimulator \/ Boot \/
            StubSkips \/ StubAnswers \/ StubArms \/ StubDisarms \/ StubSteps
    BY <1>5
       DEF DetachFails, AnswerDisconnect, Cleanup, ReapSimulator, Boot,
           StubSkips, StubAnswers, StubArms, StubDisarms, StubSteps
  <1>6. CASE StubResumes \/ StubDetaches \/ StubRefuses \/ StubInterrupted \/ StubKilled \/
            HartStops \/ DrainEnds \/ SimulatorDies \/ Finished
    BY <1>6
       DEF StubResumes, StubDetaches, StubRefuses, StubInterrupted, StubKilled,
           HartStops, DrainEnds, SimulatorDies, Finished, vars
  <1>7. ASSUME NEW t \in Task, TaskSend(t) \/ TaskStopped(t) \/ TaskReport(t) PROVE told' = "ended"
    BY <1>7 DEF TaskSend, TaskStopped, TaskReport
  <1>8. ASSUME NEW t \in Task, TaskExited(t) \/ TaskMarkExited(t) \/ TaskLost(t) PROVE told' = "ended"
    BY <1>8 DEF TaskExited, TaskMarkExited, TaskLost
  <1>9. ASSUME NEW t \in Task, TaskEnd(t) PROVE told' = "ended"
    BY <1>9 DEF TaskEnd
  <1> QED
    BY <1>1, <1>2, <1>3, <1>4, <1>5, <1>6, <1>7, <1>8, <1>9
       DEF Next, HandlerStep, TaskStep, StubStep

LEMMA StartUpPreserved == ASSUME CInv, SInv, Next PROVE StartUp'
  <1> USE DEF IInv, CInv, TypeOK, InHandler, Commands, adapter, thread, wire,
             stub, front, SInv, StartUp, RunAsked, Stepping, Starting,
             AdapterType, ThreadType, TaskType, FrontType, Respond, Tell,
             Caught, More
  <1>1. ASSUME NEW r \in Request, ReadMessage(r) PROVE StartUp'
    BY <1>1, RequestFields DEF ReadMessage, MayAsk, ConnectOnce, ControlPoint
  <1>2. CASE ReadEndOfStream \/ HandleLocal \/ HandleLaunch \/ HandleLaunchFails \/
            HandleAttach
    BY <1>2
       DEF ReadEndOfStream, HandleLocal, HandleLaunch, HandleLaunchFails,
           HandleAttach, ConnectOnce
  <1>3. CASE TryConnect \/ TryConnectTimesOut \/ SendPacket \/ ExchangeFails \/
            NegotiateReply
    BY <1>3
       DEF TryConnect, TryConnectTimesOut, SendPacket, ExchangeFails,
           NegotiateReply, ConnectOnce, Exchanging, LinkInv, Received, Waiting,
           ThreadAwaits
  <1>4. CASE RequireHaltedFails \/ HandleInspect \/ InspectReply \/ HandleSetBreakpoints \/
            ClearBreakpointReply
    BY <1>4
       DEF RequireHaltedFails, HandleInspect, InspectReply,
           HandleSetBreakpoints, ClearBreakpointReply, Guarded
  <1>5. CASE SkipLine \/ TrySetBreakpoint \/ SetBreakpointReply \/ SetBreakpointsDone \/
            HandleConfigurationDone
    BY <1>5
       DEF SkipLine, TrySetBreakpoint, SetBreakpointReply, SetBreakpointsDone,
           HandleConfigurationDone
  <1>6. CASE HandleContinue \/ StartResume \/ HandleStep \/ StepReply \/ HandlePause
    BY <1>6
       DEF HandleContinue, StartResume, HandleStep, StepReply, HandlePause
  <1>7. CASE Interrupt \/ HandleDisconnect \/ Leave \/ Kill \/ DetachReply
    BY <1>7 DEF Interrupt, HandleDisconnect, Leave, Kill, DetachReply
  <1>8. CASE DetachFails \/ AnswerDisconnect \/ Cleanup \/ ReapSimulator \/ Boot
    BY <1>8 DEF DetachFails, AnswerDisconnect, Cleanup, ReapSimulator, Boot
  <1>9. CASE StubSkips \/ StubAnswers \/ StubArms \/ StubDisarms \/ StubSteps
    BY <1>9 DEF StubSkips, StubAnswers, StubArms, StubDisarms, StubSteps
  <1>10. CASE StubResumes \/ StubDetaches \/ StubRefuses \/ StubInterrupted \/ StubKilled
    BY <1>10
       DEF StubResumes, StubDetaches, StubRefuses, StubInterrupted, StubKilled
  <1>11. CASE HartStops \/ DrainEnds \/ SimulatorDies \/ Finished
    BY <1>11 DEF HartStops, DrainEnds, SimulatorDies, Finished, vars
  <1>12. ASSUME NEW t \in Task, TaskSend(t) \/ TaskStopped(t) \/ TaskReport(t) PROVE StartUp'
    BY <1>12 DEF TaskSend, TaskStopped, TaskReport
  <1>13. ASSUME NEW t \in Task, TaskExited(t) \/ TaskMarkExited(t) \/ TaskLost(t) PROVE StartUp'
    BY <1>13 DEF TaskExited, TaskMarkExited, TaskLost
  <1>14. ASSUME NEW t \in Task, TaskEnd(t) PROVE StartUp'
    BY <1>14 DEF TaskEnd
  <1> QED
    BY <1>1, <1>2, <1>3, <1>4, <1>5, <1>6, <1>7, <1>8, <1>9, <1>10, <1>11,
       <1>12, <1>13, <1>14
       DEF Next, HandlerStep, TaskStep, StubStep

LEMMA LinkEndsPreserved == ASSUME CInv, SInv, Next PROVE LinkEnds'
  <1> USE DEF IInv, CInv, TypeOK, InHandler, Commands, adapter, thread, wire,
             stub, front, SInv, StartUp, LinkEnds, ConnectOnce, LinkInv,
             WireType, StubType, Respond, Tell, Caught, Write, Serving, Gone
  <1>1. ASSUME NEW r \in Request, ReadMessage(r) PROVE LinkEnds'
    BY <1>1, RequestFields DEF ReadMessage, MayAsk, ControlPoint
  <1>2. CASE ReadEndOfStream \/ HandleLocal \/ HandleLaunch \/ HandleLaunchFails
    BY <1>2 DEF ReadEndOfStream, HandleLocal, HandleLaunch, HandleLaunchFails
  <1>3. CASE HandleAttach \/ TryConnect \/ TryConnectTimesOut \/ SendPacket
    BY <1>3 DEF HandleAttach, TryConnect, TryConnectTimesOut, SendPacket
  <1>4. CASE ExchangeFails \/ NegotiateReply \/ RequireHaltedFails \/ HandleInspect
    BY <1>4
       DEF ExchangeFails, NegotiateReply, RequireHaltedFails, HandleInspect
  <1>5. CASE InspectReply \/ HandleSetBreakpoints \/ ClearBreakpointReply \/ SkipLine
    BY <1>5
       DEF InspectReply, HandleSetBreakpoints, ClearBreakpointReply, SkipLine
  <1>6. CASE TrySetBreakpoint \/ SetBreakpointReply \/ SetBreakpointsDone \/
            HandleConfigurationDone
    BY <1>6
       DEF TrySetBreakpoint, SetBreakpointReply, SetBreakpointsDone,
           HandleConfigurationDone
  <1>7. CASE HandleContinue \/ StartResume \/ HandleStep \/ StepReply
    BY <1>7 DEF HandleContinue, StartResume, HandleStep, StepReply
  <1>8. CASE HandlePause \/ Interrupt \/ HandleDisconnect \/ Leave
    BY <1>8 DEF HandlePause, Interrupt, HandleDisconnect, Leave
  <1>9. CASE Kill \/ DetachReply \/ DetachFails \/ AnswerDisconnect
    BY <1>9 DEF Kill, DetachReply, DetachFails, AnswerDisconnect
  <1>10. CASE Cleanup \/ ReapSimulator \/ Boot \/ StubSkips
    BY <1>10 DEF Cleanup, ReapSimulator, Boot, StubSkips
  <1>11. CASE StubAnswers \/ StubArms \/ StubDisarms \/ StubSteps
    BY <1>11 DEF StubAnswers, StubArms, StubDisarms, StubSteps
  <1>12. CASE StubResumes \/ StubDetaches \/ StubRefuses \/ StubInterrupted
    BY <1>12 DEF StubResumes, StubDetaches, StubRefuses, StubInterrupted
  <1>13. CASE StubKilled \/ HartStops \/ DrainEnds \/ SimulatorDies
    BY <1>13 DEF StubKilled, HartStops, DrainEnds, SimulatorDies
  <1>14. CASE Finished
    BY <1>14 DEF Finished, vars
  <1>15. ASSUME NEW t \in Task, TaskSend(t) \/ TaskStopped(t) \/ TaskReport(t) PROVE LinkEnds'
    BY <1>15 DEF TaskSend, TaskStopped, TaskReport
  <1>16. ASSUME NEW t \in Task, TaskExited(t) \/ TaskMarkExited(t) \/ TaskLost(t) PROVE LinkEnds'
    BY <1>16 DEF TaskExited, TaskMarkExited, TaskLost
  <1>17. ASSUME NEW t \in Task, TaskEnd(t) PROVE LinkEnds'
    BY <1>17 DEF TaskEnd
  <1> QED
    BY <1>1, <1>2, <1>3, <1>4, <1>5, <1>6, <1>7, <1>8, <1>9, <1>10, <1>11,
       <1>12, <1>13, <1>14, <1>15, <1>16, <1>17
       DEF Next, HandlerStep, TaskStep, StubStep

LEMMA Written ==
  ASSUME TypeOK, NEW p \in Packet, Write(p), NEW i \in DOMAIN toStub'
  PROVE  toStub'[i] = p \/ (i \in DOMAIN toStub /\ toStub'[i] = toStub[i])
  BY DEF Write, TypeOK, WireType

LEMMA ServedPackets ==
  ASSUME TypeOK, NEW op, Serving(op), NEW i \in DOMAIN toStub'
  PROVE  i + 1 \in DOMAIN toStub /\ toStub'[i] = toStub[i + 1]
  BY DEF Serving, TypeOK, WireType

LEMMA ScriptFitsPreserved == ASSUME CInv, SInv, Next PROVE ScriptFits'
  <1> USE DEF IInv, CInv, TypeOK, InHandler, Commands, adapter, thread, wire,
             stub, front, SInv, ScriptFits, Stepping, Respond, Tell, Caught,
             More
  <1>1. told = "ended" => told' = "ended"
    BY EndedStays
  <1>2. ASSUME NEW r \in Request, ReadMessage(r) PROVE ScriptFits'
    BY <1>2, RequestFields, <1>1 DEF ReadMessage, MayAsk
  <1>3. CASE ReadEndOfStream \/ HandleLocal \/ HandleLaunch \/ HandleLaunchFails \/
            HandleAttach
    BY <1>3, <1>1
       DEF ReadEndOfStream, HandleLocal, HandleLaunch, HandleLaunchFails,
           HandleAttach
  <1>4. CASE TryConnect
    BY <1>4, <1>1 DEF TryConnect, Negotiation, Plain, Arm, Disarm, Runs, Resume
  <1>5. CASE TryConnectTimesOut
    BY <1>5, <1>1 DEF TryConnectTimesOut
  <1>6. CASE SendPacket
    BY <1>6, <1>1, SeqFacts DEF SendPacket, Stepping, ThreadType, Plain, Arm, Disarm, Runs, Resume
  <1>7. CASE ExchangeFails \/ NegotiateReply \/ RequireHaltedFails
    BY <1>7, <1>1 DEF ExchangeFails, NegotiateReply, RequireHaltedFails
  <1>8. CASE HandleInspect
    <2>1. pc' = "send" => script' = [i \in 1..req.reads |-> Plain("read")]
      BY <1>8 DEF HandleInspect
    <2>2. pc' \in {"read", "send"}
      BY <1>8 DEF HandleInspect
    <2>3. pc' = "send" => \A i \in DOMAIN script' : script'[i].op = "read"
      BY <2>1 DEF Plain
    <2> QED
      BY <2>2, <2>3 DEF Runs, Resume
  <1>9. CASE InspectReply
    BY <1>9, <1>1 DEF InspectReply
  <1>10. CASE HandleSetBreakpoints
    BY <1>10, <1>1 DEF HandleSetBreakpoints, Plain, Arm, Disarm, Runs, Resume
  <1>11. CASE ClearBreakpointReply \/ SkipLine \/ TrySetBreakpoint \/ SetBreakpointReply \/
            SetBreakpointsDone \/ HandleConfigurationDone
    BY <1>11, <1>1
       DEF ClearBreakpointReply, SkipLine, TrySetBreakpoint,
           SetBreakpointReply, SetBreakpointsDone, HandleConfigurationDone
  <1>12. CASE HandleContinue \/ StartResume
    BY <1>12, <1>1 DEF HandleContinue, StartResume
  <1>13. CASE HandleStep
    BY <1>13, <1>1 DEF HandleStep, Stepping, Plain, Arm, Disarm, Runs, Resume
  <1>14. CASE StepReply \/ HandlePause \/ Interrupt \/ HandleDisconnect
    BY <1>14, <1>1 DEF StepReply, HandlePause, Interrupt, HandleDisconnect
  <1>15. CASE Leave
    BY <1>15, <1>1 DEF Leave, StartUp, Plain, Arm, Disarm, Runs, Resume
  <1>16. CASE Kill \/ DetachReply \/ DetachFails \/ AnswerDisconnect \/ Cleanup \/
            ReapSimulator
    BY <1>16, <1>1
       DEF Kill, DetachReply, DetachFails, AnswerDisconnect, Cleanup,
           ReapSimulator
  <1>17. CASE Boot \/ StubSkips \/ StubAnswers \/ StubArms \/ StubDisarms \/ StubSteps
    BY <1>17, <1>1
       DEF Boot, StubSkips, StubAnswers, StubArms, StubDisarms, StubSteps
  <1>18. CASE StubResumes \/ StubDetaches \/ StubRefuses \/ StubInterrupted \/ StubKilled \/
            HartStops
    BY <1>18, <1>1
       DEF StubResumes, StubDetaches, StubRefuses, StubInterrupted, StubKilled,
           HartStops
  <1>19. CASE DrainEnds \/ SimulatorDies \/ Finished
    BY <1>19, <1>1 DEF DrainEnds, SimulatorDies, Finished, vars
  <1>20. ASSUME NEW t \in Task, TaskSend(t) \/ TaskStopped(t) \/ TaskReport(t) PROVE ScriptFits'
    BY <1>20, <1>1 DEF TaskSend, TaskStopped, TaskReport
  <1>21. ASSUME NEW t \in Task, TaskExited(t) \/ TaskMarkExited(t) \/ TaskLost(t) PROVE ScriptFits'
    BY <1>21, <1>1 DEF TaskExited, TaskMarkExited, TaskLost
  <1>22. ASSUME NEW t \in Task, TaskEnd(t) PROVE ScriptFits'
    BY <1>22, <1>1 DEF TaskEnd
  <1> QED
    BY <1>1, <1>2, <1>3, <1>4, <1>5, <1>6, <1>7, <1>8, <1>9, <1>10, <1>11,
       <1>12, <1>13, <1>14, <1>15, <1>16, <1>17, <1>18, <1>19, <1>20, <1>21,
       <1>22
       DEF Next, HandlerStep, TaskStep, StubStep

LEMMA DetachIsLastPreserved == ASSUME CInv, SInv, Next PROVE DetachIsLast'
  <1> USE DEF IInv, CInv, TypeOK, InHandler, Commands, adapter, thread, wire,
             stub, front, SInv, DetachIsLast
  <1>1. told = "ended" => told' = "ended"
    BY EndedStays
  <1>2. ASSUME NEW r \in Request, ReadMessage(r) PROVE DetachIsLast'
    BY <1>2, RequestFields, <1>1 DEF ReadMessage, MayAsk
  <1>3. CASE ReadEndOfStream \/ HandleLocal \/ HandleLaunch \/ HandleLaunchFails \/
            HandleAttach \/ TryConnect
    BY <1>3, <1>1
       DEF ReadEndOfStream, HandleLocal, HandleLaunch, HandleLaunchFails,
           HandleAttach, TryConnect
  <1>4. CASE TryConnectTimesOut
    BY <1>4, <1>1 DEF TryConnectTimesOut
  <1>5. CASE SendPacket
    <2>1. Head(script) \in Packet /\ Write(Head(script))
      BY <1>5, Packets, SeqFacts DEF SendPacket, ThreadType, Resume, Break
    <2>2. Head(script).op = "D" => told = "ended"
      BY <1>5 DEF SendPacket, Plain, Arm, Resume, Break, ThreadType, ScriptFits
    <2> QED
      BY <1>1, <2>1, <2>2, Written
  <1>6. CASE ExchangeFails \/ NegotiateReply \/ RequireHaltedFails \/ HandleInspect \/
            InspectReply \/ HandleSetBreakpoints
    BY <1>6, <1>1
       DEF ExchangeFails, NegotiateReply, RequireHaltedFails, HandleInspect,
           InspectReply, HandleSetBreakpoints
  <1>7. CASE ClearBreakpointReply \/ SkipLine
    BY <1>7, <1>1 DEF ClearBreakpointReply, SkipLine
  <1>8. CASE TrySetBreakpoint
    <2>1. Arm(Head(lines)) \in Packet /\ Write(Arm(Head(lines)))
      BY <1>8, Packets, SeqFacts DEF TrySetBreakpoint, ThreadType, Resume, Break
    <2>2. Arm(Head(lines)).op = "D" => told = "ended"
      BY <1>8 DEF TrySetBreakpoint, Plain, Arm, Resume, Break, ThreadType, ScriptFits
    <2> QED
      BY <1>1, <2>1, <2>2, Written
  <1>9. CASE SetBreakpointReply \/ SetBreakpointsDone \/ HandleConfigurationDone \/
            HandleContinue \/ StartResume \/ HandleStep
    BY <1>9, <1>1
       DEF SetBreakpointReply, SetBreakpointsDone, HandleConfigurationDone,
           HandleContinue, StartResume, HandleStep
  <1>10. CASE StepReply \/ HandlePause
    BY <1>10, <1>1 DEF StepReply, HandlePause
  <1>11. CASE Interrupt
    <2>1. CASE Write(Plain(Break))
      BY <1>1, <2>1, Packets, Written DEF Plain, Break
    <2>2. CASE UNCHANGED toStub
      BY <1>1, <2>2
    <2> QED
      BY <1>11, <2>1, <2>2 DEF Interrupt
  <1>12. CASE HandleDisconnect \/ Leave
    BY <1>12, <1>1 DEF HandleDisconnect, Leave
  <1>13. CASE Kill
    <2>1. CASE Write(Plain(Break)) \/ Write(Plain("k"))
      BY <1>1, <2>1, Packets, Written DEF Plain, Break
    <2>2. CASE UNCHANGED toStub
      BY <1>1, <2>2
    <2> QED
      BY <1>13, <2>1, <2>2 DEF Kill
  <1>14. CASE DetachReply \/ DetachFails \/ AnswerDisconnect \/ Cleanup
    BY <1>14, <1>1 DEF DetachReply, DetachFails, AnswerDisconnect, Cleanup
  <1>15. CASE ReapSimulator
    BY <1>15 DEF ReapSimulator
  <1>16. CASE Boot \/ StubSkips \/ StubAnswers \/ StubArms \/ StubDisarms \/ StubSteps
    BY <1>16, <1>1, ServedPackets
       DEF Boot, StubSkips, StubAnswers, StubArms, StubDisarms, StubSteps
  <1>17. CASE StubResumes \/ StubDetaches \/ StubRefuses \/ StubInterrupted \/ StubKilled \/
            HartStops
    BY <1>17, <1>1, ServedPackets
       DEF StubResumes, StubDetaches, StubRefuses, StubInterrupted, StubKilled,
           HartStops, Gone
  <1>18. CASE DrainEnds \/ SimulatorDies \/ Finished
    BY <1>18, <1>1 DEF DrainEnds, SimulatorDies, Finished, Gone, vars
  <1>19. ASSUME NEW t \in Task, TaskSend(t) PROVE DetachIsLast'
    <2>1. Plain(Resume) \in Packet /\ Write(Plain(Resume))
      BY <1>19, Packets, SeqFacts DEF TaskSend, ThreadType, Resume, Break
    <2>2. Plain(Resume).op = "D" => told = "ended"
      BY <1>19 DEF TaskSend, Plain, Arm, Resume, Break, ThreadType, ScriptFits
    <2> QED
      BY <1>1, <2>1, <2>2, Written
  <1>20. ASSUME NEW t \in Task, TaskStopped(t) \/ TaskReport(t) \/ TaskExited(t) PROVE DetachIsLast'
    BY <1>20, <1>1 DEF TaskStopped, TaskReport, TaskExited
  <1>21. ASSUME NEW t \in Task, TaskMarkExited(t) \/ TaskLost(t) \/ TaskEnd(t) PROVE DetachIsLast'
    BY <1>21, <1>1 DEF TaskMarkExited, TaskLost, TaskEnd
  <1> QED
    BY <1>1, <1>2, <1>3, <1>4, <1>5, <1>6, <1>7, <1>8, <1>9, <1>10, <1>11,
       <1>12, <1>13, <1>14, <1>15, <1>16, <1>17, <1>18, <1>19, <1>20, <1>21
       DEF Next, HandlerStep, TaskStep, StubStep

LEMMA OneInHandPreserved == ASSUME Disciplined, RInv, Next PROVE OneInHand'
  <1> USE DEF RInv, SInv, StartUp, OneInHand, AllIdle, RunAsked, Stepping,
             IInv, CInv, TypeOK, InHandler, Commands, adapter, thread, wire,
             stub, front, AdapterType, ThreadType, TaskType, Respond, Tell,
             Caught
  <1>1. ASSUME NEW r \in Request, ReadMessage(r) PROVE OneInHand'
    BY <1>1, RequestFields DEF ReadMessage, MayAsk
  <1>2. CASE ReadEndOfStream \/ HandleLocal \/ HandleLaunch \/ HandleLaunchFails
    BY <1>2 DEF ReadEndOfStream, HandleLocal, HandleLaunch, HandleLaunchFails
  <1>3. CASE HandleAttach \/ TryConnect \/ TryConnectTimesOut \/ SendPacket
    BY <1>3 DEF HandleAttach, TryConnect, TryConnectTimesOut, SendPacket
  <1>4. CASE ExchangeFails
    BY <1>4 DEF ExchangeFails, Exchanging
  <1>5. CASE NegotiateReply
    BY <1>5 DEF NegotiateReply, Starting
  <1>6. CASE RequireHaltedFails
    BY <1>6 DEF RequireHaltedFails, Guarded
  <1>7. CASE HandleInspect
    BY <1>7 DEF HandleInspect, Halted
  <1>8. CASE InspectReply \/ HandleSetBreakpoints \/ ClearBreakpointReply \/ SkipLine
    BY <1>8
       DEF InspectReply, HandleSetBreakpoints, ClearBreakpointReply, SkipLine
  <1>9. CASE TrySetBreakpoint \/ SetBreakpointReply \/ SetBreakpointsDone \/
            HandleConfigurationDone
    BY <1>9
       DEF TrySetBreakpoint, SetBreakpointReply, SetBreakpointsDone,
           HandleConfigurationDone
  <1>10. CASE HandleContinue \/ StartResume \/ HandleStep \/ StepReply
    BY <1>10 DEF HandleContinue, StartResume, HandleStep, StepReply, Halted
  <1>11. CASE HandlePause \/ Interrupt \/ HandleDisconnect \/ Leave
    BY <1>11 DEF HandlePause, Interrupt, HandleDisconnect, Leave
  <1>12. CASE Kill \/ DetachReply \/ DetachFails \/ AnswerDisconnect
    BY <1>12 DEF Kill, DetachReply, DetachFails, AnswerDisconnect
  <1>13. CASE Cleanup \/ ReapSimulator \/ Boot \/ StubSkips
    BY <1>13 DEF Cleanup, ReapSimulator, Boot, StubSkips
  <1>14. CASE StubAnswers \/ StubArms \/ StubDisarms \/ StubSteps
    BY <1>14 DEF StubAnswers, StubArms, StubDisarms, StubSteps
  <1>15. CASE StubResumes \/ StubDetaches \/ StubRefuses \/ StubInterrupted
    BY <1>15 DEF StubResumes, StubDetaches, StubRefuses, StubInterrupted
  <1>16. CASE StubKilled \/ HartStops \/ DrainEnds \/ SimulatorDies
    BY <1>16 DEF StubKilled, HartStops, DrainEnds, SimulatorDies
  <1>17. CASE Finished
    BY <1>17 DEF Finished, vars
  <1>18. ASSUME NEW t \in Task, TaskSend(t) PROVE OneInHand'
    BY <1>18 DEF TaskSend
  <1>19. ASSUME NEW t \in Task, TaskStopped(t) PROVE OneInHand'
    BY <1>19 DEF TaskStopped
  <1>20. ASSUME NEW t \in Task, TaskReport(t) PROVE OneInHand'
    BY <1>20 DEF TaskReport
  <1>21. ASSUME NEW t \in Task, TaskExited(t) PROVE OneInHand'
    BY <1>21 DEF TaskExited
  <1>22. ASSUME NEW t \in Task, TaskMarkExited(t) PROVE OneInHand'
    BY <1>22 DEF TaskMarkExited
  <1>23. ASSUME NEW t \in Task, TaskLost(t) PROVE OneInHand'
    BY <1>23 DEF TaskLost
  <1>24. ASSUME NEW t \in Task, TaskEnd(t) PROVE OneInHand'
    BY <1>24 DEF TaskEnd
  <1> QED
    BY <1>1, <1>2, <1>3, <1>4, <1>5, <1>6, <1>7, <1>8, <1>9, <1>10, <1>11,
       <1>12, <1>13, <1>14, <1>15, <1>16, <1>17, <1>18, <1>19, <1>20, <1>21,
       <1>22, <1>23, <1>24
       DEF Next, HandlerStep, TaskStep, StubStep

-----------------------------------------------------------------------------
(* Resume packets in flight.                                               *)

LEMMA SentByWrite ==
  ASSUME TypeOK, NEW p \in Packet, Write(p), ResumeSent'
  PROVE  ResumeSent \/ Runs(p)
  BY Written DEF ResumeSent, Runs

LEMMA SentByServing ==
  ASSUME TypeOK, NEW op, Serving(op), ResumeSent'
  PROVE  ResumeSent
  BY ServedPackets DEF ResumeSent

LEMMA NothingPending ==
  ASSUME NEW s \in Seq(Packet), Pending(s) = 0, NEW i \in DOMAIN s
  PROVE  ~Asks(s[i])
  BY PendingType, FS_EmptySet DEF Pending, Requests, Asks

LEMMA NoneSent ==
  ASSUME TypeOK, Pending(toStub) = 0
  PROVE  ~ResumeSent
  BY NothingPending DEF ResumeSent, Asks, Resume, Break, TypeOK, WireType

(* The account of the link leaves room for one of: a resume packet on its  *)
(* way, a run, and an answer.                                              *)
LEMMA OneOwed ==
  ASSUME TypeOK, NoCrossTalk, link = "up"
  PROVE  /\ ResumeSent => toAdapter = <<>> /\ hart \notin {"running", "draining"}
         /\ hart \in {"running", "draining"} => toAdapter = <<>> /\ ~ResumeSent
  <1> DEFINE runs == IF hart \in {"running", "draining"} THEN 1 ELSE 0
  <1>1. Pending(toStub) \in Nat /\ Len(toAdapter) \in Nat
    BY PendingNow, Lengths
  <1>2. Pending(toStub) + Len(toAdapter) + runs <= 1
    BY <1>1 DEF NoCrossTalk, Owed, Pending
  <1>3. ResumeSent => Pending(toStub) >= 1
    BY <1>1, NoneSent
  <1>4. toAdapter # <<>> => Len(toAdapter) >= 1
    BY DEF TypeOK, WireType
  <1> QED
    BY <1>1, <1>2, <1>3, <1>4

(* Nobody waits, or the answer is there: no packet asks for one.           *)
LEMMA NoneAsks ==
  ASSUME TypeOK, NoCrossTalk, link = "up", ~Waiting \/ toAdapter # <<>>
  PROVE  \A i \in DOMAIN toStub : ~Asks(toStub[i])
  <1>1. Pending(toStub) \in Nat /\ Len(toAdapter) \in Nat
    BY PendingNow, Lengths
  <1>2. toAdapter # <<>> => Len(toAdapter) >= 1
    BY DEF TypeOK, WireType
  <1>3. Pending(toStub) = 0
    BY <1>1, <1>2 DEF NoCrossTalk, Owed, Pending, Waiting
  <1> QED
    BY <1>3, NothingPending DEF TypeOK, WireType

(* A packet asks: no answer is there yet.                                  *)
LEMMA NoneAnswered ==
  ASSUME TypeOK, NoCrossTalk, link = "up", NEW i \in DOMAIN toStub, Asks(toStub[i])
  PROVE  toAdapter = <<>> /\ Waiting
  BY NoneAsks

LEMMA NobodyAnswered ==
  ASSUME TypeOK, NoCrossTalk, link = "up", ~Waiting
  PROVE  toAdapter = <<>>
  <1>1. Pending(toStub) \in Nat /\ Len(toAdapter) \in Nat
    BY PendingNow, Lengths
  <1>2. toAdapter # <<>> => Len(toAdapter) >= 1
    BY DEF TypeOK, WireType
  <1> QED
    BY <1>1, <1>2 DEF NoCrossTalk, Owed, Pending, Waiting

LEMMA HeadServed ==
  ASSUME TypeOK, NEW op, Serving(op)
  PROVE  1 \in DOMAIN toStub /\ Head(toStub) = toStub[1] /\ toStub[1].op = op
  BY DEF Serving, TypeOK, WireType

(* A reply is there to be read: the run it answers is over.                *)
LEMMA AfterReply ==
  ASSUME CInv, SInv, told # "ended", toAdapter # <<>>
  PROVE  ~ResumeSent /\ hart \notin {"running", "draining"}
  <1> USE DEF CInv, IInv, SInv
  <1>1. CASE link = "up"
    BY <1>1, OneOwed
  <1>2. CASE link = "eof"
    BY <1>2 DEF LinkEnds, ResumeSent
  <1>3. CASE link \in {"none", "closed"}
    BY <1>3 DEF LinkEnds, LinkInv
  <1> QED
    BY <1>1, <1>2, <1>3 DEF TypeOK, WireType

-----------------------------------------------------------------------------
(* What a step may do to the run in hand.                                  *)

(* It touches neither the link nor the stub.                               *)
LEMMA Unmoved ==
  ASSUME OneAtTarget, UNCHANGED <<wire, stub>>, told # "ended",
         MustRest' => MustRest, Awaited' <=> Awaited
  PROVE  OneAtTarget'
  BY DEF OneAtTarget, Still, ResumeSent, wire, stub

(* The reader that waits takes a reply: a "stop" if it then must rest.     *)
LEMMA ReplyTaken ==
  ASSUME CInv, SInv, OneAtTarget, told # "ended", NEW reply, Received(reply),
         UNCHANGED <<link, toStub, stub>>, ~Awaited',
         MustRest' => MustRest \/ hart # "exited"
  PROVE  OneAtTarget'
  <1>1. ~ResumeSent /\ hart \notin {"running", "draining"}
    BY AfterReply DEF Received
  <1>2. ResumeSent' <=> ResumeSent
    BY DEF ResumeSent
  <1> QED
    BY <1>1, <1>2 DEF OneAtTarget, Still, stub

(* A packet is written that runs nothing.                                  *)
LEMMA NoRunWritten ==
  ASSUME TypeOK, OneAtTarget, told # "ended", NEW p \in Packet, Write(p), ~Runs(p),
         UNCHANGED <<link, toAdapter, stub>>, MustRest' => MustRest, Awaited' <=> Awaited
  PROVE  OneAtTarget'
  <1>1. ResumeSent' => ResumeSent
    BY SentByWrite
  <1> QED
    BY <1>1 DEF OneAtTarget, Still, stub

(* The packet that runs the target is written, and its end is waited for.  *)
LEMMA RunWritten ==
  ASSUME OneAtTarget, told # "ended", MustRest, Awaited', ~MustRest', UNCHANGED stub
  PROVE  OneAtTarget'
  BY DEF OneAtTarget, Still, stub

Aside == UNCHANGED <<pc, req, told, task>>

(* The stub serves a packet without a change of the target.                *)
LEMMA ServedAtRest ==
  ASSUME TypeOK, OneAtTarget, told # "ended", Aside, NEW op, Serving(op),
         UNCHANGED <<link, hart>>,
         toAdapter # <<>> => toAdapter' # <<>> /\ Head(toAdapter') = Head(toAdapter)
  PROVE  OneAtTarget'
  <1>1. ResumeSent' => ResumeSent
    BY SentByServing
  <1>2. (MustRest' <=> MustRest) /\ (Awaited' <=> Awaited)
    BY DEF Aside, MustRest, Awaited, RunAsked, Stepping, TaskAwaits
  <1> QED
    BY <1>1, <1>2 DEF OneAtTarget, Still

(* It runs, or the run ends: there is a reader, and only one who waits.    *)
LEMMA Run ==
  ASSUME OneAtTarget, OneInHand, told # "ended", Aside,
         ResumeSent \/ hart \in {"running", "draining"},
         link' = "up" /\ hart' = "exited" => toAdapter' # <<>> /\ Head(toAdapter') = "exit"
  PROVE  OneAtTarget'
  <1>1. Awaited
    BY DEF OneAtTarget
  <1>2. ~MustRest
    BY <1>1 DEF OneAtTarget, Still
  <1>3. (MustRest' <=> MustRest) /\ (Awaited' <=> Awaited)
    BY DEF Aside, MustRest, Awaited, RunAsked, Stepping, TaskAwaits
  <1> QED
    BY <1>1, <1>2, <1>3 DEF OneAtTarget

(* The simulator is gone, or not there yet.                                *)
LEMMA NothingThere ==
  ASSUME hart' \in {"booting", "halted", "gone"}, ~ResumeSent'
  PROVE  OneAtTarget'
  BY DEF OneAtTarget, Still

(* A reply is appended to those not read yet.                              *)
LEMMA ReplyBehind ==
  ASSUME TypeOK, NEW reply \in Reply, SendReply(reply), toAdapter # <<>>
  PROVE  toAdapter' # <<>> /\ Head(toAdapter') = Head(toAdapter)
  BY DEF SendReply, TypeOK, WireType

LEMMA ReplyFirst ==
  ASSUME TypeOK, NEW reply \in Reply, SendReply(reply), toAdapter = <<>>, link = "up"
  PROVE  toAdapter' # <<>> /\ Head(toAdapter') = reply
  BY DEF SendReply, TypeOK, WireType

LEMMA OneAtTargetPreserved == ASSUME Disciplined, RInv, Next PROVE OneAtTarget'
  <1> SUFFICES ASSUME told' # "ended" PROVE OneAtTarget'
    BY DEF OneAtTarget
  <1> USE DEF RInv, SInv, IInv, CInv, TypeOK, InHandler, Commands, adapter,
             thread, wire, stub, front, StartUp, OneInHand, AllIdle, MustRest,
             Awaited, RunAsked, Stepping, ThreadType, TaskType, TaskAwaits,
             Respond, Tell, Caught
  <1>1. told # "ended"
    BY EndedStays
  <1>0. link = "up" /\ Awaited /\ hart = "exited" => toAdapter # <<>> /\ Head(toAdapter) = "exit"
    BY <1>1 DEF OneAtTarget
  <1>2. ASSUME NEW r \in Request, ReadMessage(r) PROVE OneAtTarget'
    <2>1. UNCHANGED <<wire, stub>> /\ (MustRest' => MustRest) /\ (Awaited' <=> Awaited)
      BY <1>2, RequestFields DEF ReadMessage, MayAsk
    <2> QED
      BY <1>1, <2>1, Unmoved
  <1>3. CASE HandleLocal \/ HandleLaunchFails \/ HandleAttach \/ TryConnectTimesOut
    <2>1. UNCHANGED <<wire, stub>> /\ (MustRest' => MustRest) /\ (Awaited' <=> Awaited)
      BY <1>3
         DEF HandleLocal, HandleLaunchFails, HandleAttach, TryConnectTimesOut
    <2> QED
      BY <1>1, <2>1, Unmoved
  <1>4. CASE RequireHaltedFails
    <2>1. UNCHANGED <<wire, stub>> /\ (MustRest' => MustRest) /\ (Awaited' <=> Awaited)
      BY <1>4 DEF RequireHaltedFails, Guarded
    <2> QED
      BY <1>1, <2>1, Unmoved
  <1>5. CASE HandleInspect
    <2>1. UNCHANGED <<wire, stub>> /\ (MustRest' => MustRest) /\ (Awaited' <=> Awaited)
      BY <1>5 DEF HandleInspect
    <2> QED
      BY <1>1, <2>1, Unmoved
  <1>6. CASE HandleSetBreakpoints \/ SkipLine \/ SetBreakpointsDone
    <2>1. UNCHANGED <<wire, stub>> /\ (MustRest' => MustRest) /\ (Awaited' <=> Awaited)
      BY <1>6 DEF HandleSetBreakpoints, SkipLine, SetBreakpointsDone
    <2> QED
      BY <1>1, <2>1, Unmoved
  <1>7. CASE HandleConfigurationDone \/ HandleContinue
    <2>1. UNCHANGED <<wire, stub>> /\ (MustRest' => MustRest) /\ (Awaited' <=> Awaited)
      BY <1>7 DEF HandleConfigurationDone, HandleContinue
    <2> QED
      BY <1>1, <2>1, Unmoved
  <1>8. CASE StartResume
    <2>1. UNCHANGED <<wire, stub>> /\ (MustRest' => MustRest) /\ (Awaited' <=> Awaited)
      BY <1>8 DEF StartResume
    <2> QED
      BY <1>1, <2>1, Unmoved
  <1>9. CASE HandleStep
    <2>1. UNCHANGED <<wire, stub>> /\ (MustRest' => MustRest) /\ (Awaited' <=> Awaited)
      BY <1>9 DEF HandleStep
    <2> QED
      BY <1>1, <2>1, Unmoved
  <1>10. CASE HandlePause
    <2>1. UNCHANGED <<wire, stub>> /\ (MustRest' => MustRest) /\ (Awaited' <=> Awaited)
      BY <1>10 DEF HandlePause
    <2> QED
      BY <1>1, <2>1, Unmoved
  <1>11. CASE Finished
    <2>1. UNCHANGED <<wire, stub>> /\ (MustRest' => MustRest) /\ (Awaited' <=> Awaited)
      BY <1>11 DEF Finished, vars
    <2> QED
      BY <1>1, <2>1, Unmoved
  <1>12. CASE ReadEndOfStream \/ HandleDisconnect \/ Leave \/ Kill
    BY <1>12, <1>1 DEF ReadEndOfStream, HandleDisconnect, Leave, Kill, StartUp
  <1>13. CASE DetachReply \/ DetachFails \/ AnswerDisconnect \/ Cleanup \/ ReapSimulator
    BY <1>13, <1>1
       DEF DetachReply, DetachFails, AnswerDisconnect, Cleanup, ReapSimulator,
           StartUp
  <1>14. CASE HandleLaunch
    <2>1. Still
      BY <1>14, <1>1 DEF HandleLaunch, OneAtTarget
    <2>2. hart' = "booting" /\ ~ResumeSent'
      BY <1>14, <2>1 DEF HandleLaunch, Still, ResumeSent
    <2> QED
      BY <2>2, NothingThere
  <1>15. CASE TryConnect
    <2>1. toStub' = <<>> /\ hart' = "halted"
      BY <1>15 DEF TryConnect, ConnectOnce, LinkInv
    <2> QED
      BY <2>1, NothingThere DEF ResumeSent
  <1>16. CASE ExchangeFails
    <2>1. toStub' = <<>> /\ hart' = "gone"
      BY <1>16 DEF ExchangeFails, LinkBroken, LinkEnds
    <2> QED
      BY <2>1, NothingThere DEF ResumeSent
  <1>17. CASE StubKilled \/ DrainEnds \/ SimulatorDies
    <2>1. toStub' = <<>> /\ hart' = "gone"
      BY <1>17 DEF StubKilled, DrainEnds, SimulatorDies, Gone
    <2> QED
      BY <2>1, NothingThere DEF ResumeSent
  <1>18. CASE NegotiateReply
    <2>1. PICK reply : Received(reply)
      BY <1>18 DEF NegotiateReply
    <2>2. UNCHANGED <<link, toStub, stub>>
      BY <1>18 DEF NegotiateReply
    <2>3. ~Awaited' /\ (MustRest' => MustRest)
      BY <1>18 DEF NegotiateReply, ExclusiveExchange, Exchanging
    <2> QED
      BY <1>1, <2>1, <2>2, <2>3, ReplyTaken
  <1>19. CASE InspectReply
    <2>1. PICK reply : Received(reply)
      BY <1>19 DEF InspectReply
    <2>2. UNCHANGED <<link, toStub, stub>>
      BY <1>19 DEF InspectReply
    <2>3. ~Awaited' /\ (MustRest' => MustRest)
      BY <1>19 DEF InspectReply, ExclusiveExchange, Exchanging
    <2> QED
      BY <1>1, <2>1, <2>2, <2>3, ReplyTaken
  <1>20. CASE ClearBreakpointReply
    <2>1. PICK reply : Received(reply)
      BY <1>20 DEF ClearBreakpointReply
    <2>2. UNCHANGED <<link, toStub, stub>>
      BY <1>20 DEF ClearBreakpointReply
    <2>3. ~Awaited' /\ (MustRest' => MustRest)
      BY <1>20 DEF ClearBreakpointReply, ExclusiveExchange, Exchanging
    <2> QED
      BY <1>1, <2>1, <2>2, <2>3, ReplyTaken
  <1>21. CASE SetBreakpointReply
    <2>1. PICK reply : Received(reply)
      BY <1>21 DEF SetBreakpointReply
    <2>2. UNCHANGED <<link, toStub, stub>>
      BY <1>21 DEF SetBreakpointReply
    <2>3. ~Awaited' /\ (MustRest' => MustRest)
      BY <1>21 DEF SetBreakpointReply, ExclusiveExchange, Exchanging
    <2> QED
      BY <1>1, <2>1, <2>2, <2>3, ReplyTaken
  <1>22. CASE StepReply
    <2>1. PICK reply : Received(reply)
      BY <1>22 DEF StepReply
    <2>2. UNCHANGED <<link, toStub, stub>>
      BY <1>22 DEF StepReply
    <2>3. ~Awaited'
      BY <1>22 DEF StepReply, ExclusiveExchange, Exchanging
    <2>4. CASE Received("stop") \/ Received("int")
      <3>1. toAdapter # <<>> /\ Head(toAdapter) # "exit" /\ Awaited
        BY <1>22, <2>4 DEF StepReply, Received
      <3>2. hart # "exited"
        BY <1>0, <1>1, <3>1 DEF LinkEnds, LinkInv, WireType
      <3> QED
        BY <1>1, <2>1, <2>2, <2>3, <3>2, ReplyTaken
    <2>5. CASE Received("exit")
      BY <1>22, <2>5 DEF StepReply, Received
    <2>6. CASE Received("ok") \/ Received("err")
      <3>1. ~MustRest'
        BY <1>22, <1>1, <2>6 DEF StepReply, Received
      <3> QED
        BY <1>1, <2>1, <2>2, <2>3, <3>1, ReplyTaken
    <2> QED
      BY <1>22, <2>4, <2>5, <2>6 DEF StepReply
  <1>23. ASSUME NEW t \in Task, TaskStopped(t) PROVE OneAtTarget'
    <2>1. PICK reply : Received(reply)
      BY <1>23 DEF TaskStopped
    <2>2. UNCHANGED <<link, toStub, stub>>
      BY <1>23 DEF TaskStopped
    <2>3. ~Awaited'
      BY <1>23 DEF TaskStopped
    <2>4. toAdapter # <<>> /\ Head(toAdapter) # "exit" /\ Awaited
      BY <1>23 DEF TaskStopped, Received
    <2>5. hart # "exited"
      BY <1>0, <1>1, <2>4 DEF LinkEnds, LinkInv, WireType
    <2> QED
      BY <1>1, <2>1, <2>2, <2>3, <2>5, ReplyTaken
  <1>24. ASSUME NEW t \in Task, TaskExited(t) PROVE OneAtTarget'
    <2>1. PICK reply : Received(reply)
      BY <1>24 DEF TaskExited
    <2>2. UNCHANGED <<link, toStub, stub>>
      BY <1>24 DEF TaskExited
    <2>3. ~Awaited'
      BY <1>24 DEF TaskExited
    <2>4. MustRest' => MustRest
      BY <1>24, <1>1 DEF TaskExited, Received
    <2> QED
      BY <1>1, <2>1, <2>2, <2>3, <2>4, ReplyTaken
  <1>25. ASSUME NEW t \in Task, TaskLost(t) PROVE OneAtTarget'
    <2>1. CASE LinkBroken \/ link = "closed"
      <3>1. toStub' = <<>> /\ hart' = "gone"
        BY <1>25, <1>1, <2>1 DEF TaskLost, LinkBroken, LinkEnds
      <3> QED
        BY <3>1, NothingThere DEF ResumeSent
    <2>2. CASE ~(LinkBroken \/ link = "closed")
      <3>1. PICK reply : Received(reply)
        BY <1>25, <2>2 DEF TaskLost
      <3>2. UNCHANGED <<link, toStub, stub>>
        BY <1>25 DEF TaskLost
      <3>3. ~Awaited' /\ (MustRest' => MustRest)
        BY <1>25 DEF TaskLost
      <3> QED
        BY <1>1, <3>1, <3>2, <3>3, ReplyTaken
    <2> QED
      BY <2>1, <2>2
  <1>26. ASSUME NEW t \in Task, TaskSend(t) PROVE OneAtTarget'
    <2>1. MustRest /\ Awaited' /\ ~MustRest' /\ UNCHANGED stub
      BY <1>26, <1>1 DEF TaskSend
    <2> QED
      BY <1>1, <2>1, RunWritten
  <1>27. ASSUME NEW t \in Task, TaskReport(t) \/ TaskMarkExited(t) \/ TaskEnd(t) PROVE OneAtTarget'
    <2>1. UNCHANGED <<wire, stub>> /\ (MustRest' => MustRest) /\ (Awaited' <=> Awaited)
      BY <1>27, <1>1 DEF TaskReport, TaskMarkExited, TaskEnd
    <2> QED
      BY <1>1, <2>1, Unmoved
  <1>28. CASE SendPacket
    <2>1. CASE Stepping
      <3>1. MustRest /\ Awaited' /\ ~MustRest' /\ UNCHANGED stub
        BY <1>28, <2>1 DEF SendPacket
      <3> QED
        BY <1>1, <3>1, RunWritten
    <2>2. CASE ~Stepping
      <3>1. Head(script) \in Packet /\ ~Runs(Head(script)) /\ Write(Head(script))
        BY <1>28, <2>2, SeqFacts DEF SendPacket, ScriptFits, ThreadType
      <3>2. UNCHANGED <<link, toAdapter, stub>>
        BY <1>28 DEF SendPacket
      <3>3. (MustRest' => MustRest) /\ (Awaited' <=> Awaited)
        BY <1>28, <2>2 DEF SendPacket
      <3> QED
        BY <1>1, <3>1, <3>2, <3>3, NoRunWritten
    <2> QED
      BY <2>1, <2>2
  <1>29. CASE TrySetBreakpoint
    <2>1. Arm(Head(lines)) \in Packet /\ ~Runs(Arm(Head(lines))) /\ Write(Arm(Head(lines)))
      BY <1>29, SeqFacts, Packets DEF TrySetBreakpoint, ThreadType, Runs, Arm, Resume
    <2>2. UNCHANGED <<link, toAdapter, stub>> /\ (MustRest' => MustRest) /\ (Awaited' <=> Awaited)
      BY <1>29 DEF TrySetBreakpoint
    <2> QED
      BY <1>1, <2>1, <2>2, NoRunWritten
  <1>30. CASE Interrupt
    <2>1. UNCHANGED <<link, toAdapter, stub>> /\ (MustRest' => MustRest) /\ (Awaited' <=> Awaited)
      BY <1>30 DEF Interrupt
    <2>2. CASE Write(Plain(Break))
      <3>1. Plain(Break) \in Packet /\ ~Runs(Plain(Break))
        BY Packets DEF Runs, Plain, Break, Resume
      <3> QED
        BY <1>1, <2>1, <2>2, <3>1, NoRunWritten
    <2>3. CASE UNCHANGED toStub
      BY <1>1, <2>1, <2>3, Unmoved
    <2> QED
      BY <1>30, <2>2, <2>3 DEF Interrupt
  <1>31. CASE Boot
    BY <1>31, <1>1 DEF Boot, OneAtTarget, Still, ResumeSent, LinkEnds
  <1>32. CASE StubSkips
    <2>1. PICK op : Serving(op)
      BY <1>32 DEF StubSkips
    <2>2. Aside /\ UNCHANGED <<link, hart>>
      BY <1>32 DEF StubSkips, Aside
    <2>3. toAdapter # <<>> => toAdapter' # <<>> /\ Head(toAdapter') = Head(toAdapter)
      BY <1>32 DEF StubSkips
    <2> QED
      BY <1>1, <2>1, <2>2, <2>3, ServedAtRest
  <1>33. CASE StubAnswers
    <2>1. PICK op : Serving(op)
      BY <1>33 DEF StubAnswers
    <2>2. Aside /\ UNCHANGED <<link, hart>>
      BY <1>33 DEF StubAnswers, Aside
    <2>3. toAdapter # <<>> => toAdapter' # <<>> /\ Head(toAdapter') = Head(toAdapter)
      BY <1>33, ReplyBehind DEF StubAnswers, Reply
    <2> QED
      BY <1>1, <2>1, <2>2, <2>3, ServedAtRest
  <1>34. CASE StubArms
    <2>1. PICK op : Serving(op)
      BY <1>34 DEF StubArms
    <2>2. Aside /\ UNCHANGED <<link, hart>>
      BY <1>34 DEF StubArms, Aside
    <2>3. toAdapter # <<>> => toAdapter' # <<>> /\ Head(toAdapter') = Head(toAdapter)
      BY <1>34, ReplyBehind DEF StubArms, Reply
    <2> QED
      BY <1>1, <2>1, <2>2, <2>3, ServedAtRest
  <1>35. CASE StubDisarms
    <2>1. PICK op : Serving(op)
      BY <1>35 DEF StubDisarms
    <2>2. Aside /\ UNCHANGED <<link, hart>>
      BY <1>35 DEF StubDisarms, Aside
    <2>3. toAdapter # <<>> => toAdapter' # <<>> /\ Head(toAdapter') = Head(toAdapter)
      BY <1>35, ReplyBehind DEF StubDisarms, Reply
    <2> QED
      BY <1>1, <2>1, <2>2, <2>3, ServedAtRest
  <1>36. CASE StubRefuses
    <2>1. PICK op : Serving(op)
      BY <1>36 DEF StubRefuses
    <2>2. Aside /\ UNCHANGED <<link, hart>>
      BY <1>36 DEF StubRefuses, Aside
    <2>3. toAdapter # <<>> => toAdapter' # <<>> /\ Head(toAdapter') = Head(toAdapter)
      BY <1>36, ReplyBehind DEF StubRefuses, Reply
    <2> QED
      BY <1>1, <2>1, <2>2, <2>3, ServedAtRest
  <1>37. CASE StubSteps
    <2>1. ResumeSent
      BY <1>37 DEF StubSteps, Serving, ResumeSent, WireType
    <2>2. link' = "up" /\ hart' = "exited" => toAdapter' # <<>> /\ Head(toAdapter') = "exit"
      BY <1>37, <2>1, OneOwed, ReplyFirst DEF StubSteps, Reply
    <2> QED
      BY <1>37, <1>1, <2>1, <2>2, Run DEF StubSteps, Aside
  <1>38. CASE StubResumes
    <2>1. ResumeSent
      BY <1>38 DEF StubResumes, Serving, ResumeSent, WireType
    <2> QED
      BY <1>38, <1>1, <2>1, Run DEF StubResumes, Aside
  <1>39. CASE StubDetaches
    BY <1>39, <1>1 DEF StubDetaches, Serving, DetachIsLast, WireType
  <1>40. CASE StubInterrupted
    BY <1>40, <1>1, Run DEF StubInterrupted, Aside
  <1>41. CASE HartStops
    <2>1. link' = "up" /\ hart' = "exited" => toAdapter' # <<>> /\ Head(toAdapter') = "exit"
      BY <1>41, OneOwed, ReplyFirst DEF HartStops, Reply
    <2> QED
      BY <1>41, <1>1, <2>1, Run DEF HartStops, Aside
  <1> QED
    BY <1>2, <1>3, <1>4, <1>5, <1>6, <1>7, <1>8, <1>9, <1>10, <1>11, <1>12,
       <1>13, <1>14, <1>15, <1>16, <1>17, <1>18, <1>19, <1>20, <1>21, <1>22,
       <1>23, <1>24, <1>25, <1>26, <1>27, <1>28, <1>29, <1>30, <1>31, <1>32,
       <1>33, <1>34, <1>35, <1>36, <1>37, <1>38, <1>39, <1>40, <1>41
       DEF Next, HandlerStep, TaskStep, StubStep
-----------------------------------------------------------------------------
LEMMA InitRInv == Init => RInv
  <1> SUFFICES ASSUME Init PROVE RInv
    OBVIOUS
  <1>1. SInv
    BY DEF Init, SInv, StartUp, LinkEnds, ScriptFits, DetachIsLast, RunAsked, Stepping, Starting
  <1>2. OneInHand
    BY DEF Init, OneInHand, AllIdle, RunAsked, Stepping
  <1>3. OneAtTarget
    BY DEF Init, OneAtTarget, Still, ResumeSent, Awaited, TaskAwaits
  <1> QED
    BY <1>1, <1>2, <1>3, InitCInv DEF RInv

LEMMA StepRInv == RInv /\ [Next]_vars => RInv'
  <1>1. ASSUME RInv, Next PROVE RInv'
    <2>1. CInv' /\ SInv'
      BY <1>1, StepCInv, StartUpPreserved, LinkEndsPreserved, ScriptFitsPreserved,
         DetachIsLastPreserved DEF RInv, SInv
    <2>2. Disciplined => OneInHand' /\ OneAtTarget'
      BY <1>1, OneInHandPreserved, OneAtTargetPreserved
    <2> QED
      BY <2>1, <2>2 DEF RInv
  <1>2. ASSUME RInv, UNCHANGED vars PROVE RInv'
    <2> USE <1>2 DEF RInv, vars, adapter, thread, wire, stub, front
    <2>1. CInv'
      BY StepCInv
    <2>2. StartUp' /\ LinkEnds'
      BY DEF SInv, StartUp, LinkEnds, RunAsked, Stepping, Starting
    <2>3. ScriptFits' /\ DetachIsLast'
      BY DEF SInv, ScriptFits, DetachIsLast, Stepping
    <2>4. OneInHand => OneInHand'
      BY DEF OneInHand, AllIdle, RunAsked, Stepping
    <2>5. OneAtTarget => OneAtTarget'
      BY DEF OneAtTarget, MustRest, Still, Awaited, TaskAwaits, ResumeSent, RunAsked, Stepping
    <2> QED
      BY <2>1, <2>2, <2>3, <2>4, <2>5 DEF SInv
  <1> QED
    BY <1>1, <1>2

LEMMA RunInvariance == Spec => []RInv
  BY InitRInv, StepRInv, PTL DEF Spec

(* A client that resumes only what it was told is stopped can rely on the  *)
(* "stopped" event: HandleStopReply sends it after the target halted, and  *)
(* no resume task, step or late packet moves the target before the client  *)
(* asks again.                                                             *)
THEOREM StoppedRests == Spec => []StoppedMeansHalted
  <1>1. RInv => StoppedMeansHalted
    BY DEF RInv, OneInHand, OneAtTarget, AllIdle, MustRest, Still, StoppedMeansHalted
  <1> QED
    BY <1>1, RunInvariance, PTL

LEMMA OnlyStartResume ==
  ASSUME Next, pc = "resume", pc' # pc PROVE StartResume
  <1> USE DEF thread
  <1>1. ASSUME NEW r \in Request, ReadMessage(r) PROVE FALSE
    BY <1>1 DEF ReadMessage
  <1>2. CASE HandlerStep
    BY <1>2 DEF HandlerStep, HandleLocal, HandleLaunch, HandleLaunchFails, HandleAttach,
           TryConnect, TryConnectTimesOut, SendPacket, ExchangeFails, Exchanging,
           NegotiateReply, RequireHaltedFails, Guarded, HandleInspect, InspectReply,
           HandleSetBreakpoints, ClearBreakpointReply, SkipLine, TrySetBreakpoint,
           SetBreakpointReply, SetBreakpointsDone, HandleConfigurationDone,
           HandleContinue, HandleStep, StepReply, HandlePause, Interrupt,
           HandleDisconnect, Leave, Kill, DetachReply, DetachFails, AnswerDisconnect,
           Cleanup, ReapSimulator
  <1>3. ASSUME NEW t \in Task, TaskStep(t) PROVE FALSE
    BY <1>3 DEF TaskStep, TaskSend, TaskStopped, TaskReport, TaskExited,
           TaskMarkExited, TaskLost, TaskEnd
  <1>4. ~StubStep
    BY DEF StubStep, Boot, StubSkips, StubAnswers, StubArms, StubDisarms, StubSteps,
           StubResumes, StubDetaches, StubRefuses, StubInterrupted, StubKilled
  <1>5. ~(ReadEndOfStream \/ HartStops \/ DrainEnds \/ SimulatorDies \/ Finished)
    BY DEF ReadEndOfStream, HartStops, DrainEnds, SimulatorDies, Finished, vars
  <1> QED
    BY <1>1, <1>2, <1>3, <1>4, <1>5 DEF Next

(* HandleContinue answers before StartResume looks at _rsp, _running and   *)
(* _exited: for such a client its answer is never a lie, since no task of  *)
(* an earlier run is left that could still set one of them.                *)
THEOREM ContinueIsKept == Spec => ContinueResumes
  <1> DEFINE Kept == Disciplined /\ pc = "resume" /\ pc' = "read" =>
                       \E t \in Task : task[t] = "idle" /\ task'[t] = "send"
  <1>1. ASSUME RInv, Next, Disciplined, pc = "resume", pc' = "read"
        PROVE  \E t \in Task : task[t] = "idle" /\ task'[t] = "send"
    <2>1. StartResume
      BY <1>1, OnlyStartResume
    <2> QED
      BY <1>1, <2>1
         DEF RInv, SInv, StartUp, OneInHand, AllIdle, RunAsked, Halted, StartResume,
             CInv, IInv, TypeOK, TaskType
  <1>2. RInv /\ [Next]_vars => [Kept]_vars
    BY <1>1
  <1> QED
    BY <1>2, RunInvariance, PTL DEF Spec, ContinueResumes

-----------------------------------------------------------------------------
(* Proof that the adapter's list of armed breakpoints and the comparators  *)
(* of the stub agree, for any client and any number of triggers.           *)

Held     == {triggers[j] : j \in DOMAIN triggers} \ {Unarmed}
ArmedSet == {armed[i] : i \in DOMAIN armed}

(* The slots that packets of s disarm.                                     *)
Disarms(s) == {s[i].at : i \in {k \in DOMAIN s : s[k].op = "z1"}}

Clearing == req.cmd = "setBreakpoints" /\ pc \in {"send", "await"}
Accepted == toAdapter # <<>> /\ Head(toAdapter) = "ok"

(* The adapter's own list has no slot twice, and the next is a new one.    *)
ListInv ==
  /\ \A i, j \in DOMAIN armed : armed[i] = armed[j] => i = j
  /\ pc = "awaitArm" => Head(lines) \notin ArmedSet
  /\ pc \in {"send", "await"} => \A i \in DOMAIN script :
       script[i].op # "Z1" /\ (script[i].op = "z1" => req.cmd = "setBreakpoints")

(* A packet that changes a comparator is one the request thread waits for. *)
InFlight == link = "up" =>
  /\ \A i \in DOMAIN toStub :
       /\ toStub[i].op = "z1" => req.cmd = "setBreakpoints" /\ pc = "await"
       /\ toStub[i].op = "Z1" => pc = "awaitArm" /\ toStub[i].at = Head(lines)
  /\ pc = "awaitArm" => \A i \in DOMAIN toStub : Asks(toStub[i]) => toStub[i].op = "Z1"

(* What the stub holds, phase by phase: while the old ones are cleared,    *)
(* only slots that a packet still to be served disarms.                    *)
InStep == link = "up" /\ hart \notin {"exited", "gone"} =>
  /\ \A i, j \in DOMAIN triggers : triggers[i] = triggers[j] /\ triggers[i] # Unarmed => i = j
  /\ Clearing => Held \subseteq Disarms(script) \cup Disarms(toStub)
  /\ ~Clearing =>
       Held = ArmedSet \cup (IF pc = "awaitArm" /\ Accepted THEN {Head(lines)} ELSE {})

NothingYet == link = "none" => armed = <<>> /\ Held = {}

BInv == CInv /\ SInv /\ ListInv /\ InFlight /\ InStep /\ NothingYet

-----------------------------------------------------------------------------
LEMMA ListPreserved == ASSUME BInv, Next PROVE ListInv'
  <1> USE DEF BInv, SInv, ListInv, ArmedSet, IInv, CInv, TypeOK, InHandler,
             Commands, adapter, thread, wire, stub, front, AdapterType,
             ThreadType, Respond, Tell, Caught, More
  <1>1. ASSUME NEW r \in Request, ReadMessage(r) PROVE ListInv'
    BY <1>1, RequestFields DEF ReadMessage, MayAsk
  <1>2. CASE ReadEndOfStream \/ HandleLocal \/ HandleLaunch \/ HandleLaunchFails
    BY <1>2 DEF ReadEndOfStream, HandleLocal, HandleLaunch, HandleLaunchFails
  <1>3. CASE HandleAttach
    BY <1>3 DEF HandleAttach
  <1>4. CASE TryConnect
    BY <1>4 DEF TryConnect, Plain, Negotiation
  <1>5. CASE TryConnectTimesOut
    BY <1>5 DEF TryConnectTimesOut
  <1>6. CASE SendPacket
    BY <1>6 DEF SendPacket
  <1>7. CASE ExchangeFails \/ NegotiateReply \/ RequireHaltedFails
    BY <1>7
       DEF ExchangeFails, NegotiateReply, RequireHaltedFails, Exchanging,
           Guarded
  <1>8. CASE HandleInspect
    <2>1. UNCHANGED <<armed, req>> /\ pc' \in {"read", "send"}
      BY <1>8 DEF HandleInspect
    <2>2. pc' = "send" => \A i \in DOMAIN script' : script'[i].op = "read"
      <3>1. pc' = "send" => script' = [i \in 1..req.reads |-> Plain("read")]
        BY <1>8 DEF HandleInspect
      <3> QED
        BY <3>1 DEF Plain
    <2> QED
      BY <2>1, <2>2
  <1>9. CASE InspectReply
    BY <1>9 DEF InspectReply
  <1>10. CASE HandleSetBreakpoints
    BY <1>10 DEF HandleSetBreakpoints, Disarm
  <1>11. CASE ClearBreakpointReply \/ SkipLine
    BY <1>11 DEF ClearBreakpointReply, SkipLine
  <1>12. CASE TrySetBreakpoint
    BY <1>12 DEF TrySetBreakpoint, IsArmed
  <1>13. CASE SetBreakpointReply
    <2>1. CASE armed' = armed
      BY <1>13, <2>1 DEF SetBreakpointReply
    <2>2. CASE armed' = Append(armed, Head(lines))
      BY <1>13, <2>2 DEF SetBreakpointReply
    <2> QED
      BY <1>13, <2>1, <2>2 DEF SetBreakpointReply
  <1>14. CASE SetBreakpointsDone \/ HandleConfigurationDone \/ HandleContinue \/ StartResume
    BY <1>14
       DEF SetBreakpointsDone, HandleConfigurationDone, HandleContinue,
           StartResume
  <1>15. CASE HandleStep
    BY <1>15 DEF HandleStep, Plain
  <1>16. CASE StepReply \/ HandlePause \/ Interrupt \/ HandleDisconnect
    BY <1>16 DEF StepReply, HandlePause, Interrupt, HandleDisconnect
  <1>17. CASE Leave
    BY <1>17 DEF Leave, Plain
  <1>18. CASE Kill \/ DetachReply \/ DetachFails \/ AnswerDisconnect
    BY <1>18 DEF Kill, DetachReply, DetachFails, AnswerDisconnect
  <1>19. CASE Cleanup \/ ReapSimulator \/ Boot \/ StubSkips
    BY <1>19 DEF Cleanup, ReapSimulator, Boot, StubSkips
  <1>20. CASE StubAnswers \/ StubArms \/ StubDisarms \/ StubSteps
    BY <1>20 DEF StubAnswers, StubArms, StubDisarms, StubSteps
  <1>21. CASE StubResumes \/ StubDetaches \/ StubRefuses \/ StubInterrupted
    BY <1>21 DEF StubResumes, StubDetaches, StubRefuses, StubInterrupted
  <1>22. CASE StubKilled \/ HartStops \/ DrainEnds \/ SimulatorDies
    BY <1>22 DEF StubKilled, HartStops, DrainEnds, SimulatorDies
  <1>23. CASE Finished
    BY <1>23 DEF Finished, vars
  <1>24. ASSUME NEW t \in Task, TaskSend(t) \/ TaskStopped(t) \/ TaskReport(t) PROVE ListInv'
    BY <1>24 DEF TaskSend, TaskStopped, TaskReport
  <1>25. ASSUME NEW t \in Task, TaskExited(t) \/ TaskMarkExited(t) \/ TaskLost(t) PROVE ListInv'
    BY <1>25 DEF TaskExited, TaskMarkExited, TaskLost
  <1>26. ASSUME NEW t \in Task, TaskEnd(t) PROVE ListInv'
    BY <1>26 DEF TaskEnd
  <1> QED
    BY <1>1, <1>2, <1>3, <1>4, <1>5, <1>6, <1>7, <1>8, <1>9, <1>10, <1>11,
       <1>12, <1>13, <1>14, <1>15, <1>16, <1>17, <1>18, <1>19, <1>20, <1>21,
       <1>22, <1>23, <1>24, <1>25, <1>26
       DEF Next, HandlerStep, TaskStep, StubStep

LEMMA NothingYetPreserved == ASSUME BInv, Next PROVE NothingYet'
  <1> USE DEF BInv, SInv, NothingYet, Held, ConnectOnce, LinkInv, StartUp,
             IInv, CInv, TypeOK, InHandler, Commands, adapter, thread, wire,
             stub, front, AdapterType, Respond, Tell, Caught, Write, Received
  <1>1. ASSUME NEW r \in Request, ReadMessage(r) PROVE NothingYet'
    BY <1>1, RequestFields DEF ReadMessage, MayAsk
  <1>2. CASE ReadEndOfStream \/ HandleLocal \/ HandleLaunch \/ HandleLaunchFails \/
            HandleAttach
    BY <1>2
       DEF ReadEndOfStream, HandleLocal, HandleLaunch, HandleLaunchFails,
           HandleAttach
  <1>3. CASE TryConnect \/ TryConnectTimesOut \/ SendPacket \/ ExchangeFails \/
            NegotiateReply
    BY <1>3
       DEF TryConnect, TryConnectTimesOut, SendPacket, ExchangeFails,
           NegotiateReply
  <1>4. CASE RequireHaltedFails \/ HandleInspect \/ InspectReply \/ HandleSetBreakpoints \/
            ClearBreakpointReply
    BY <1>4
       DEF RequireHaltedFails, HandleInspect, InspectReply,
           HandleSetBreakpoints, ClearBreakpointReply
  <1>5. CASE SkipLine \/ TrySetBreakpoint \/ SetBreakpointReply \/ SetBreakpointsDone \/
            HandleConfigurationDone
    BY <1>5
       DEF SkipLine, TrySetBreakpoint, SetBreakpointReply, SetBreakpointsDone,
           HandleConfigurationDone
  <1>6. CASE HandleContinue \/ StartResume \/ HandleStep \/ StepReply \/ HandlePause
    BY <1>6
       DEF HandleContinue, StartResume, HandleStep, StepReply, HandlePause
  <1>7. CASE Interrupt \/ HandleDisconnect \/ Leave \/ Kill \/ DetachReply
    BY <1>7 DEF Interrupt, HandleDisconnect, Leave, Kill, DetachReply
  <1>8. CASE DetachFails \/ AnswerDisconnect \/ Cleanup \/ ReapSimulator \/ Boot
    BY <1>8 DEF DetachFails, AnswerDisconnect, Cleanup, ReapSimulator, Boot
  <1>9. CASE StubSkips \/ StubAnswers
    BY <1>9 DEF StubSkips, StubAnswers
  <1>10. CASE StubArms
    BY <1>10 DEF StubArms, Serving, Gone
  <1>11. CASE StubDisarms
    BY <1>11 DEF StubDisarms, Serving, Gone
  <1>12. CASE StubSteps \/ StubResumes \/ StubDetaches \/ StubRefuses \/ StubInterrupted
    BY <1>12
       DEF StubSteps, StubResumes, StubDetaches, StubRefuses, StubInterrupted
  <1>13. CASE StubKilled
    BY <1>13 DEF StubKilled, Serving, Gone
  <1>14. CASE HartStops
    BY <1>14 DEF HartStops
  <1>15. CASE DrainEnds
    BY <1>15 DEF DrainEnds, Serving, Gone
  <1>16. CASE SimulatorDies
    BY <1>16 DEF SimulatorDies, Serving, Gone
  <1>17. CASE Finished
    BY <1>17 DEF Finished, vars
  <1>18. ASSUME NEW t \in Task, TaskSend(t) \/ TaskStopped(t) \/ TaskReport(t) PROVE NothingYet'
    BY <1>18 DEF TaskSend, TaskStopped, TaskReport
  <1>19. ASSUME NEW t \in Task, TaskExited(t) \/ TaskMarkExited(t) \/ TaskLost(t) PROVE NothingYet'
    BY <1>19 DEF TaskExited, TaskMarkExited, TaskLost
  <1>20. ASSUME NEW t \in Task, TaskEnd(t) PROVE NothingYet'
    BY <1>20 DEF TaskEnd
  <1> QED
    BY <1>1, <1>2, <1>3, <1>4, <1>5, <1>6, <1>7, <1>8, <1>9, <1>10, <1>11,
       <1>12, <1>13, <1>14, <1>15, <1>16, <1>17, <1>18, <1>19, <1>20
       DEF Next, HandlerStep, TaskStep, StubStep

-----------------------------------------------------------------------------
(* Packets in flight that change a comparator.                             *)

LEMMA InFlightPreserved == ASSUME BInv, Next PROVE InFlight'
  <1> USE DEF BInv, SInv, IInv, CInv, TypeOK, InHandler, Commands, adapter,
             thread, wire, stub, front, Respond, Tell, Caught
  <1> SUFFICES ASSUME link' = "up" PROVE InFlight'
    BY DEF InFlight
  <1>1. link = "up" /\ (~Waiting \/ toAdapter # <<>>) => \A i \in DOMAIN toStub : ~Asks(toStub[i])
    BY NoneAsks DEF BInv, CInv, IInv
  <1>2. \A i \in DOMAIN toStub : toStub[i].op \in {"z1", "Z1"} => Asks(toStub[i])
    BY DEF Asks, Break
  <1>3. ASSUME NEW r \in Request, ReadMessage(r) PROVE InFlight'
    BY <1>3, RequestFields DEF ReadMessage, MayAsk, InFlight
  <1>4. CASE ReadEndOfStream \/ HandleLocal \/ HandleLaunch \/ HandleLaunchFails
    BY <1>4
       DEF ReadEndOfStream, HandleLocal, HandleLaunch, HandleLaunchFails,
           InFlight
  <1>5. CASE HandleAttach
    BY <1>5 DEF HandleAttach, InFlight
  <1>6. CASE TryConnect
    BY <1>6 DEF TryConnect, ConnectOnce, LinkInv, InFlight
  <1>7. CASE TryConnectTimesOut
    BY <1>7 DEF TryConnectTimesOut, InFlight
  <1>8. CASE SendPacket
    <2>1. Head(script) \in Packet /\ Write(Head(script)) /\ pc = "send" /\ pc' = "await"
      BY <1>8, SeqFacts DEF SendPacket, ThreadType
    <2>2. Head(script).op # "Z1" /\ (Head(script).op = "z1" => req.cmd = "setBreakpoints")
      BY <1>8, SeqFacts DEF SendPacket, ListInv, ThreadType
    <2> QED
      BY <1>8, <2>1, <2>2, Written DEF SendPacket, InFlight
  <1>9. CASE ExchangeFails
    BY <1>9 DEF ExchangeFails, InFlight, LinkBroken
  <1>10. CASE NegotiateReply
    <2>1. toAdapter # <<>> /\ UNCHANGED <<link, toStub>> /\ pc' # "awaitArm"
      BY <1>10 DEF NegotiateReply, Received
    <2> QED
      BY <1>1, <1>2, <2>1 DEF InFlight
  <1>11. CASE RequireHaltedFails \/ HandleInspect
    BY <1>11 DEF RequireHaltedFails, HandleInspect, Guarded, InFlight
  <1>12. CASE InspectReply
    <2>1. toAdapter # <<>> /\ UNCHANGED <<link, toStub>> /\ pc' # "awaitArm"
      BY <1>12 DEF InspectReply, Received
    <2> QED
      BY <1>1, <1>2, <2>1 DEF InFlight
  <1>13. CASE HandleSetBreakpoints
    BY <1>13 DEF HandleSetBreakpoints, InFlight
  <1>14. CASE ClearBreakpointReply
    <2>1. toAdapter # <<>> /\ UNCHANGED <<link, toStub>> /\ pc' # "awaitArm"
      BY <1>14 DEF ClearBreakpointReply, Received
    <2> QED
      BY <1>1, <1>2, <2>1 DEF InFlight
  <1>15. CASE SkipLine
    BY <1>15 DEF SkipLine, InFlight
  <1>16. CASE TrySetBreakpoint
    <2>1. Arm(Head(lines)) \in Packet /\ Write(Arm(Head(lines))) /\ pc = "arm" /\ pc' = "awaitArm"
      BY <1>16, SeqFacts, Packets DEF TrySetBreakpoint, ThreadType
    <2>2. ~Waiting
      BY <2>1 DEF Waiting, ThreadAwaits, TaskAwaits, ExclusiveExchange, Exchanging
    <2>3. Arm(Head(lines)).op = "Z1" /\ Arm(Head(lines)).at = Head(lines)
      BY DEF Arm
    <2>4. \A i \in DOMAIN toStub' : toStub'[i] = Arm(Head(lines)) \/ ~Asks(toStub'[i])
      BY <1>16, <1>1, <2>1, <2>2, Written DEF TrySetBreakpoint
    <2> QED
      BY <1>16, <2>1, <2>3, <2>4 DEF TrySetBreakpoint, InFlight, Asks, Break
  <1>17. CASE SetBreakpointReply
    <2>1. toAdapter # <<>> /\ UNCHANGED <<link, toStub>> /\ pc' # "awaitArm"
      BY <1>17 DEF SetBreakpointReply, Received
    <2> QED
      BY <1>1, <1>2, <2>1 DEF InFlight
  <1>18. CASE SetBreakpointsDone \/ HandleConfigurationDone \/ HandleContinue \/ StartResume
    BY <1>18
       DEF SetBreakpointsDone, HandleConfigurationDone, HandleContinue,
           StartResume, InFlight
  <1>19. CASE HandleStep
    BY <1>19 DEF HandleStep, InFlight
  <1>20. CASE StepReply
    <2>1. toAdapter # <<>> /\ UNCHANGED <<link, toStub>> /\ pc' # "awaitArm"
      BY <1>20 DEF StepReply, Received
    <2> QED
      BY <1>1, <1>2, <2>1 DEF InFlight
  <1>21. CASE HandlePause
    BY <1>21 DEF HandlePause, InFlight
  <1>22. CASE Interrupt
    <2>1. CASE Write(Plain(Break))
      <3>1. Plain(Break) \in Packet /\ (Plain(Break)).op \notin {"z1", "Z1"}
        BY Packets DEF Plain, Break
      <3> QED
        BY <1>22, <2>1, <3>1, Written DEF Interrupt, InFlight, StartUp
    <2>2. CASE UNCHANGED toStub
      BY <1>22, <2>2 DEF Interrupt, InFlight, StartUp
    <2> QED
      BY <1>22, <2>1, <2>2 DEF Interrupt
  <1>23. CASE HandleDisconnect \/ Leave
    BY <1>23 DEF HandleDisconnect, Leave, InFlight
  <1>24. CASE Kill
    <2>1. CASE Write(Plain(Break))
      BY <1>24, <2>1, Written, Packets DEF Kill, InFlight, Plain, Break
    <2>2. CASE Write(Plain("k"))
      BY <1>24, <2>2, Written, Packets DEF Kill, InFlight, Plain
    <2>3. CASE UNCHANGED toStub
      BY <1>24, <2>3 DEF Kill, InFlight
    <2> QED
      BY <1>24, <2>1, <2>2, <2>3 DEF Kill
  <1>25. CASE DetachReply
    <2>1. toAdapter # <<>> /\ UNCHANGED <<link, toStub>> /\ pc' # "awaitArm"
      BY <1>25 DEF DetachReply, Received
    <2> QED
      BY <1>1, <1>2, <2>1 DEF InFlight
  <1>26. CASE DetachFails \/ AnswerDisconnect \/ Cleanup
    BY <1>26 DEF DetachFails, AnswerDisconnect, Cleanup, InFlight, LinkBroken
  <1>27. CASE ReapSimulator
    BY <1>27 DEF ReapSimulator, InFlight
  <1>28. CASE Boot
    BY <1>28 DEF Boot, InFlight
  <1>29. CASE StubSkips
    <2>1. PICK op : Serving(op)
      BY <1>29 DEF StubSkips
    <2>2. UNCHANGED <<pc, req, lines, link>>
      BY <1>29 DEF StubSkips
    <2> QED
      BY <2>1, <2>2, ServedPackets DEF InFlight, Asks
  <1>30. CASE StubAnswers
    <2>1. PICK op : Serving(op)
      BY <1>30 DEF StubAnswers
    <2>2. UNCHANGED <<pc, req, lines, link>>
      BY <1>30 DEF StubAnswers
    <2> QED
      BY <2>1, <2>2, ServedPackets DEF InFlight, Asks
  <1>31. CASE StubArms
    <2>1. PICK op : Serving(op)
      BY <1>31 DEF StubArms
    <2>2. UNCHANGED <<pc, req, lines, link>>
      BY <1>31 DEF StubArms
    <2> QED
      BY <2>1, <2>2, ServedPackets DEF InFlight, Asks
  <1>32. CASE StubDisarms
    <2>1. PICK op : Serving(op)
      BY <1>32 DEF StubDisarms
    <2>2. UNCHANGED <<pc, req, lines, link>>
      BY <1>32 DEF StubDisarms
    <2> QED
      BY <2>1, <2>2, ServedPackets DEF InFlight, Asks
  <1>33. CASE StubSteps
    <2>1. PICK op : Serving(op)
      BY <1>33 DEF StubSteps
    <2>2. UNCHANGED <<pc, req, lines, link>>
      BY <1>33 DEF StubSteps
    <2> QED
      BY <2>1, <2>2, ServedPackets DEF InFlight, Asks
  <1>34. CASE StubResumes
    <2>1. PICK op : Serving(op)
      BY <1>34 DEF StubResumes
    <2>2. UNCHANGED <<pc, req, lines, link>>
      BY <1>34 DEF StubResumes
    <2> QED
      BY <2>1, <2>2, ServedPackets DEF InFlight, Asks
  <1>35. CASE StubDetaches
    <2>1. PICK op : Serving(op)
      BY <1>35 DEF StubDetaches
    <2>2. UNCHANGED <<pc, req, lines, link>>
      BY <1>35 DEF StubDetaches
    <2> QED
      BY <2>1, <2>2, ServedPackets DEF InFlight, Asks
  <1>36. CASE StubRefuses
    <2>1. PICK op : Serving(op)
      BY <1>36 DEF StubRefuses
    <2>2. UNCHANGED <<pc, req, lines, link>>
      BY <1>36 DEF StubRefuses
    <2> QED
      BY <2>1, <2>2, ServedPackets DEF InFlight, Asks
  <1>37. CASE StubInterrupted
    <2>1. PICK op : Serving(op)
      BY <1>37 DEF StubInterrupted
    <2>2. UNCHANGED <<pc, req, lines, link>>
      BY <1>37 DEF StubInterrupted
    <2> QED
      BY <2>1, <2>2, ServedPackets DEF InFlight, Asks
  <1>38. CASE StubKilled
    BY <1>38 DEF StubKilled, Gone, InFlight
  <1>39. CASE HartStops
    BY <1>39 DEF HartStops, InFlight
  <1>40. CASE DrainEnds
    BY <1>40 DEF DrainEnds, Gone, InFlight
  <1>41. CASE SimulatorDies
    BY <1>41 DEF SimulatorDies, Gone, InFlight
  <1>42. CASE Finished
    BY <1>42 DEF Finished, vars, InFlight
  <1>43. ASSUME NEW t \in Task, TaskSend(t) PROVE InFlight'
    <2>1. Plain(Resume) \in Packet /\ Plain(Resume).op = "c" /\ Write(Plain(Resume))
      BY <1>43, Packets DEF TaskSend, Plain, Resume
    <2>2. pc # "awaitArm"
      BY <1>43 DEF TaskSend, ExclusiveExchange, Exchanging
    <2> QED
      BY <1>43, <2>1, <2>2, Written DEF TaskSend, InFlight
  <1>44. ASSUME NEW t \in Task, TaskStopped(t) \/ TaskReport(t) \/ TaskExited(t) PROVE InFlight'
    BY <1>44 DEF TaskStopped, TaskReport, TaskExited, InFlight
  <1>45. ASSUME NEW t \in Task, TaskMarkExited(t) \/ TaskLost(t) \/ TaskEnd(t) PROVE InFlight'
    BY <1>45 DEF TaskMarkExited, TaskLost, TaskEnd, InFlight
  <1> QED
    BY <1>1, <1>2, <1>3, <1>4, <1>5, <1>6, <1>7, <1>8, <1>9, <1>10, <1>11,
       <1>12, <1>13, <1>14, <1>15, <1>16, <1>17, <1>18, <1>19, <1>20, <1>21,
       <1>22, <1>23, <1>24, <1>25, <1>26, <1>27, <1>28, <1>29, <1>30, <1>31,
       <1>32, <1>33, <1>34, <1>35, <1>36, <1>37, <1>38, <1>39, <1>40, <1>41,
       <1>42, <1>43, <1>44, <1>45
       DEF Next, HandlerStep, TaskStep, StubStep

-----------------------------------------------------------------------------
(* What the stub holds.                                                    *)

LEMMA DisarmsTail ==
  ASSUME NEW s \in Seq(Packet), s # <<>>
  PROVE  Disarms(s) \subseteq
           Disarms(Tail(s)) \cup (IF Head(s).op = "z1" THEN {Head(s).at} ELSE {})
  <1> SUFFICES ASSUME NEW i \in DOMAIN s, s[i].op = "z1"
               PROVE  i = 1 \/ s[i].at \in Disarms(Tail(s))
    BY DEF Disarms
  <1>1. i = 1 \/ (i - 1 \in DOMAIN Tail(s) /\ Tail(s)[i - 1] = s[i])
    OBVIOUS
  <1> QED
    BY <1>1 DEF Disarms

LEMMA DisarmsServed ==
  ASSUME TypeOK, NEW op, Serving(op), op # "z1"
  PROVE  Disarms(toStub) \subseteq Disarms(toStub')
  BY DisarmsTail DEF Serving, TypeOK, WireType

LEMMA DisarmsWritten ==
  ASSUME TypeOK, NEW p \in Packet, Write(p), link = "up"
  PROVE  /\ Disarms(toStub) \subseteq Disarms(toStub')
         /\ p.op = "z1" => p.at \in Disarms(toStub')
  <1>1. /\ \A i \in DOMAIN toStub : i \in DOMAIN toStub' /\ toStub'[i] = toStub[i]
        /\ \E i \in DOMAIN toStub' : toStub'[i] = p
    <2>1. toStub' = Append(toStub, p) /\ toStub \in Seq(Packet)
      BY DEF Write, TypeOK, WireType
    <2>2. Len(toStub) + 1 \in DOMAIN toStub' /\ toStub'[Len(toStub) + 1] = p
      BY <2>1
    <2> QED
      BY <2>1, <2>2
  <1> QED
    BY <1>1 DEF Disarms

LEMMA DisarmsNone ==
  ASSUME NEW s, \A i \in DOMAIN s : s[i].op # "z1"
  PROVE  Disarms(s) = {}
  BY DEF Disarms

LEMMA OneMore ==
  ASSUME NEW a \in Address, armed \in Seq(Address), armed' = Append(armed, a)
  PROVE  ArmedSet' = ArmedSet \cup {a}
  <1>1. DOMAIN armed' = DOMAIN armed \cup {Len(armed) + 1}
    OBVIOUS
  <1>2. (\A i \in DOMAIN armed : armed'[i] = armed[i]) /\ armed'[Len(armed) + 1] = a
    OBVIOUS
  <1> QED
    BY <1>1, <1>2 DEF ArmedSet

At == link = "up" /\ hart \notin {"exited", "gone"}

(* It is not about breakpoints.                                            *)
LEMMA StepAside ==
  ASSUME InStep, At, UNCHANGED <<armed, triggers>>,
         ~Clearing, ~Clearing', pc # "awaitArm", pc' # "awaitArm"
  PROVE  InStep'
  BY DEF InStep, At, Held, ArmedSet

(* The request thread stays where it is.                                   *)
LEMMA StepAlong ==
  ASSUME InStep, At, UNCHANGED <<pc, req, script, lines, armed, triggers>>,
         Disarms(toStub) \subseteq Disarms(toStub'),
         pc = "awaitArm" => (Accepted' <=> Accepted)
  PROVE  InStep'
  <1>1. (Clearing' <=> Clearing) /\ Held' = Held /\ ArmedSet' = ArmedSet
        /\ Disarms(script') = Disarms(script)
    BY DEF Clearing, Held, ArmedSet, Disarms
  <1> QED
    BY <1>1 DEF InStep, At

(* A reply that is no "ok" is appended.                                    *)
LEMMA NotAccepted ==
  ASSUME TypeOK, NEW reply \in Reply, reply # "ok", SendReply(reply), link = "up"
  PROVE  Accepted' <=> Accepted
  BY ReplyBehind, ReplyFirst DEF Accepted

LEMMA InStepPreserved == ASSUME BInv, Next PROVE InStep'
  <1> USE DEF BInv, SInv, IInv, CInv, TypeOK, InHandler, Commands, adapter,
             thread, wire, stub, front, Respond, Tell, Caught
  <1> SUFFICES ASSUME At' PROVE InStep'
    BY DEF InStep, At
  <1>1. ASSUME NEW r \in Request, ReadMessage(r) PROVE InStep'
    <2>1. At /\ UNCHANGED <<armed, triggers>> /\ pc # "awaitArm" /\ pc' # "awaitArm"
      BY <1>1, RequestFields DEF ReadMessage, At
    <2>2. ~Clearing /\ ~Clearing'
      BY <1>1, RequestFields DEF ReadMessage, At, Clearing, StartUp
    <2> QED
      BY <2>1, <2>2, StepAside
  <1>2. CASE ReadEndOfStream
    <2>1. At /\ UNCHANGED <<armed, triggers>> /\ pc # "awaitArm" /\ pc' # "awaitArm"
      BY <1>2 DEF ReadEndOfStream, At
    <2>2. ~Clearing /\ ~Clearing'
      BY <1>2 DEF ReadEndOfStream, At, Clearing, StartUp
    <2> QED
      BY <2>1, <2>2, StepAside
  <1>3. CASE HandleLocal
    <2>1. At /\ UNCHANGED <<armed, triggers>> /\ pc # "awaitArm" /\ pc' # "awaitArm"
      BY <1>3 DEF HandleLocal, At
    <2>2. ~Clearing /\ ~Clearing'
      BY <1>3 DEF HandleLocal, At, Clearing, StartUp
    <2> QED
      BY <2>1, <2>2, StepAside
  <1>4. CASE HandleLaunch
    <2>1. At /\ UNCHANGED <<armed, triggers>> /\ pc # "awaitArm" /\ pc' # "awaitArm"
      BY <1>4 DEF HandleLaunch, At, LinkEnds
    <2>2. ~Clearing /\ ~Clearing'
      BY <1>4 DEF HandleLaunch, At, Clearing, StartUp, LinkEnds
    <2> QED
      BY <2>1, <2>2, StepAside
  <1>5. CASE HandleLaunchFails
    <2>1. At /\ UNCHANGED <<armed, triggers>> /\ pc # "awaitArm" /\ pc' # "awaitArm"
      BY <1>5 DEF HandleLaunchFails, At
    <2>2. ~Clearing /\ ~Clearing'
      BY <1>5 DEF HandleLaunchFails, At, Clearing, StartUp
    <2> QED
      BY <2>1, <2>2, StepAside
  <1>6. CASE HandleAttach
    <2>1. At /\ UNCHANGED <<armed, triggers>> /\ pc # "awaitArm" /\ pc' # "awaitArm"
      BY <1>6 DEF HandleAttach, At
    <2>2. ~Clearing /\ ~Clearing'
      BY <1>6 DEF HandleAttach, At, Clearing, StartUp
    <2> QED
      BY <2>1, <2>2, StepAside
  <1>7. CASE TryConnect
    <2>1. armed' = <<>> /\ Held' = {}
      BY <1>7 DEF TryConnect, ConnectOnce, LinkInv, NothingYet, Held
    <2>2. ~Clearing' /\ pc' # "awaitArm"
      BY <1>7 DEF TryConnect, Clearing, StartUp
    <2>3. ArmedSet' = {} /\ \A i \in DOMAIN triggers' : triggers'[i] = Unarmed
      BY <2>1 DEF ArmedSet, Held
    <2> QED
      BY <2>1, <2>2, <2>3 DEF InStep
  <1>8. CASE TryConnectTimesOut
    <2>1. At /\ UNCHANGED <<armed, triggers>> /\ pc # "awaitArm" /\ pc' # "awaitArm"
      BY <1>8 DEF TryConnectTimesOut, At
    <2>2. ~Clearing /\ ~Clearing'
      BY <1>8 DEF TryConnectTimesOut, At, Clearing, StartUp
    <2> QED
      BY <2>1, <2>2, StepAside
  <1>9. CASE SendPacket
    <2>1. At /\ UNCHANGED <<armed, triggers, req>> /\ pc = "send" /\ pc' = "await"
      BY <1>9 DEF SendPacket, At
    <2>2. CASE ~Clearing
      BY <2>1, <2>2, StepAside DEF Clearing
    <2>3. CASE Clearing
      <3>1. Head(script) \in Packet /\ Write(Head(script)) /\ script' = Tail(script)
        BY <1>9, SeqFacts DEF SendPacket, ThreadType
      <3>2. Disarms(script) \cup Disarms(toStub) \subseteq Disarms(script') \cup Disarms(toStub')
        BY <1>9, <2>1, <3>1, DisarmsWritten, DisarmsTail DEF SendPacket, ThreadType, At
      <3>3. Clearing' /\ Held' = Held
        BY <2>1, <2>3 DEF Clearing, Held
      <3> QED
        BY <2>1, <2>3, <3>2, <3>3 DEF InStep, At
    <2> QED
      BY <2>2, <2>3
  <1>10. CASE ExchangeFails
    <2>1. At /\ UNCHANGED <<armed, triggers>> /\ pc # "awaitArm" /\ pc' # "awaitArm"
      BY <1>10 DEF ExchangeFails, At, LinkBroken
    <2>2. ~Clearing /\ ~Clearing'
      BY <1>10 DEF ExchangeFails, At, Clearing, StartUp, LinkBroken
    <2> QED
      BY <2>1, <2>2, StepAside
  <1>11. CASE NegotiateReply
    <2>1. At /\ UNCHANGED <<armed, triggers>> /\ pc # "awaitArm" /\ pc' # "awaitArm"
      BY <1>11 DEF NegotiateReply, At
    <2>2. ~Clearing /\ ~Clearing'
      BY <1>11 DEF NegotiateReply, At, Clearing, StartUp
    <2> QED
      BY <2>1, <2>2, StepAside
  <1>12. CASE RequireHaltedFails
    <2>1. At /\ UNCHANGED <<armed, triggers>> /\ pc # "awaitArm" /\ pc' # "awaitArm"
      BY <1>12 DEF RequireHaltedFails, At, Guarded
    <2>2. ~Clearing /\ ~Clearing'
      BY <1>12 DEF RequireHaltedFails, At, Clearing, StartUp, Guarded
    <2> QED
      BY <2>1, <2>2, StepAside
  <1>13. CASE HandleInspect
    <2>1. At /\ UNCHANGED <<armed, triggers>> /\ pc # "awaitArm" /\ pc' # "awaitArm"
      BY <1>13 DEF HandleInspect, At
    <2>2. ~Clearing /\ ~Clearing'
      BY <1>13 DEF HandleInspect, At, Clearing, StartUp
    <2> QED
      BY <2>1, <2>2, StepAside
  <1>14. CASE InspectReply
    <2>1. At /\ UNCHANGED <<armed, triggers>> /\ pc # "awaitArm" /\ pc' # "awaitArm"
      BY <1>14 DEF InspectReply, At
    <2>2. ~Clearing /\ ~Clearing'
      BY <1>14 DEF InspectReply, At, Clearing, StartUp
    <2> QED
      BY <2>1, <2>2, StepAside
  <1>15. CASE HandleSetBreakpoints
    <2>1. At /\ UNCHANGED <<armed, triggers, req>> /\ ~Clearing /\ pc # "awaitArm"
      BY <1>15 DEF HandleSetBreakpoints, At, Clearing
    <2>2. CASE armed = <<>>
      BY <1>15, <2>1, <2>2, StepAside DEF HandleSetBreakpoints, Clearing
    <2>3. CASE armed # <<>>
      <3>1. Clearing' /\ Held' = Held /\ Held = ArmedSet
        BY <1>15, <2>1, <2>3 DEF HandleSetBreakpoints, Clearing, InStep, At, Held
      <3>2. DOMAIN script' = DOMAIN armed
            /\ \A i \in DOMAIN armed : script'[i].op = "z1" /\ script'[i].at = armed[i]
        BY <1>15 DEF HandleSetBreakpoints, Disarm
      <3>3. ArmedSet \subseteq Disarms(script')
        BY <3>2 DEF ArmedSet, Disarms
      <3> QED
        BY <2>1, <3>1, <3>3 DEF InStep, At
    <2> QED
      BY <2>2, <2>3
  <1>16. CASE ClearBreakpointReply
    <2>1. At /\ Clearing /\ UNCHANGED <<triggers, req, script, toStub>> /\ toAdapter # <<>>
      BY <1>16 DEF ClearBreakpointReply, At, Clearing, Received
    <2>2. Held' = Held /\ Disarms(script') = Disarms(script) /\ Disarms(toStub') = Disarms(toStub)
      BY <2>1 DEF Held, Disarms
    <2>3. CASE More
      <3>1. Clearing'
        BY <1>16, <2>1, <2>3 DEF ClearBreakpointReply, Clearing
      <3> QED
        BY <2>1, <2>2, <3>1 DEF InStep, At
    <2>4. CASE ~More
      <3>1. Disarms(toStub) = {}
        BY <2>1, NoneAsks, DisarmsNone DEF At, Asks, Break
      <3>2. Disarms(script) = {}
        BY <2>4, DisarmsNone DEF More
      <3>3. Held' = {} /\ armed' = <<>> /\ ~Clearing' /\ pc' = "arm"
        BY <1>16, <2>1, <2>2, <2>4, <3>1, <3>2 DEF ClearBreakpointReply, InStep, At, Clearing
      <3>4. ArmedSet' = {}
        BY <3>3 DEF ArmedSet
      <3> QED
        BY <2>1, <3>3, <3>4 DEF InStep, At
    <2> QED
      BY <2>3, <2>4
  <1>17. CASE SkipLine
    <2>1. At /\ UNCHANGED <<armed, triggers>> /\ pc # "awaitArm" /\ pc' # "awaitArm"
      BY <1>17 DEF SkipLine, At
    <2>2. ~Clearing /\ ~Clearing'
      BY <1>17 DEF SkipLine, At, Clearing, StartUp
    <2> QED
      BY <2>1, <2>2, StepAside
  <1>18. CASE TrySetBreakpoint
    <2>1. At /\ UNCHANGED <<armed, triggers, req, toAdapter>> /\ pc = "arm" /\ pc' = "awaitArm"
      BY <1>18 DEF TrySetBreakpoint, At
    <2>2. toAdapter = <<>>
      <3>1. ~Waiting
        BY <2>1 DEF Waiting, ThreadAwaits, TaskAwaits, ExclusiveExchange, Exchanging
      <3> QED
        BY <2>1, <3>1, NobodyAnswered DEF At
    <2>3. ~Clearing /\ ~Clearing' /\ Held' = Held /\ ArmedSet' = ArmedSet /\ ~Accepted'
      BY <2>1, <2>2 DEF Clearing, Held, ArmedSet, Accepted
    <2> QED
      BY <2>1, <2>3 DEF InStep, At
  <1>19. CASE SetBreakpointReply
    <2>1. At /\ UNCHANGED <<triggers, req>> /\ pc = "awaitArm" /\ pc' = "arm" /\ toAdapter # <<>>
      BY <1>19 DEF SetBreakpointReply, At, Received
    <2>2. ~Clearing /\ ~Clearing' /\ Held' = Held
      BY <2>1 DEF Clearing, Held
    <2>3. CASE Head(toAdapter) = "ok"
      <3>1. armed' = Append(armed, Head(lines)) /\ Head(lines) \in Address
        BY <1>19, <2>1, <2>3 DEF SetBreakpointReply, Received
      <3>2. ArmedSet' = ArmedSet \cup {Head(lines)}
        BY <3>1, OneMore DEF AdapterType
      <3> QED
        BY <2>1, <2>2, <2>3, <3>2 DEF InStep, At, Accepted
    <2>4. CASE Head(toAdapter) # "ok"
      <3>1. ArmedSet' = ArmedSet
        BY <1>19, <2>4 DEF SetBreakpointReply, Received, ArmedSet
      <3> QED
        BY <2>1, <2>2, <2>4, <3>1 DEF InStep, At, Accepted
    <2> QED
      BY <2>3, <2>4
  <1>20. CASE SetBreakpointsDone
    <2>1. At /\ UNCHANGED <<armed, triggers>> /\ pc # "awaitArm" /\ pc' # "awaitArm"
      BY <1>20 DEF SetBreakpointsDone, At
    <2>2. ~Clearing /\ ~Clearing'
      BY <1>20 DEF SetBreakpointsDone, At, Clearing, StartUp
    <2> QED
      BY <2>1, <2>2, StepAside
  <1>21. CASE HandleConfigurationDone
    <2>1. At /\ UNCHANGED <<armed, triggers>> /\ pc # "awaitArm" /\ pc' # "awaitArm"
      BY <1>21 DEF HandleConfigurationDone, At
    <2>2. ~Clearing /\ ~Clearing'
      BY <1>21 DEF HandleConfigurationDone, At, Clearing, StartUp
    <2> QED
      BY <2>1, <2>2, StepAside
  <1>22. CASE HandleContinue
    <2>1. At /\ UNCHANGED <<armed, triggers>> /\ pc # "awaitArm" /\ pc' # "awaitArm"
      BY <1>22 DEF HandleContinue, At
    <2>2. ~Clearing /\ ~Clearing'
      BY <1>22 DEF HandleContinue, At, Clearing, StartUp
    <2> QED
      BY <2>1, <2>2, StepAside
  <1>23. CASE StartResume
    <2>1. At /\ UNCHANGED <<armed, triggers>> /\ pc # "awaitArm" /\ pc' # "awaitArm"
      BY <1>23 DEF StartResume, At
    <2>2. ~Clearing /\ ~Clearing'
      BY <1>23 DEF StartResume, At, Clearing, StartUp
    <2> QED
      BY <2>1, <2>2, StepAside
  <1>24. CASE HandleStep
    <2>1. At /\ UNCHANGED <<armed, triggers>> /\ pc # "awaitArm" /\ pc' # "awaitArm"
      BY <1>24 DEF HandleStep, At
    <2>2. ~Clearing /\ ~Clearing'
      BY <1>24 DEF HandleStep, At, Clearing, StartUp
    <2> QED
      BY <2>1, <2>2, StepAside
  <1>25. CASE StepReply
    <2>1. At /\ UNCHANGED <<armed, triggers>> /\ pc # "awaitArm" /\ pc' # "awaitArm"
      BY <1>25 DEF StepReply, At
    <2>2. ~Clearing /\ ~Clearing'
      BY <1>25 DEF StepReply, At, Clearing, StartUp
    <2> QED
      BY <2>1, <2>2, StepAside
  <1>26. CASE HandlePause
    <2>1. At /\ UNCHANGED <<armed, triggers>> /\ pc # "awaitArm" /\ pc' # "awaitArm"
      BY <1>26 DEF HandlePause, At
    <2>2. ~Clearing /\ ~Clearing'
      BY <1>26 DEF HandlePause, At, Clearing, StartUp
    <2> QED
      BY <2>1, <2>2, StepAside
  <1>27. CASE Interrupt
    <2>1. At /\ UNCHANGED <<armed, triggers>> /\ pc # "awaitArm" /\ pc' # "awaitArm"
      BY <1>27 DEF Interrupt, At
    <2>2. ~Clearing /\ ~Clearing'
      BY <1>27 DEF Interrupt, At, Clearing, StartUp
    <2> QED
      BY <2>1, <2>2, StepAside
  <1>28. CASE HandleDisconnect
    <2>1. At /\ UNCHANGED <<armed, triggers>> /\ pc # "awaitArm" /\ pc' # "awaitArm"
      BY <1>28 DEF HandleDisconnect, At
    <2>2. ~Clearing /\ ~Clearing'
      BY <1>28 DEF HandleDisconnect, At, Clearing, StartUp
    <2> QED
      BY <2>1, <2>2, StepAside
  <1>29. CASE Leave
    <2>1. At /\ UNCHANGED <<armed, triggers>> /\ pc # "awaitArm" /\ pc' # "awaitArm"
      BY <1>29 DEF Leave, At
    <2>2. ~Clearing /\ ~Clearing'
      BY <1>29 DEF Leave, At, Clearing, StartUp
    <2> QED
      BY <2>1, <2>2, StepAside
  <1>30. CASE Kill
    <2>1. At /\ UNCHANGED <<armed, triggers>> /\ pc # "awaitArm" /\ pc' # "awaitArm"
      BY <1>30 DEF Kill, At
    <2>2. ~Clearing /\ ~Clearing'
      BY <1>30 DEF Kill, At, Clearing, StartUp
    <2> QED
      BY <2>1, <2>2, StepAside
  <1>31. CASE DetachReply
    <2>1. At /\ UNCHANGED <<armed, triggers>> /\ pc # "awaitArm" /\ pc' # "awaitArm"
      BY <1>31 DEF DetachReply, At
    <2>2. ~Clearing /\ ~Clearing'
      BY <1>31 DEF DetachReply, At, Clearing, StartUp
    <2> QED
      BY <2>1, <2>2, StepAside
  <1>32. CASE DetachFails
    <2>1. At /\ UNCHANGED <<armed, triggers>> /\ pc # "awaitArm" /\ pc' # "awaitArm"
      BY <1>32 DEF DetachFails, At, LinkBroken
    <2>2. ~Clearing /\ ~Clearing'
      BY <1>32 DEF DetachFails, At, Clearing, StartUp, LinkBroken
    <2> QED
      BY <2>1, <2>2, StepAside
  <1>33. CASE AnswerDisconnect
    <2>1. At /\ UNCHANGED <<armed, triggers>> /\ pc # "awaitArm" /\ pc' # "awaitArm"
      BY <1>33 DEF AnswerDisconnect, At
    <2>2. ~Clearing /\ ~Clearing'
      BY <1>33 DEF AnswerDisconnect, At, Clearing, StartUp
    <2> QED
      BY <2>1, <2>2, StepAside
  <1>34. CASE Cleanup
    <2>1. At /\ UNCHANGED <<armed, triggers>> /\ pc # "awaitArm" /\ pc' # "awaitArm"
      BY <1>34 DEF Cleanup, At, LinkInv
    <2>2. ~Clearing /\ ~Clearing'
      BY <1>34 DEF Cleanup, At, Clearing, StartUp, LinkInv
    <2> QED
      BY <2>1, <2>2, StepAside
  <1>35. CASE ReapSimulator
    BY <1>35 DEF ReapSimulator, At
  <1>36. CASE Boot
    <2>1. At /\ UNCHANGED <<pc, req, script, lines, armed, triggers, toStub, toAdapter>>
      BY <1>36 DEF Boot, At
    <2> QED
      BY <2>1, StepAlong DEF Disarms, Accepted
  <1>37. CASE StubSkips
    <2>1. At /\ UNCHANGED <<pc, req, script, lines, armed, triggers>>
      BY <1>37 DEF StubSkips, At
    <2>2. PICK op : op # "z1" /\ Serving(op)
      BY <1>37 DEF StubSkips, Resume, Break
    <2>3. Disarms(toStub) \subseteq Disarms(toStub')
      BY <2>2, DisarmsServed
    <2>4. UNCHANGED toAdapter
      BY <1>37 DEF StubSkips
    <2> QED
      BY <2>1, <2>3, <2>4, StepAlong DEF Accepted
  <1>38. CASE StubAnswers
    <2>1. At /\ UNCHANGED <<pc, req, script, lines, armed, triggers>>
      BY <1>38 DEF StubAnswers, At
    <2>2. PICK op : op # "z1" /\ Serving(op) /\ op \notin {Break, "k", "Z1"}
      BY <1>38 DEF StubAnswers, Resume, Break
    <2>3. Disarms(toStub) \subseteq Disarms(toStub')
      BY <2>2, DisarmsServed
    <2>4. pc # "awaitArm"
      BY <2>1, <2>2, HeadServed DEF InFlight, At, Asks
    <2> QED
      BY <2>1, <2>3, <2>4, StepAlong DEF Accepted
  <1>39. CASE StubArms
    <2>1. At /\ UNCHANGED <<pc, req, script, lines, armed>> /\ Serving("Z1")
      BY <1>39 DEF StubArms, At
    <2>2. 1 \in DOMAIN toStub /\ Head(toStub) = toStub[1] /\ toStub[1].op = "Z1"
      BY <2>1, HeadServed
    <2>3. pc = "awaitArm" /\ Head(toStub).at = Head(lines) /\ Head(lines) \in Address
      BY <2>1, <2>2 DEF InFlight, At
    <2>4. toAdapter = <<>>
      BY <2>1, <2>2, NoneAnswered DEF At, Asks, Break
    <2>5. ~Clearing /\ ~Clearing' /\ ArmedSet' = ArmedSet /\ Held = ArmedSet
      BY <2>1, <2>3, <2>4 DEF Clearing, ArmedSet, InStep, At, Accepted
    <2>6. CASE SendReply("err") /\ UNCHANGED triggers
      <3>1. ~Accepted' /\ Held' = Held
        BY <2>1, <2>4, <2>6, ReplyFirst DEF At, Reply, Accepted, Held
      <3> QED
        BY <2>1, <2>3, <2>5, <2>6, <3>1 DEF InStep, At
    <2>7. ASSUME SendReply("ok"), NEW k \in Free,
                 triggers' = [triggers EXCEPT ![k] = Head(toStub).at]
          PROVE  InStep'
      <3>1. Accepted'
        BY <2>1, <2>4, <2>7, ReplyFirst DEF At, Reply, Accepted
      <3>2. triggers'[k] = Head(lines) /\ Head(lines) # Unarmed /\ triggers[k] = Unarmed
        BY <2>3, <2>7, ConstantsAssumption DEF Free, StubType
      <3>3. \A j \in DOMAIN triggers : j # k => triggers'[j] = triggers[j]
        BY <2>7 DEF StubType
      <3>4. DOMAIN triggers' = DOMAIN triggers /\ k \in DOMAIN triggers
        BY <2>7 DEF Free
      <3>5. Held' = Held \cup {Head(lines)}
        BY <3>2, <3>3, <3>4 DEF Held
      <3>6. Head(lines) \notin Held
        BY <2>3, <2>5 DEF ListInv
      <3>7. \A j \in DOMAIN triggers : triggers[j] # Head(lines)
        BY <3>2, <3>6 DEF Held
      <3>8. \A i, j \in DOMAIN triggers' :
               triggers'[i] = triggers'[j] /\ triggers'[i] # Unarmed => i = j
        BY <2>1, <3>2, <3>3, <3>4, <3>7 DEF InStep, At
      <3> QED
        BY <2>1, <2>3, <2>5, <3>1, <3>5, <3>8 DEF InStep
    <2> QED
      BY <1>39, <2>6, <2>7 DEF StubArms
  <1>40. CASE StubDisarms
    <2> DEFINE a == Head(toStub).at
    <2>1. At /\ UNCHANGED <<pc, req, script, lines, armed>> /\ Serving("z1")
      BY <1>40 DEF StubDisarms, At
    <2>2. 1 \in DOMAIN toStub /\ Head(toStub) = toStub[1] /\ toStub[1].op = "z1"
      BY <2>1, HeadServed
    <2>3. Clearing /\ Clearing'
      BY <2>1, <2>2 DEF InFlight, At, Clearing
    <2>4. Disarms(toStub) \subseteq Disarms(toStub') \cup {a}
      BY <2>1, DisarmsTail DEF Serving, WireType
    <2>5. DOMAIN triggers' = DOMAIN triggers
          /\ \A j \in DOMAIN triggers :
               triggers'[j] = (IF triggers[j] = a THEN Unarmed ELSE triggers[j])
      BY <1>40 DEF StubDisarms
    <2>6. Held' \subseteq Held \ {a}
      BY <2>5 DEF Held
    <2>7. Disarms(script') = Disarms(script)
      BY <2>1 DEF Disarms
    <2>8. \A i, j \in DOMAIN triggers' :
             triggers'[i] = triggers'[j] /\ triggers'[i] # Unarmed => i = j
      BY <2>1, <2>5 DEF InStep, At
    <2> QED
      BY <2>1, <2>3, <2>4, <2>6, <2>7, <2>8 DEF InStep, At
  <1>41. CASE StubSteps
    <2>1. At /\ UNCHANGED <<pc, req, script, lines, armed, triggers>>
      BY <1>41 DEF StubSteps, At
    <2>2. PICK op : op # "z1" /\ Serving(op) /\ op \notin {Break, "k", "Z1"}
      BY <1>41 DEF StubSteps, Resume, Break
    <2>3. Disarms(toStub) \subseteq Disarms(toStub')
      BY <2>2, DisarmsServed
    <2>4. pc # "awaitArm"
      BY <2>1, <2>2, HeadServed DEF InFlight, At, Asks
    <2> QED
      BY <2>1, <2>3, <2>4, StepAlong DEF Accepted
  <1>42. CASE StubResumes
    <2>1. At /\ UNCHANGED <<pc, req, script, lines, armed, triggers>>
      BY <1>42 DEF StubResumes, At
    <2>2. PICK op : op # "z1" /\ Serving(op)
      BY <1>42 DEF StubResumes, Resume, Break
    <2>3. Disarms(toStub) \subseteq Disarms(toStub')
      BY <2>2, DisarmsServed
    <2>4. UNCHANGED toAdapter
      BY <1>42 DEF StubResumes
    <2> QED
      BY <2>1, <2>3, <2>4, StepAlong DEF Accepted
  <1>43. CASE StubDetaches
    <2>1. At /\ UNCHANGED <<pc, req, script, lines, armed, triggers>>
      BY <1>43 DEF StubDetaches, At
    <2>2. PICK op : op # "z1" /\ Serving(op)
      BY <1>43 DEF StubDetaches, Resume, Break
    <2>3. Disarms(toStub) \subseteq Disarms(toStub')
      BY <2>2, DisarmsServed
    <2>4. UNCHANGED toAdapter
      BY <1>43 DEF StubDetaches
    <2> QED
      BY <2>1, <2>3, <2>4, StepAlong DEF Accepted
  <1>44. CASE StubRefuses
    BY <1>44 DEF StubRefuses, At
  <1>45. CASE StubInterrupted
    <2>1. At /\ UNCHANGED <<pc, req, script, lines, armed, triggers>>
      BY <1>45 DEF StubInterrupted, At
    <2>2. PICK op : op # "z1" /\ Serving(op)
      BY <1>45 DEF StubInterrupted, Resume, Break
    <2>3. Disarms(toStub) \subseteq Disarms(toStub')
      BY <2>2, DisarmsServed
    <2>4. Accepted' <=> Accepted
      BY <1>45, <2>1, NotAccepted DEF StubInterrupted, At, Reply
    <2> QED
      BY <2>1, <2>3, <2>4, StepAlong DEF Accepted
  <1>46. CASE StubKilled
    BY <1>46 DEF StubKilled, Gone, At
  <1>47. CASE HartStops
    <2>1. At /\ UNCHANGED <<pc, req, script, lines, armed, triggers, toStub>>
      BY <1>47 DEF HartStops, At
    <2>2. Accepted' <=> Accepted
      BY <1>47, <2>1, NotAccepted DEF HartStops, At, Reply
    <2> QED
      BY <2>1, <2>2, StepAlong DEF Disarms
  <1>48. CASE DrainEnds
    BY <1>48 DEF DrainEnds, Gone, At
  <1>49. CASE SimulatorDies
    BY <1>49 DEF SimulatorDies, Gone, At
  <1>50. CASE Finished
    <2>1. At /\ UNCHANGED <<pc, req, script, lines, armed, triggers, toStub, toAdapter>>
      BY <1>50 DEF Finished, vars, At
    <2> QED
      BY <2>1, StepAlong DEF Disarms, Accepted
  <1>51. ASSUME NEW t \in Task, TaskSend(t) PROVE InStep'
    <2>1. At /\ UNCHANGED <<pc, req, script, lines, armed, triggers, toAdapter>>
      BY <1>51 DEF TaskSend, At
    <2>2. Disarms(toStub) \subseteq Disarms(toStub')
      BY <1>51, <2>1, Packets, DisarmsWritten DEF TaskSend, At, Plain, Resume
    <2> QED
      BY <2>1, <2>2, StepAlong DEF Accepted
  <1>52. ASSUME NEW t \in Task, TaskStopped(t) PROVE InStep'
    <2>1. At /\ UNCHANGED <<pc, req, script, lines, armed, triggers, toStub>>
      BY <1>52 DEF TaskStopped, At
    <2>2. pc # "awaitArm"
      BY <1>52 DEF TaskStopped, ExclusiveExchange, Exchanging
    <2> QED
      BY <2>1, <2>2, StepAlong DEF Disarms
  <1>53. ASSUME NEW t \in Task, TaskReport(t) PROVE InStep'
    <2>1. At /\ UNCHANGED <<pc, req, script, lines, armed, triggers, toStub, toAdapter>>
      BY <1>53 DEF TaskReport, At
    <2> QED
      BY <2>1, StepAlong DEF Disarms, Accepted
  <1>54. ASSUME NEW t \in Task, TaskExited(t) PROVE InStep'
    <2>1. At /\ UNCHANGED <<pc, req, script, lines, armed, triggers, toStub>>
      BY <1>54 DEF TaskExited, At
    <2>2. pc # "awaitArm"
      BY <1>54 DEF TaskExited, ExclusiveExchange, Exchanging
    <2> QED
      BY <2>1, <2>2, StepAlong DEF Disarms
  <1>55. ASSUME NEW t \in Task, TaskMarkExited(t) PROVE InStep'
    <2>1. At /\ UNCHANGED <<pc, req, script, lines, armed, triggers, toStub, toAdapter>>
      BY <1>55 DEF TaskMarkExited, At
    <2> QED
      BY <2>1, StepAlong DEF Disarms, Accepted
  <1>56. ASSUME NEW t \in Task, TaskLost(t) PROVE InStep'
    <2>1. At /\ UNCHANGED <<pc, req, script, lines, armed, triggers, toStub>>
      BY <1>56 DEF TaskLost, At
    <2>2. pc # "awaitArm"
      BY <1>56 DEF TaskLost, ExclusiveExchange, Exchanging
    <2> QED
      BY <2>1, <2>2, StepAlong DEF Disarms
  <1>57. ASSUME NEW t \in Task, TaskEnd(t) PROVE InStep'
    <2>1. At /\ UNCHANGED <<pc, req, script, lines, armed, triggers, toStub, toAdapter>>
      BY <1>57 DEF TaskEnd, At
    <2> QED
      BY <2>1, StepAlong DEF Disarms, Accepted
  <1> QED
    BY <1>1, <1>2, <1>3, <1>4, <1>5, <1>6, <1>7, <1>8, <1>9, <1>10, <1>11,
       <1>12, <1>13, <1>14, <1>15, <1>16, <1>17, <1>18, <1>19, <1>20, <1>21,
       <1>22, <1>23, <1>24, <1>25, <1>26, <1>27, <1>28, <1>29, <1>30, <1>31,
       <1>32, <1>33, <1>34, <1>35, <1>36, <1>37, <1>38, <1>39, <1>40, <1>41,
       <1>42, <1>43, <1>44, <1>45, <1>46, <1>47, <1>48, <1>49, <1>50, <1>51,
       <1>52, <1>53, <1>54, <1>55, <1>56, <1>57
       DEF Next, HandlerStep, TaskStep, StubStep

-----------------------------------------------------------------------------
LEMMA InitBInv == Init => BInv
  <1> SUFFICES ASSUME Init PROVE BInv
    OBVIOUS
  <1>1. CInv /\ SInv
    BY InitRInv DEF RInv
  <1>2. ListInv
    BY DEF Init, ListInv
  <1>3. InFlight /\ InStep
    BY DEF Init, InFlight, InStep
  <1>4. NothingYet
    BY DEF Init, NothingYet, Held
  <1> QED
    BY <1>1, <1>2, <1>3, <1>4 DEF BInv

LEMMA StepSInv == CInv /\ SInv /\ Next => SInv'
  BY StartUpPreserved, LinkEndsPreserved, ScriptFitsPreserved, DetachIsLastPreserved DEF SInv

LEMMA StepBInv == BInv /\ [Next]_vars => BInv'
  <1>1. ASSUME BInv, Next PROVE BInv'
    BY <1>1, StepCInv, StepSInv, ListPreserved, InFlightPreserved, InStepPreserved,
       NothingYetPreserved DEF BInv
  <1>2. ASSUME BInv, UNCHANGED vars PROVE BInv'
    <2> USE <1>2 DEF BInv, vars, adapter, thread, wire, stub, front
    <2>1. CInv'
      BY StepCInv
    <2>2. SInv'
      BY DEF SInv, StartUp, LinkEnds, ScriptFits, DetachIsLast, RunAsked, Stepping, Starting
    <2>3. ListInv' /\ InFlight' /\ NothingYet'
      BY DEF ListInv, InFlight, NothingYet, ArmedSet, Held
    <2>4. InStep'
      <3>1. Held' = Held /\ ArmedSet' = ArmedSet /\ (Clearing' <=> Clearing)
            /\ (Accepted' <=> Accepted)
        BY DEF Held, ArmedSet, Clearing, Accepted
      <3>2. Disarms(script') = Disarms(script) /\ Disarms(toStub') = Disarms(toStub)
        BY DEF Disarms
      <3> QED
        BY <3>1, <3>2 DEF InStep
    <2> QED
      BY <2>1, <2>2, <2>3, <2>4
  <1> QED
    BY <1>1, <1>2

LEMMA BreakpointInvariance == Spec => []BInv
  BY InitBInv, StepBInv, PTL DEF Spec

(* As many comparators are taken as there are slots in the list.           *)
LEMMA SameNumber ==
  ASSUME TypeOK, Held = ArmedSet,
         \A i, j \in DOMAIN armed : armed[i] = armed[j] => i = j,
         \A i, j \in DOMAIN triggers : triggers[i] = triggers[j] /\ triggers[i] # Unarmed => i = j
  PROVE  Cardinality(DOMAIN triggers \ Free) = Len(armed)
  <1> DEFINE Taken == DOMAIN triggers \ Free
             byTrigger == [j \in Taken |-> triggers[j]]
             byPlace == [i \in 1..Len(armed) |-> armed[i]]
  <1>1. IsFiniteSet(Taken)
    <2>1. DOMAIN triggers = 1..NumTriggers
      BY DEF TypeOK, StubType
    <2>2. IsFiniteSet(1..NumTriggers)
      BY ConstantsAssumption, FS_Interval
    <2> QED
      BY <2>1, <2>2, FS_Subset
  <1>2. byTrigger \in Bijection(Taken, Held)
    BY DEF Bijection, Injection, Surjection, IsInjective, Held, Free
  <1>3. DOMAIN armed = 1..Len(armed) /\ Len(armed) \in Nat
    BY DEF TypeOK, AdapterType
  <1>4. byPlace \in Bijection(1..Len(armed), ArmedSet)
    BY <1>3 DEF Bijection, Injection, Surjection, IsInjective, ArmedSet
  <1>5. IsFiniteSet(Held) /\ Cardinality(Held) = Cardinality(Taken)
    BY <1>1, <1>2, FS_Bijection DEF ExistsBijection
  <1>6. IsFiniteSet(1..Len(armed)) /\ Cardinality(1..Len(armed)) = Len(armed)
    BY <1>3, FS_Interval
  <1>7. Cardinality(ArmedSet) = Cardinality(1..Len(armed))
    BY <1>4, <1>6, FS_Bijection DEF ExistsBijection
  <1> QED
    BY <1>5, <1>6, <1>7

(* After every setBreakpoints, whoever sent it and however it went, the    *)
(* breakpoints the adapter believes armed are the comparators of the stub: *)
(* HandleSetBreakpoints clears by its own list and arms one by one, and    *)
(* TrySetBreakpoint takes a refusal for an unverified line.                *)
THEOREM BreakpointsHold == Spec => []TriggersMatch
  <1>1. ASSUME BInv, link = "up", hart \in {"halted", "running"}, ~ChangingBreakpoints
        PROVE  /\ \A i \in DOMAIN armed : \E j \in DOMAIN triggers : triggers[j] = armed[i]
               /\ Cardinality(DOMAIN triggers \ Free) = Len(armed)
    <2>1. Held = ArmedSet
      BY <1>1 DEF BInv, SInv, StartUp, InStep, ChangingBreakpoints, Exchanging, Clearing
    <2>2. \A i \in DOMAIN armed : \E j \in DOMAIN triggers : triggers[j] = armed[i]
      BY <2>1 DEF Held, ArmedSet
    <2>3. Cardinality(DOMAIN triggers \ Free) = Len(armed)
      BY <1>1, <2>1, SameNumber DEF BInv, CInv, IInv, ListInv, InStep
    <2> QED
      BY <2>2, <2>3
  <1>2. BInv => TriggersMatch
    BY <1>1 DEF TriggersMatch
  <1> QED
    BY <1>2, BreakpointInvariance, PTL
-----------------------------------------------------------------------------
(***************************************************************************)
(* DebugSession implements RunControl: every step of the session is one of *)
(* RunControl's, or leaves Target, told and RunPending as they were.       *)
(***************************************************************************)

(* What the session does next may run the target: before the packet is     *)
(* written.                                                                *)
Intent ==
  RunAsked \/ (Stepping /\ pc = "send") \/ \E t \in Task : task[t] = "send"

Kept == [Promise!Next]_(Promise!vars)

-----------------------------------------------------------------------------
(* Steps of RunControl, by what they change here.                          *)

LEMMA PermitNow == RunPending <=> told = "running" /\ (Intent \/ ResumeSent)
  BY DEF RunPending, Intent, RunAsked, Stepping

LEMMA PermitNext == RunPending' <=> told' = "running" /\ (Intent' \/ ResumeSent')
  BY DEF RunPending, Intent, RunAsked, Stepping

(* No event, and no run but the one already asked for.                     *)
LEMMA Silent ==
  ASSUME told' = told, Target' = Target,
         told = "running" /\ (Intent' \/ ResumeSent') => Intent \/ ResumeSent
  PROVE  Kept
  <1>1. RunPending' => RunPending
    BY PermitNow, PermitNext
  <1>2. RunPending \in BOOLEAN /\ RunPending' \in BOOLEAN
    BY DEF RunPending
  <1> QED
    BY <1>1, <1>2 DEF Kept, Promise!Next, Promise!Forfeit, Promise!vars

LEMMA Ends ==
  ASSUME told' = "ended", Target' = Target
  PROVE  Kept
  BY DEF Kept, Promise!Next, Promise!ReportEnd, RunPending

LEMMA TargetAtRest ==
  ASSUME TypeOK, hart \notin {"running", "draining"} PROVE Target # "running"
  BY DEF Target, TypeOK, StubType

LEMMA Stops ==
  ASSUME TypeOK, told = "running", hart \notin {"running", "draining"},
         told' = "stopped", Target' = Target
  PROVE  Kept
  BY TargetAtRest DEF Kept, Promise!Next, Promise!ReportStop, RunPending

LEMMA IsLost ==
  ASSUME told' = told, Target' = "over", ResumeSent' => ResumeSent, Intent' => Intent
  PROVE  Kept
  <1>1. RunPending' => RunPending
    BY PermitNow, PermitNext
  <1>2. RunPending \in BOOLEAN /\ RunPending' \in BOOLEAN
    BY DEF RunPending
  <1> QED
    BY <1>1, <1>2 DEF Kept, Promise!Next, Promise!Lose

(* The stub takes the packet that resumes: it was the only one, and the    *)
(* only thing the client waits for.                                        *)
LEMMA LastRun ==
  ASSUME TypeOK, TypeOK', NoCrossTalk, link = "up", NEW op \in {Resume, "s"}, Serving(op)
  PROVE  ~ResumeSent'
  <1>1. Pending(toStub) \in Nat /\ Pending(toStub') \in Nat /\ Len(toAdapter) \in Nat
    BY PendingNow, PendingNext, Lengths
  <1>2. Pending(toStub) <= 1
    BY <1>1 DEF NoCrossTalk, Owed, Pending
  <1>3. Pending(toStub) = Pending(toStub') + 1
    BY Served DEF Resume, Break
  <1>4. Pending(toStub') = 0
    BY <1>1, <1>2, <1>3
  <1> QED
    BY <1>4, NothingPending
       DEF ResumeSent, Asks, Resume, Break, TypeOK, WireType

LEMMA Taken ==
  ASSUME RInv, RInv', Disciplined, told # "ended", Aside,
         NEW op \in {Resume, "s"}, Serving(op)
  PROVE  RunPending /\ ~RunPending'
  <1> USE DEF RInv, CInv, IInv, SInv
  <1>1. ResumeSent
    BY DEF Serving, ResumeSent, TypeOK, WireType
  <1>2. ~MustRest
    BY <1>1 DEF OneAtTarget, Still
  <1>3. link = "up"
    BY DEF Serving, LinkEnds
  <1>4. ~ResumeSent'
    BY <1>3, LastRun
  <1>5. ~Intent'
    BY <1>2 DEF Aside, MustRest, Intent, RunAsked, Stepping
  <1> QED
    BY <1>1, <1>2, <1>4, <1>5, PermitNow, PermitNext DEF MustRest

(* A run ends: nothing else was asked for meanwhile.                       *)
LEMMA Halts ==
  ASSUME RInv, Disciplined, told # "ended", Aside, hart \in {"running", "draining"},
         Target' \in {"halted", "over"}, ResumeSent' => ResumeSent
  PROVE  Kept
  <1> USE DEF RInv, CInv, IInv, SInv
  <1>1. ~MustRest
    BY DEF OneAtTarget, Still
  <1>2. CASE link = "up"
    <2>1. ~ResumeSent
      BY <1>2, OneOwed
    <2>2. ~Intent /\ ~Intent'
      BY <1>1 DEF Aside, MustRest, Intent, RunAsked, Stepping
    <2>3. RunPending = FALSE /\ RunPending' = FALSE
      BY <2>1, <2>2, PermitNow, PermitNext
    <2> QED
      BY <2>3 DEF Kept, Promise!Next, Promise!Halt, Target, Aside
  <1>3. CASE link # "up"
    BY <1>3 DEF LinkEnds, TypeOK, WireType
  <1> QED
    BY <1>2, <1>3

LEMMA Targets ==
  /\ hart \in {"none", "booting"} => Target = "off"
  /\ hart = "halted" => Target = "halted"
  /\ hart \in {"running", "draining"} => Target = "running"
  /\ hart \in {"exited", "gone"} => Target = "over"
  BY DEF Target

LEMMA TargetsNext ==
  /\ hart' \in {"none", "booting"} => Target' = "off"
  /\ hart' = "halted" => Target' = "halted"
  /\ hart' \in {"running", "draining"} => Target' = "running"
  /\ hart' \in {"exited", "gone"} => Target' = "over"
  BY DEF Target

LEMMA SameHart == ASSUME hart' = hart PROVE Target' = Target
  BY DEF Target

-----------------------------------------------------------------------------
LEMMA StepKept == ASSUME Disciplined, RInv, Next PROVE Kept
  <1> SUFFICES ASSUME told # "ended" PROVE Kept
    <2>1. ASSUME told = "ended" PROVE Kept
      <3>1. told' = "ended"
        BY <2>1, EndedStays
      <3>2. RunPending = FALSE /\ RunPending' = FALSE
        BY <2>1, <3>1 DEF RunPending
      <3> QED
        BY <2>1, <3>1, <3>2 DEF Kept, Promise!Next, Promise!Afterwards
    <2> QED
      BY <2>1
  <1> USE DEF RInv, SInv, IInv, CInv, TypeOK, InHandler, Commands, adapter,
             thread, wire, stub, front, OneInHand, AllIdle, RunAsked, Stepping,
             ThreadType, TaskType, Respond, Tell, Caught
  <1>0. RInv'
    BY StepRInv
  <1>1. ASSUME NEW r \in Request, ReadMessage(r) PROVE Kept
    <2>1. Target' = Target /\ (ResumeSent' <=> ResumeSent)
      BY <1>1, SameHart DEF ReadMessage, ResumeSent
    <2>2. CASE r.cmd = "disconnect"
      BY <1>1, <2>1, <2>2, Ends DEF ReadMessage
    <2>3. CASE r.cmd \in {"configurationDone", "continue", "step"}
      <3>1. told \in {"nothing", "stopped"}
        BY <1>1, <2>3 DEF ReadMessage, MayAsk, StartUp
      <3>2. told' = "running" /\ RunAsked'
        BY <1>1, <2>3, <3>1 DEF ReadMessage
      <3>3. RunPending' = TRUE
        BY <3>2 DEF RunPending
      <3> QED
        BY <2>1, <3>1, <3>2, <3>3 DEF Kept, Promise!Next, Promise!Ask
    <2>4. CASE r.cmd \notin {"disconnect", "configurationDone", "continue", "step"}
      <3>1. told' = told /\ (Intent' => Intent)
        BY <1>1, <2>4, RequestFields DEF ReadMessage, Intent
      <3> QED
        BY <2>1, <3>1, Silent
    <2> QED
      BY <2>2, <2>3, <2>4
  <1>2. CASE HandleLocal
    <2>1. Target' = Target /\ (ResumeSent' <=> ResumeSent)
      BY <1>2, SameHart DEF HandleLocal, ResumeSent
    <2>2. told' = told /\ (Intent' => Intent)
      BY <1>2 DEF HandleLocal, Intent, StartUp
    <2> QED
      BY <2>1, <2>2, Silent
  <1>3. CASE HandleLaunchFails
    <2>1. Target' = Target /\ (ResumeSent' <=> ResumeSent)
      BY <1>3, SameHart DEF HandleLaunchFails, ResumeSent
    <2>2. told' = told /\ (Intent' => Intent)
      BY <1>3 DEF HandleLaunchFails, Intent, StartUp
    <2> QED
      BY <2>1, <2>2, Silent
  <1>4. CASE HandleAttach
    <2>1. Target' = Target /\ (ResumeSent' <=> ResumeSent)
      BY <1>4, SameHart DEF HandleAttach, ResumeSent
    <2>2. told' = told /\ (Intent' => Intent)
      BY <1>4 DEF HandleAttach, Intent, StartUp
    <2> QED
      BY <2>1, <2>2, Silent
  <1>5. CASE TryConnect
    <2>1. Target' = Target /\ (ResumeSent' <=> ResumeSent)
      BY <1>5, SameHart DEF TryConnect, ResumeSent
    <2>2. told' = told /\ (Intent' => Intent)
      BY <1>5 DEF TryConnect, Intent, StartUp, ConnectOnce
    <2> QED
      BY <2>1, <2>2, Silent
  <1>6. CASE TryConnectTimesOut
    <2>1. Target' = Target /\ (ResumeSent' <=> ResumeSent)
      BY <1>6, SameHart DEF TryConnectTimesOut, ResumeSent
    <2>2. told' = told /\ (Intent' => Intent)
      BY <1>6 DEF TryConnectTimesOut, Intent, StartUp
    <2> QED
      BY <2>1, <2>2, Silent
  <1>7. CASE HandleInspect
    <2>1. Target' = Target /\ (ResumeSent' <=> ResumeSent)
      BY <1>7, SameHart DEF HandleInspect, ResumeSent
    <2>2. told' = told /\ (Intent' => Intent)
      BY <1>7 DEF HandleInspect, Intent, StartUp
    <2> QED
      BY <2>1, <2>2, Silent
  <1>8. CASE HandleSetBreakpoints
    <2>1. Target' = Target /\ (ResumeSent' <=> ResumeSent)
      BY <1>8, SameHart DEF HandleSetBreakpoints, ResumeSent
    <2>2. told' = told /\ (Intent' => Intent)
      BY <1>8 DEF HandleSetBreakpoints, Intent, StartUp
    <2> QED
      BY <2>1, <2>2, Silent
  <1>9. CASE ClearBreakpointReply
    <2>1. Target' = Target /\ (ResumeSent' <=> ResumeSent)
      BY <1>9, SameHart DEF ClearBreakpointReply, ResumeSent
    <2>2. told' = told /\ (Intent' => Intent)
      BY <1>9 DEF ClearBreakpointReply, Intent, StartUp
    <2> QED
      BY <2>1, <2>2, Silent
  <1>10. CASE SkipLine
    <2>1. Target' = Target /\ (ResumeSent' <=> ResumeSent)
      BY <1>10, SameHart DEF SkipLine, ResumeSent
    <2>2. told' = told /\ (Intent' => Intent)
      BY <1>10 DEF SkipLine, Intent, StartUp
    <2> QED
      BY <2>1, <2>2, Silent
  <1>11. CASE SetBreakpointReply
    <2>1. Target' = Target /\ (ResumeSent' <=> ResumeSent)
      BY <1>11, SameHart DEF SetBreakpointReply, ResumeSent
    <2>2. told' = told /\ (Intent' => Intent)
      BY <1>11 DEF SetBreakpointReply, Intent, StartUp
    <2> QED
      BY <2>1, <2>2, Silent
  <1>12. CASE SetBreakpointsDone
    <2>1. Target' = Target /\ (ResumeSent' <=> ResumeSent)
      BY <1>12, SameHart DEF SetBreakpointsDone, ResumeSent
    <2>2. told' = told /\ (Intent' => Intent)
      BY <1>12 DEF SetBreakpointsDone, Intent, StartUp
    <2> QED
      BY <2>1, <2>2, Silent
  <1>13. CASE HandleContinue
    <2>1. Target' = Target /\ (ResumeSent' <=> ResumeSent)
      BY <1>13, SameHart DEF HandleContinue, ResumeSent
    <2>2. told' = told /\ (Intent' => Intent)
      BY <1>13 DEF HandleContinue, Intent, StartUp
    <2> QED
      BY <2>1, <2>2, Silent
  <1>14. CASE HandlePause
    <2>1. Target' = Target /\ (ResumeSent' <=> ResumeSent)
      BY <1>14, SameHart DEF HandlePause, ResumeSent
    <2>2. told' = told /\ (Intent' => Intent)
      BY <1>14 DEF HandlePause, Intent, StartUp
    <2> QED
      BY <2>1, <2>2, Silent
  <1>15. CASE NegotiateReply
    <2>1. Target' = Target /\ (ResumeSent' <=> ResumeSent)
      BY <1>15, SameHart DEF NegotiateReply, ResumeSent
    <2>2. told' = told /\ (Intent' => Intent)
      BY <1>15 DEF NegotiateReply, Intent, StartUp
    <2> QED
      BY <2>1, <2>2, Silent
  <1>16. CASE InspectReply
    <2>1. Target' = Target /\ (ResumeSent' <=> ResumeSent)
      BY <1>16, SameHart DEF InspectReply, ResumeSent
    <2>2. told' = told /\ (Intent' => Intent)
      BY <1>16 DEF InspectReply, Intent, StartUp
    <2> QED
      BY <2>1, <2>2, Silent
  <1>17. CASE HandleStep
    <2>1. Target' = Target /\ (ResumeSent' <=> ResumeSent)
      BY <1>17, SameHart DEF HandleStep, ResumeSent
    <2>2. told' = told /\ (Intent' => Intent)
      BY <1>17 DEF HandleStep, Intent, StartUp
    <2> QED
      BY <2>1, <2>2, Silent
  <1>18. CASE StartResume
    <2>1. Target' = Target /\ (ResumeSent' <=> ResumeSent)
      BY <1>18, SameHart DEF StartResume, ResumeSent
    <2>2. told' = told /\ (Intent' => Intent)
      BY <1>18 DEF StartResume, Intent, StartUp
    <2> QED
      BY <2>1, <2>2, Silent
  <1>19. CASE RequireHaltedFails
    <2>1. Target' = Target /\ (ResumeSent' <=> ResumeSent)
      BY <1>19, SameHart DEF RequireHaltedFails, ResumeSent
    <2>2. told' = told /\ (Intent' => Intent)
      BY <1>19
         DEF RequireHaltedFails, Intent, StartUp, Halted, Guarded, StartUp
    <2> QED
      BY <2>1, <2>2, Silent
  <1>20. CASE ExchangeFails
    <2>1. Target' = Target /\ (ResumeSent' <=> ResumeSent)
      BY <1>20, SameHart DEF ExchangeFails, ResumeSent
    <2>2. told' = told /\ (Intent' => Intent)
      BY <1>20 DEF ExchangeFails, Intent, StartUp, Exchanging
    <2> QED
      BY <2>1, <2>2, Silent
  <1>21. CASE HandleLaunch
    <2>1. Target' = Target
      BY <1>21, Targets, TargetsNext DEF HandleLaunch, LinkEnds
    <2>2. told' = told /\ (Intent' => Intent) /\ (ResumeSent' <=> ResumeSent)
      BY <1>21 DEF HandleLaunch, Intent, ResumeSent
    <2> QED
      BY <2>1, <2>2, Silent
  <1>22. CASE ReadEndOfStream
    BY <1>22, SameHart, Ends DEF ReadEndOfStream
  <1>23. CASE HandleDisconnect \/ Leave \/ Kill \/ DetachReply \/ DetachFails
    BY <1>23
       DEF HandleDisconnect, Leave, Kill, DetachReply, DetachFails, StartUp
  <1>24. CASE AnswerDisconnect \/ Cleanup \/ ReapSimulator
    BY <1>24 DEF AnswerDisconnect, Cleanup, ReapSimulator, StartUp
  <1>25. CASE SendPacket
    <2>1. Target' = Target /\ told' = told /\ (Intent' => Intent)
      BY <1>25, SameHart DEF SendPacket, Intent
    <2>2. CASE Stepping
      BY <1>25, <2>1, <2>2, Silent DEF SendPacket, Intent
    <2>3. CASE ~Stepping
      <3>1. Head(script) \in Packet /\ ~Runs(Head(script)) /\ Write(Head(script))
        BY <1>25, <2>3, SeqFacts DEF SendPacket, ScriptFits
      <3>2. ResumeSent' => ResumeSent
        BY <3>1, SentByWrite
      <3> QED
        BY <2>1, <3>2, Silent
    <2> QED
      BY <2>2, <2>3
  <1>26. CASE TrySetBreakpoint
    <2>1. Arm(Head(lines)) \in Packet /\ ~Runs(Arm(Head(lines))) /\ Write(Arm(Head(lines)))
      BY <1>26, SeqFacts, Packets DEF TrySetBreakpoint, Runs, Arm, Resume
    <2>2. ResumeSent' => ResumeSent
      BY <2>1, SentByWrite
    <2>3. Target' = Target /\ told' = told /\ (Intent' => Intent)
      BY <1>26, SameHart DEF TrySetBreakpoint, Intent
    <2> QED
      BY <2>2, <2>3, Silent
  <1>27. CASE Interrupt
    <2>1. Target' = Target /\ told' = told /\ (Intent' => Intent)
      BY <1>27, SameHart DEF Interrupt, Intent, StartUp
    <2>2. Plain(Break) \in Packet /\ ~Runs(Plain(Break))
      BY Packets DEF Runs, Plain, Break, Resume
    <2>3. ResumeSent' => ResumeSent
      BY <1>27, <2>2, SentByWrite DEF Interrupt, ResumeSent
    <2> QED
      BY <2>1, <2>3, Silent
  <1>28. CASE HandleConfigurationDone
    <2>1. Target' = Target /\ (ResumeSent' <=> ResumeSent)
      BY <1>28, SameHart DEF HandleConfigurationDone, ResumeSent
    <2>2. told = "running" /\ hart \notin {"running", "draining"}
      BY <1>28 DEF HandleConfigurationDone, OneAtTarget, MustRest, Still
    <2>3. CASE stopOnEntry
      BY <1>28, <2>1, <2>2, <2>3, Stops DEF HandleConfigurationDone
    <2>4. CASE ~stopOnEntry
      BY <1>28, <2>1, <2>4, Silent DEF HandleConfigurationDone, Intent
    <2> QED
      BY <2>3, <2>4
  <1>29. CASE StepReply
    <2>1. Target' = Target /\ (ResumeSent' <=> ResumeSent)
      BY <1>29, SameHart DEF StepReply, ResumeSent
    <2>2. toAdapter # <<>> /\ Stepping
      BY <1>29 DEF StepReply, Received
    <2>3. told = "running" /\ hart \notin {"running", "draining"}
      BY <2>2, AfterReply
    <2>4. told' \in {"stopped", "ended", told} /\ (Intent' => Intent)
      BY <1>29, <2>2, <2>3 DEF StepReply, Intent
    <2> QED
      BY <2>1, <2>3, <2>4, Stops, Ends, Silent
  <1>30. ASSUME NEW t \in Task, TaskSend(t) PROVE Kept
    <2>1. Target' = Target /\ told' = told /\ (Intent' => Intent) /\ Intent
      BY <1>30, SameHart DEF TaskSend, Intent
    <2> QED
      BY <2>1, Silent
  <1>31. ASSUME NEW t \in Task, TaskStopped(t) \/ TaskExited(t) \/ TaskMarkExited(t) \/ TaskLost(t) PROVE Kept
    <2>1. Target' = Target /\ (ResumeSent' <=> ResumeSent)
      BY <1>31, SameHart
         DEF TaskStopped, TaskExited, TaskMarkExited, TaskLost, ResumeSent
    <2>2. told' = told /\ (Intent' => Intent)
      BY <1>31 DEF TaskStopped, TaskExited, TaskMarkExited, TaskLost, Intent
    <2> QED
      BY <2>1, <2>2, Silent
  <1>32. ASSUME NEW t \in Task, TaskReport(t) PROVE Kept
    <2>1. Target' = Target /\ told' = "stopped"
      BY <1>32, SameHart DEF TaskReport
    <2>2. told = "running" /\ hart \notin {"running", "draining"}
      BY <1>32 DEF TaskReport, OneAtTarget, MustRest, Still
    <2> QED
      BY <2>1, <2>2, Stops
  <1>33. ASSUME NEW t \in Task, TaskEnd(t) PROVE Kept
    BY <1>33, SameHart, Ends DEF TaskEnd
  <1>34. CASE Boot
    <2>1. told' = told /\ RunPending' = RunPending
      BY <1>34 DEF Boot, RunPending, ResumeSent
    <2> QED
      BY <1>34, <2>1, Targets, TargetsNext
         DEF Boot, Kept, Promise!Next, Promise!Start
  <1>35. CASE StubSkips
    <2>1. PICK op : Serving(op)
      BY <1>35 DEF StubSkips
    <2>2. Target' = Target /\ told' = told /\ (Intent' <=> Intent)
      BY <1>35, SameHart DEF StubSkips, Intent
    <2>3. ResumeSent' => ResumeSent
      BY <2>1, SentByServing
    <2> QED
      BY <2>2, <2>3, Silent
  <1>36. CASE StubAnswers
    <2>1. PICK op : Serving(op)
      BY <1>36 DEF StubAnswers
    <2>2. Target' = Target /\ told' = told /\ (Intent' <=> Intent)
      BY <1>36, SameHart DEF StubAnswers, Intent
    <2>3. ResumeSent' => ResumeSent
      BY <2>1, SentByServing
    <2> QED
      BY <2>2, <2>3, Silent
  <1>37. CASE StubArms
    <2>1. PICK op : Serving(op)
      BY <1>37 DEF StubArms
    <2>2. Target' = Target /\ told' = told /\ (Intent' <=> Intent)
      BY <1>37, SameHart DEF StubArms, Intent
    <2>3. ResumeSent' => ResumeSent
      BY <2>1, SentByServing
    <2> QED
      BY <2>2, <2>3, Silent
  <1>38. CASE StubDisarms
    <2>1. PICK op : Serving(op)
      BY <1>38 DEF StubDisarms
    <2>2. Target' = Target /\ told' = told /\ (Intent' <=> Intent)
      BY <1>38, SameHart DEF StubDisarms, Intent
    <2>3. ResumeSent' => ResumeSent
      BY <2>1, SentByServing
    <2> QED
      BY <2>2, <2>3, Silent
  <1>39. CASE StubRefuses
    <2>1. PICK op : Serving(op)
      BY <1>39 DEF StubRefuses
    <2>2. Target' = Target /\ told' = told /\ (Intent' <=> Intent)
      BY <1>39, SameHart DEF StubRefuses, Intent
    <2>3. ResumeSent' => ResumeSent
      BY <2>1, SentByServing
    <2> QED
      BY <2>2, <2>3, Silent
  <1>40. CASE StubSteps
    <2>1. RunPending /\ ~RunPending'
      BY <1>40, <1>0, Taken DEF StubSteps, Aside
    <2>2. RunPending = TRUE /\ RunPending' = FALSE
      BY <2>1 DEF RunPending
    <2>3. Target = "halted" /\ Target' \in {"halted", "over"} /\ told' = told
      BY <1>40, Targets, TargetsNext DEF StubSteps
    <2> QED
      BY <2>2, <2>3 DEF Kept, Promise!Next, Promise!RunOnce
  <1>41. CASE StubResumes
    <2>1. RunPending /\ ~RunPending'
      BY <1>41, <1>0, Taken DEF StubResumes, Aside
    <2>2. RunPending = TRUE /\ RunPending' = FALSE
      BY <2>1 DEF RunPending
    <2>3. Target = "halted" /\ Target' = "running" /\ told' = told
      BY <1>41, Targets, TargetsNext DEF StubResumes
    <2> QED
      BY <2>2, <2>3 DEF Kept, Promise!Next, Promise!Run
  <1>42. CASE StubDetaches
    BY <1>42 DEF StubDetaches, Serving, DetachIsLast, WireType
  <1>43. CASE StubInterrupted
    <2>1. ResumeSent' => ResumeSent
      BY <1>43, SentByServing DEF StubInterrupted
    <2> QED
      BY <1>43, <2>1, TargetsNext, Halts DEF StubInterrupted, Aside
  <1>44. CASE HartStops
    <2>1. ResumeSent' => ResumeSent
      BY <1>44 DEF HartStops, ResumeSent
    <2> QED
      BY <1>44, <2>1, TargetsNext, Halts DEF HartStops, Aside
  <1>45. CASE StubKilled \/ DrainEnds \/ SimulatorDies
    <2>1. told' = told /\ Target' = "over" /\ (Intent' => Intent)
      BY <1>45, TargetsNext
         DEF StubKilled, DrainEnds, SimulatorDies, Gone, Intent
    <2>2. ~ResumeSent'
      BY <1>45 DEF StubKilled, DrainEnds, SimulatorDies, Gone, ResumeSent
    <2> QED
      BY <2>1, <2>2, IsLost
  <1>46. CASE Finished
    <2>1. Target' = Target /\ (ResumeSent' <=> ResumeSent)
      BY <1>46, SameHart DEF Finished, vars, ResumeSent
    <2>2. told' = told /\ (Intent' => Intent)
      BY <1>46 DEF Finished, Intent, StartUp, vars
    <2> QED
      BY <2>1, <2>2, Silent
  <1> QED
    BY <1>1, <1>2, <1>3, <1>4, <1>5, <1>6, <1>7, <1>8, <1>9, <1>10, <1>11,
       <1>12, <1>13, <1>14, <1>15, <1>16, <1>17, <1>18, <1>19, <1>20, <1>21,
       <1>22, <1>23, <1>24, <1>25, <1>26, <1>27, <1>28, <1>29, <1>30, <1>31,
       <1>32, <1>33, <1>34, <1>35, <1>36, <1>37, <1>38, <1>39, <1>40, <1>41,
       <1>42, <1>43, <1>44, <1>45, <1>46
       DEF Next, HandlerStep, TaskStep, StubStep

LEMMA InitKept == Init => Promise!Init
  <1> SUFFICES ASSUME Init PROVE Promise!Init
    OBVIOUS
  <1>1. Target \in {"off", "halted"}
    BY Targets DEF Init
  <1>2. RunPending = FALSE
    BY DEF Init, RunPending
  <1> QED
    BY <1>1, <1>2 DEF Init, Promise!Init

(* The session implements the promise of RunControl to such a client:      *)
(* whatever the request thread, the resume tasks and the stub do in which  *)
(* order, each request to run (HandleContinue, HandleStep, the resume of   *)
(* HandleConfigurationDone) runs the target at most once, never behind the *)
(* client's back, and HandleStopReply reports only a target at rest.       *)
THEOREM PromiseKept == ASSUME Disciplined PROVE Spec => KeepsPromise
  <1>1. RInv /\ [Next]_vars => [Promise!Next]_(Promise!vars)
    <2>1. ASSUME RInv, Next PROVE [Promise!Next]_(Promise!vars)
      BY <2>1, StepKept DEF Kept
    <2>2. ASSUME UNCHANGED vars PROVE UNCHANGED Promise!vars
      BY <2>2, SameHart
         DEF vars, adapter, thread, wire, stub, front, Promise!vars, RunPending, ResumeSent
    <2> QED
      BY <2>1, <2>2
  <1> QED
    BY <1>1, InitKept, RunInvariance, PTL DEF Spec, KeepsPromise, Promise!Spec

-----------------------------------------------------------------------------
(* Requests and their answers.                                             *)

(* A handler has answered, or it has not, by the place it is at.           *)
Unanswered == pc \notin {"read", "resume", "interrupt", "cleanup", "reap", "done"} /\ ~Stepping
Answers ==
  /\ pc \in {"resume", "interrupt"} \/ Stepping => replies = 1
  /\ Unanswered => replies = 0

(* A step waits for the end of the run it asked for and for nothing else.  *)
StepWaits ==
  /\ Stepping /\ pc = "send" => script = <<Plain("s")>>
  /\ link = "up" /\ Stepping /\ pc = "await" =>
       /\ \A i \in DOMAIN toStub : Asks(toStub[i]) => toStub[i].op = "s"
       /\ toAdapter # <<>> => Head(toAdapter) \notin {"ok", "err"}

AInv == RInv /\ Answers /\ (Disciplined => StepWaits)

LEMMA AnswersPreserved == ASSUME AInv, Next PROVE Answers'
  <1> USE DEF AInv, RInv, SInv, StartUp, Answers, Unanswered, Stepping, IInv,
             CInv, TypeOK, InHandler, Commands, adapter, thread, wire, stub,
             front, ThreadType, Respond, Tell, Caught
  <1>1. ASSUME NEW r \in Request, ReadMessage(r) PROVE Answers'
    BY <1>1, RequestFields DEF ReadMessage, MayAsk
  <1>2. CASE ReadEndOfStream \/ HandleLocal \/ HandleLaunch \/ HandleLaunchFails
    BY <1>2 DEF ReadEndOfStream, HandleLocal, HandleLaunch, HandleLaunchFails
  <1>3. CASE HandleAttach \/ TryConnect \/ TryConnectTimesOut \/ SendPacket
    BY <1>3 DEF HandleAttach, TryConnect, TryConnectTimesOut, SendPacket
  <1>4. CASE ExchangeFails
    BY <1>4 DEF ExchangeFails, Exchanging
  <1>5. CASE NegotiateReply
    BY <1>5 DEF NegotiateReply
  <1>6. CASE RequireHaltedFails
    BY <1>6 DEF RequireHaltedFails, Guarded
  <1>7. CASE HandleInspect
    BY <1>7 DEF HandleInspect
  <1>8. CASE InspectReply
    BY <1>8 DEF InspectReply
  <1>9. CASE HandleSetBreakpoints \/ ClearBreakpointReply \/ SkipLine \/ TrySetBreakpoint
    BY <1>9
       DEF HandleSetBreakpoints, ClearBreakpointReply, SkipLine,
           TrySetBreakpoint
  <1>10. CASE SetBreakpointReply \/ SetBreakpointsDone \/ HandleConfigurationDone \/
            HandleContinue
    BY <1>10
       DEF SetBreakpointReply, SetBreakpointsDone, HandleConfigurationDone,
           HandleContinue
  <1>11. CASE StartResume \/ HandleStep
    BY <1>11 DEF StartResume, HandleStep
  <1>12. CASE StepReply
    BY <1>12 DEF StepReply
  <1>13. CASE HandlePause \/ Interrupt \/ HandleDisconnect \/ Leave
    BY <1>13 DEF HandlePause, Interrupt, HandleDisconnect, Leave
  <1>14. CASE Kill \/ DetachReply \/ DetachFails \/ AnswerDisconnect
    BY <1>14 DEF Kill, DetachReply, DetachFails, AnswerDisconnect
  <1>15. CASE Cleanup \/ ReapSimulator \/ Boot \/ StubSkips
    BY <1>15 DEF Cleanup, ReapSimulator, Boot, StubSkips
  <1>16. CASE StubAnswers \/ StubArms \/ StubDisarms \/ StubSteps
    BY <1>16 DEF StubAnswers, StubArms, StubDisarms, StubSteps
  <1>17. CASE StubResumes \/ StubDetaches \/ StubRefuses \/ StubInterrupted
    BY <1>17 DEF StubResumes, StubDetaches, StubRefuses, StubInterrupted
  <1>18. CASE StubKilled \/ HartStops \/ DrainEnds \/ SimulatorDies
    BY <1>18 DEF StubKilled, HartStops, DrainEnds, SimulatorDies
  <1>19. CASE Finished
    BY <1>19 DEF Finished, vars
  <1>20. ASSUME NEW t \in Task, TaskSend(t) \/ TaskStopped(t) \/ TaskReport(t) PROVE Answers'
    BY <1>20 DEF TaskSend, TaskStopped, TaskReport
  <1>21. ASSUME NEW t \in Task, TaskExited(t) \/ TaskMarkExited(t) \/ TaskLost(t) PROVE Answers'
    BY <1>21 DEF TaskExited, TaskMarkExited, TaskLost
  <1>22. ASSUME NEW t \in Task, TaskEnd(t) PROVE Answers'
    BY <1>22 DEF TaskEnd
  <1> QED
    BY <1>1, <1>2, <1>3, <1>4, <1>5, <1>6, <1>7, <1>8, <1>9, <1>10, <1>11,
       <1>12, <1>13, <1>14, <1>15, <1>16, <1>17, <1>18, <1>19, <1>20, <1>21,
       <1>22
       DEF Next, HandlerStep, TaskStep, StubStep


LEMMA EndReply ==
  ASSUME TypeOK, link = "up", NEW reply \in Reply \ {"ok", "err"}, SendReply(reply),
         toAdapter # <<>> => Head(toAdapter) \notin {"ok", "err"}
  PROVE  Head(toAdapter') \notin {"ok", "err"}
  BY ReplyBehind, ReplyFirst

LEMMA StepWaitsPreserved == ASSUME Disciplined, AInv, Next PROVE StepWaits'
  <1> USE DEF AInv, RInv, SInv, IInv, CInv, TypeOK, InHandler, Commands,
             adapter, thread, wire, stub, front, Respond, Tell, Caught
  <1>1. ASSUME NEW r \in Request, ReadMessage(r) PROVE StepWaits'
    <2>1. ~(Stepping' /\ pc' \in {"send", "await"})
      BY <1>1, RequestFields DEF ReadMessage, Stepping, StartUp
    <2> QED
      BY <2>1 DEF StepWaits, Stepping
  <1>2. CASE ReadEndOfStream
    <2>1. ~(Stepping' /\ pc' \in {"send", "await"})
      BY <1>2 DEF ReadEndOfStream, Stepping, StartUp
    <2> QED
      BY <2>1 DEF StepWaits, Stepping
  <1>3. CASE HandleLocal
    <2>1. ~(Stepping' /\ pc' \in {"send", "await"})
      BY <1>3 DEF HandleLocal, Stepping, StartUp
    <2> QED
      BY <2>1 DEF StepWaits, Stepping
  <1>4. CASE HandleLaunch
    <2>1. ~(Stepping' /\ pc' \in {"send", "await"})
      BY <1>4 DEF HandleLaunch, Stepping, StartUp
    <2> QED
      BY <2>1 DEF StepWaits, Stepping
  <1>5. CASE HandleLaunchFails
    <2>1. ~(Stepping' /\ pc' \in {"send", "await"})
      BY <1>5 DEF HandleLaunchFails, Stepping, StartUp
    <2> QED
      BY <2>1 DEF StepWaits, Stepping
  <1>6. CASE HandleAttach
    <2>1. ~(Stepping' /\ pc' \in {"send", "await"})
      BY <1>6 DEF HandleAttach, Stepping, StartUp
    <2> QED
      BY <2>1 DEF StepWaits, Stepping
  <1>7. CASE TryConnect
    <2>1. ~(Stepping' /\ pc' \in {"send", "await"})
      BY <1>7 DEF TryConnect, Stepping, StartUp
    <2> QED
      BY <2>1 DEF StepWaits, Stepping
  <1>8. CASE TryConnectTimesOut
    <2>1. ~(Stepping' /\ pc' \in {"send", "await"})
      BY <1>8 DEF TryConnectTimesOut, Stepping, StartUp
    <2> QED
      BY <2>1 DEF StepWaits, Stepping
  <1>9. CASE SendPacket
    <2>1. CASE ~Stepping
      BY <1>9, <2>1 DEF SendPacket, StepWaits, Stepping
    <2>2. CASE Stepping
      <3>1. pc = "send" /\ pc' = "await" /\ UNCHANGED <<link, toAdapter>> /\ Write(Plain("s"))
        BY <1>9, <2>2 DEF SendPacket, StepWaits, Stepping
      <3>2. Plain("s") \in Packet /\ Plain("s").op = "s"
        BY Packets DEF Plain
      <3>3. ~Waiting
        BY <3>1 DEF Waiting, ThreadAwaits, TaskAwaits, ExclusiveExchange, Exchanging
      <3>4. link = "up" => toAdapter = <<>> /\ \A i \in DOMAIN toStub : ~Asks(toStub[i])
        BY <3>3, NoneAsks, NobodyAnswered
      <3> QED
        BY <3>1, <3>2, <3>4, Written DEF StepWaits
    <2> QED
      BY <2>1, <2>2
  <1>10. CASE ExchangeFails
    <2>1. ~(Stepping' /\ pc' \in {"send", "await"})
      BY <1>10 DEF ExchangeFails, Stepping, StartUp, Exchanging
    <2> QED
      BY <2>1 DEF StepWaits, Stepping
  <1>11. CASE NegotiateReply
    <2>1. ~(Stepping' /\ pc' \in {"send", "await"})
      BY <1>11 DEF NegotiateReply, Stepping, StartUp
    <2> QED
      BY <2>1 DEF StepWaits, Stepping
  <1>12. CASE RequireHaltedFails
    <2>1. ~(Stepping' /\ pc' \in {"send", "await"})
      BY <1>12 DEF RequireHaltedFails, Stepping, StartUp, Guarded
    <2> QED
      BY <2>1 DEF StepWaits, Stepping
  <1>13. CASE HandleInspect
    <2>1. ~(Stepping' /\ pc' \in {"send", "await"})
      BY <1>13 DEF HandleInspect, Stepping, StartUp
    <2> QED
      BY <2>1 DEF StepWaits, Stepping
  <1>14. CASE InspectReply
    <2>1. ~(Stepping' /\ pc' \in {"send", "await"})
      BY <1>14 DEF InspectReply, Stepping, StartUp
    <2> QED
      BY <2>1 DEF StepWaits, Stepping
  <1>15. CASE HandleSetBreakpoints
    <2>1. ~(Stepping' /\ pc' \in {"send", "await"})
      BY <1>15 DEF HandleSetBreakpoints, Stepping, StartUp
    <2> QED
      BY <2>1 DEF StepWaits, Stepping
  <1>16. CASE ClearBreakpointReply
    <2>1. ~(Stepping' /\ pc' \in {"send", "await"})
      BY <1>16 DEF ClearBreakpointReply, Stepping, StartUp
    <2> QED
      BY <2>1 DEF StepWaits, Stepping
  <1>17. CASE SkipLine
    <2>1. ~(Stepping' /\ pc' \in {"send", "await"})
      BY <1>17 DEF SkipLine, Stepping, StartUp
    <2> QED
      BY <2>1 DEF StepWaits, Stepping
  <1>18. CASE TrySetBreakpoint
    <2>1. ~(Stepping' /\ pc' \in {"send", "await"})
      BY <1>18 DEF TrySetBreakpoint, Stepping, StartUp
    <2> QED
      BY <2>1 DEF StepWaits, Stepping
  <1>19. CASE SetBreakpointReply
    <2>1. ~(Stepping' /\ pc' \in {"send", "await"})
      BY <1>19 DEF SetBreakpointReply, Stepping, StartUp
    <2> QED
      BY <2>1 DEF StepWaits, Stepping
  <1>20. CASE SetBreakpointsDone
    <2>1. ~(Stepping' /\ pc' \in {"send", "await"})
      BY <1>20 DEF SetBreakpointsDone, Stepping, StartUp
    <2> QED
      BY <2>1 DEF StepWaits, Stepping
  <1>21. CASE HandleConfigurationDone
    <2>1. ~(Stepping' /\ pc' \in {"send", "await"})
      BY <1>21 DEF HandleConfigurationDone, Stepping, StartUp
    <2> QED
      BY <2>1 DEF StepWaits, Stepping
  <1>22. CASE HandleContinue
    <2>1. ~(Stepping' /\ pc' \in {"send", "await"})
      BY <1>22 DEF HandleContinue, Stepping, StartUp
    <2> QED
      BY <2>1 DEF StepWaits, Stepping
  <1>23. CASE StartResume
    <2>1. ~(Stepping' /\ pc' \in {"send", "await"})
      BY <1>23 DEF StartResume, Stepping, StartUp
    <2> QED
      BY <2>1 DEF StepWaits, Stepping
  <1>24. CASE HandleStep
    BY <1>24 DEF HandleStep, StepWaits, Stepping
  <1>25. CASE StepReply
    <2>1. ~(Stepping' /\ pc' \in {"send", "await"})
      BY <1>25 DEF StepReply, Stepping, StartUp
    <2> QED
      BY <2>1 DEF StepWaits, Stepping
  <1>26. CASE HandlePause
    <2>1. ~(Stepping' /\ pc' \in {"send", "await"})
      BY <1>26 DEF HandlePause, Stepping, StartUp
    <2> QED
      BY <2>1 DEF StepWaits, Stepping
  <1>27. CASE Interrupt
    <2>1. ~(Stepping' /\ pc' \in {"send", "await"})
      BY <1>27 DEF Interrupt, Stepping, StartUp
    <2> QED
      BY <2>1 DEF StepWaits, Stepping
  <1>28. CASE HandleDisconnect
    <2>1. ~(Stepping' /\ pc' \in {"send", "await"})
      BY <1>28 DEF HandleDisconnect, Stepping, StartUp
    <2> QED
      BY <2>1 DEF StepWaits, Stepping
  <1>29. CASE Leave
    <2>1. ~(Stepping' /\ pc' \in {"send", "await"})
      BY <1>29 DEF Leave, Stepping, StartUp
    <2> QED
      BY <2>1 DEF StepWaits, Stepping
  <1>30. CASE Kill
    <2>1. ~(Stepping' /\ pc' \in {"send", "await"})
      BY <1>30 DEF Kill, Stepping, StartUp
    <2> QED
      BY <2>1 DEF StepWaits, Stepping
  <1>31. CASE DetachReply
    <2>1. ~(Stepping' /\ pc' \in {"send", "await"})
      BY <1>31 DEF DetachReply, Stepping, StartUp
    <2> QED
      BY <2>1 DEF StepWaits, Stepping
  <1>32. CASE DetachFails
    <2>1. ~(Stepping' /\ pc' \in {"send", "await"})
      BY <1>32 DEF DetachFails, Stepping, StartUp
    <2> QED
      BY <2>1 DEF StepWaits, Stepping
  <1>33. CASE AnswerDisconnect
    <2>1. ~(Stepping' /\ pc' \in {"send", "await"})
      BY <1>33 DEF AnswerDisconnect, Stepping, StartUp
    <2> QED
      BY <2>1 DEF StepWaits, Stepping
  <1>34. CASE Cleanup
    <2>1. ~(Stepping' /\ pc' \in {"send", "await"})
      BY <1>34 DEF Cleanup, Stepping, StartUp
    <2> QED
      BY <2>1 DEF StepWaits, Stepping
  <1>35. CASE ReapSimulator
    <2>1. ~(Stepping' /\ pc' \in {"send", "await"})
      BY <1>35 DEF ReapSimulator, Stepping, StartUp
    <2> QED
      BY <2>1 DEF StepWaits, Stepping
  <1>36. CASE Boot
    BY <1>36 DEF Boot, StepWaits, Stepping
  <1>37. CASE StubSkips
    <2>1. Serving(Break) /\ UNCHANGED <<pc, req, script, link, toAdapter>>
      BY <1>37 DEF StubSkips
    <2> QED
      BY <2>1, ServedPackets DEF StepWaits, Stepping, Asks
  <1>38. CASE StubAnswers
    <2>1. PICK op : Serving(op) /\ op \notin {Break, "k", "s"}
      BY <1>38 DEF StubAnswers, Resume, Break
    <2>2. UNCHANGED <<pc, req, script, link>>
      BY <1>38 DEF StubAnswers
    <2>3. ~(link = "up" /\ Stepping /\ pc = "await")
      BY <2>1, HeadServed DEF StepWaits, Asks
    <2> QED
      BY <2>2, <2>3 DEF StepWaits, Stepping
  <1>39. CASE StubArms
    <2>1. PICK op : Serving(op) /\ op \notin {Break, "k", "s"}
      BY <1>39 DEF StubArms, Resume, Break
    <2>2. UNCHANGED <<pc, req, script, link>>
      BY <1>39 DEF StubArms
    <2>3. ~(link = "up" /\ Stepping /\ pc = "await")
      BY <2>1, HeadServed DEF StepWaits, Asks
    <2> QED
      BY <2>2, <2>3 DEF StepWaits, Stepping
  <1>40. CASE StubDisarms
    <2>1. PICK op : Serving(op) /\ op \notin {Break, "k", "s"}
      BY <1>40 DEF StubDisarms, Resume, Break
    <2>2. UNCHANGED <<pc, req, script, link>>
      BY <1>40 DEF StubDisarms
    <2>3. ~(link = "up" /\ Stepping /\ pc = "await")
      BY <2>1, HeadServed DEF StepWaits, Asks
    <2> QED
      BY <2>2, <2>3 DEF StepWaits, Stepping
  <1>41. CASE StubSteps
    <2>1. Serving("s") /\ UNCHANGED <<pc, req, script, link>>
      BY <1>41 DEF StubSteps
    <2>2. PICK reply \in Reply \ {"ok", "err"} : SendReply(reply)
      BY <1>41 DEF StubSteps, Reply
    <2> QED
      BY <2>1, <2>2, ServedPackets, EndReply DEF StepWaits, Stepping, Asks
  <1>42. CASE StubResumes
    <2>1. PICK op : Serving(op) /\ op \notin {Break, "k", "s"}
      BY <1>42 DEF StubResumes, Resume, Break
    <2>2. UNCHANGED <<pc, req, script, link>>
      BY <1>42 DEF StubResumes
    <2>3. ~(link = "up" /\ Stepping /\ pc = "await")
      BY <2>1, HeadServed DEF StepWaits, Asks
    <2> QED
      BY <2>2, <2>3 DEF StepWaits, Stepping
  <1>43. CASE StubDetaches
    <2>1. PICK op : Serving(op) /\ op \notin {Break, "k", "s"}
      BY <1>43 DEF StubDetaches, Resume, Break
    <2>2. UNCHANGED <<pc, req, script, link>>
      BY <1>43 DEF StubDetaches
    <2>3. ~(link = "up" /\ Stepping /\ pc = "await")
      BY <2>1, HeadServed DEF StepWaits, Asks
    <2> QED
      BY <2>2, <2>3 DEF StepWaits, Stepping
  <1>44. CASE StubRefuses
    <2>1. PICK op : Serving(op) /\ op \notin {Break, "k"}
      BY <1>44 DEF StubRefuses, Resume, Break
    <2>2. UNCHANGED <<pc, req, script, link>> /\ hart = "exited"
      BY <1>44 DEF StubRefuses
    <2>3. ~(link = "up" /\ Stepping /\ pc = "await")
      <3> SUFFICES ASSUME link = "up", Stepping, pc = "await" PROVE FALSE
        OBVIOUS
      <3>1. toAdapter = <<>>
        BY <2>1, HeadServed, NoneAnswered DEF Asks
      <3>2. told # "ended" /\ Awaited
        BY DEF OneInHand, Awaited
      <3> QED
        BY <2>2, <3>1, <3>2 DEF OneAtTarget
    <2> QED
      BY <2>2, <2>3 DEF StepWaits, Stepping
  <1>45. CASE StubInterrupted
    <2>1. Serving(Break) /\ UNCHANGED <<pc, req, script, link>>
      BY <1>45 DEF StubInterrupted
    <2>2. PICK reply \in Reply \ {"ok", "err"} : SendReply(reply)
      BY <1>45 DEF StubInterrupted, Reply
    <2> QED
      BY <2>1, <2>2, ServedPackets, EndReply DEF StepWaits, Stepping, Asks
  <1>46. CASE StubKilled
    BY <1>46 DEF StubKilled, Gone, StepWaits, Stepping
  <1>47. CASE HartStops
    <2>1. UNCHANGED <<pc, req, script, link, toStub>>
      BY <1>47 DEF HartStops
    <2>2. PICK reply \in Reply \ {"ok", "err"} : SendReply(reply)
      BY <1>47 DEF HartStops, Reply
    <2> QED
      BY <2>1, <2>2, EndReply DEF StepWaits, Stepping
  <1>48. CASE DrainEnds
    BY <1>48 DEF DrainEnds, Gone, StepWaits, Stepping
  <1>49. CASE SimulatorDies
    BY <1>49 DEF SimulatorDies, Gone, StepWaits, Stepping
  <1>50. CASE Finished
    BY <1>50 DEF Finished, StepWaits, Stepping, vars
  <1>51. ASSUME NEW t \in Task, TaskSend(t) PROVE StepWaits'
    <2>1. UNCHANGED <<pc, req>> /\ ~Stepping
      BY <1>51 DEF TaskSend, ExclusiveExchange, Exchanging, Stepping
    <2> QED
      BY <2>1 DEF StepWaits, Stepping
  <1>52. ASSUME NEW t \in Task, TaskStopped(t) PROVE StepWaits'
    <2>1. UNCHANGED <<pc, req>> /\ ~Stepping
      BY <1>52 DEF TaskStopped, ExclusiveExchange, Exchanging, Stepping
    <2> QED
      BY <2>1 DEF StepWaits, Stepping
  <1>53. ASSUME NEW t \in Task, TaskReport(t) PROVE StepWaits'
    BY <1>53 DEF TaskReport, StepWaits, Stepping
  <1>54. ASSUME NEW t \in Task, TaskExited(t) PROVE StepWaits'
    <2>1. UNCHANGED <<pc, req>> /\ ~Stepping
      BY <1>54 DEF TaskExited, ExclusiveExchange, Exchanging, Stepping
    <2> QED
      BY <2>1 DEF StepWaits, Stepping
  <1>55. ASSUME NEW t \in Task, TaskMarkExited(t) PROVE StepWaits'
    BY <1>55 DEF TaskMarkExited, StepWaits, Stepping
  <1>56. ASSUME NEW t \in Task, TaskLost(t) PROVE StepWaits'
    <2>1. UNCHANGED <<pc, req>> /\ ~Stepping
      BY <1>56 DEF TaskLost, ExclusiveExchange, Exchanging, Stepping
    <2> QED
      BY <2>1 DEF StepWaits, Stepping
  <1>57. ASSUME NEW t \in Task, TaskEnd(t) PROVE StepWaits'
    BY <1>57 DEF TaskEnd, StepWaits, Stepping
  <1> QED
    BY <1>1, <1>2, <1>3, <1>4, <1>5, <1>6, <1>7, <1>8, <1>9, <1>10, <1>11,
       <1>12, <1>13, <1>14, <1>15, <1>16, <1>17, <1>18, <1>19, <1>20, <1>21,
       <1>22, <1>23, <1>24, <1>25, <1>26, <1>27, <1>28, <1>29, <1>30, <1>31,
       <1>32, <1>33, <1>34, <1>35, <1>36, <1>37, <1>38, <1>39, <1>40, <1>41,
       <1>42, <1>43, <1>44, <1>45, <1>46, <1>47, <1>48, <1>49, <1>50, <1>51,
       <1>52, <1>53, <1>54, <1>55, <1>56, <1>57
       DEF Next, HandlerStep, TaskStep, StubStep


LEMMA InitAInv == Init => AInv
  BY InitRInv DEF Init, AInv, Answers, Unanswered, StepWaits, Stepping

LEMMA StepAInv == AInv /\ [Next]_vars => AInv'
  <1>1. ASSUME AInv, Next PROVE AInv'
    BY <1>1, StepRInv, AnswersPreserved, StepWaitsPreserved DEF AInv
  <1>2. ASSUME AInv, UNCHANGED vars PROVE AInv'
    <2>1. RInv'
      BY <1>2, StepRInv DEF AInv
    <2>2. Answers' /\ (StepWaits => StepWaits')
      BY <1>2 DEF AInv, Answers, Unanswered, StepWaits, Stepping, vars, thread, wire
    <2> QED
      BY <1>2, <2>1, <2>2 DEF AInv
  <1> QED
    BY <1>1, <1>2

(* Every handler that ends on a link that is up has sent one response:     *)
(* HandleStep answers before its exchange, so an error it met there would  *)
(* be a second one, and the stub never gives it cause.                     *)
THEOREM AnswersAreSingle == Spec => AnsweredOnce
  <1> DEFINE Single == Disciplined /\ pc # "read" /\ pc' = "read" /\ link' \in {"none", "up"}
                         => replies' = 1
  <1>1. ASSUME AInv, Next, Disciplined, pc # "read", pc' = "read", link' \in {"none", "up"}
        PROVE  replies' = 1
    <2> USE <1>1 DEF AInv, RInv, Answers, Unanswered, Stepping, CInv, IInv, TypeOK, ThreadType,
                    InHandler, Commands, SInv, StartUp, Respond, Tell, Caught, thread, wire, front
    <2>1. CASE StepReply
      <3>1. link = "up" /\ pc = "await" /\ Stepping
        BY <2>1 DEF StepReply, Received, LinkInv
      <3>2. Head(toAdapter) \notin {"ok", "err"}
        BY <2>1, <3>1 DEF StepReply, Received, StepWaits
      <3> QED
        BY <2>1, <3>1, <3>2 DEF StepReply, Received
    <2>2. CASE Interrupt \/ ExchangeFails \/ DetachFails
      BY <2>2 DEF Interrupt, ExchangeFails, LinkBroken, DetachFails
    <2>3. CASE HandleLocal \/ HandleLaunchFails \/ TryConnectTimesOut \/ NegotiateReply
      BY <2>3 DEF HandleLocal, HandleLaunchFails, TryConnectTimesOut, NegotiateReply
    <2>4. CASE RequireHaltedFails \/ HandleInspect \/ InspectReply
      BY <2>4 DEF RequireHaltedFails, Guarded, HandleInspect, InspectReply
    <2>5. CASE SetBreakpointsDone \/ HandleConfigurationDone \/ StartResume
      BY <2>5 DEF SetBreakpointsDone, HandleConfigurationDone, StartResume
    <2>6. CASE HandlerStep
      BY <2>1, <2>2, <2>3, <2>4, <2>5, <2>6
         DEF HandlerStep, HandleLaunch, HandleAttach, TryConnect, SendPacket,
             HandleSetBreakpoints, ClearBreakpointReply, SkipLine, TrySetBreakpoint,
             SetBreakpointReply, HandleContinue, HandleStep, HandlePause, HandleDisconnect,
             Leave, Kill, DetachReply, AnswerDisconnect, Cleanup, ReapSimulator
    <2>7. ~(ReadEndOfStream \/ HartStops \/ DrainEnds \/ SimulatorDies \/ Finished \/ StubStep)
      BY DEF ReadEndOfStream, HartStops, DrainEnds, SimulatorDies, Finished, vars, StubStep,
             Boot, StubSkips, StubAnswers, StubArms, StubDisarms, StubSteps, StubResumes,
             StubDetaches, StubRefuses, StubInterrupted, StubKilled
    <2>8. \A t \in Task : ~TaskStep(t)
      BY DEF TaskStep, TaskSend, TaskStopped, TaskReport, TaskExited, TaskMarkExited,
             TaskLost, TaskEnd
    <2>9. \A r \in Request : ~ReadMessage(r)
      BY DEF ReadMessage
    <2> QED
      BY <2>6, <2>7, <2>8, <2>9 DEF Next
  <1>2. AInv /\ [Next]_vars => [Single]_vars
    BY <1>1
  <1>3. Spec => []AInv
    BY InitAInv, StepAInv, PTL DEF Spec
  <1> QED
    BY <1>2, <1>3, PTL DEF Spec, AnsweredOnce
=============================================================================

---------------------------- MODULE DebugSession ----------------------------
(***************************************************************************)
(* Run control of the REBEL-6 debug adapter (Dap/DebugSession.cs): the     *)
(* request thread, the background resume tasks, the RSP link they share    *)
(* (Rsp/RspClient.cs), and the two parties outside src/ that the adapter   *)
(* talks to, the simulator's RSP stub and the DAP client.                  *)
(*                                                                         *)
(* One action is one atomic piece of a handler: what the thread does       *)
(* between two points where another thread, the stub or the client can     *)
(* observe it (a lock section, a write to the link, a blocking read, a     *)
(* message to the client).                                                 *)
(***************************************************************************)
EXTENDS Integers, Sequences, FiniteSets

CONSTANTS
  Task,         \* the background resume tasks that may be alive at once (bound)
  Address,      \* the instruction slots a requested line can resolve to
  NumTriggers,  \* execute triggers of the debug module (4)
  SystemReads,  \* exchanges a read of the system-register scope takes (10)
  Lines,        \* the lists of lines a setBreakpoints request may carry
  MaxUnread,    \* no pause is asked for with this much unread by the stub (bound)
  Disciplined   \* TRUE: the client resumes only a target it was told is stopped

Unmapped == "unmapped"   \* a requested line that resolves to no instruction
Unarmed  == "unarmed"    \* a comparator that is free

ASSUME ConstantsAssumption ==
  /\ Task # {} /\ Address # {}
  /\ NumTriggers \in Nat \ {0}
  /\ SystemReads \in Nat /\ MaxUnread \in Nat
  /\ Lines \subseteq Seq(Address \cup {Unmapped})
  /\ Disciplined \in BOOLEAN
  /\ Unmapped \notin Address /\ Unarmed \notin Address

-----------------------------------------------------------------------------
(* Packets of the remote serial protocol, by what the stub does with them. *)

Negotiation == <<"qSupported", "QStartNoAckMode", "?">>
Break  == "0x03"                      \* the raw byte Interrupt() writes
Resume == "c"
Plain(op)   == [op |-> op]
Arm(a)      == [op |-> "Z1", at |-> a]
Disarm(a)   == [op |-> "z1", at |-> a]

Packet ==
  {Plain(op) : op \in {"qSupported", "QStartNoAckMode", "?", "read",
                       "c", "s", "D", "k", "0x03"}}
    \cup {Arm(a) : a \in Address} \cup {Disarm(a) : a \in Address}

(* Replies: "ok"/"err" to a plain packet; "stop" (T05/S05), "int" (T02)    *)
(* and "exit" (W) to a resuming one.                                       *)
Reply == {"ok", "err", "stop", "int", "exit"}

(* DAP requests. "local" stands for the requests answered without state:   *)
(* initialize, threads, scopes, setExceptionBreakpoints, "format" and an   *)
(* unsupported command. "inspect" stands for stackTrace, variables,        *)
(* setVariable and evaluate, which differ in how many exchanges they make. *)
Request ==
  [cmd : {"launch", "attach"}, entry : BOOLEAN]
    \cup [cmd : {"local", "configurationDone", "continue", "step", "pause"}]
    \cup [cmd : {"inspect"}, reads : {0, 1, SystemReads}]
    \cup [cmd : {"setBreakpoints"}, lines : Lines]
    \cup [cmd : {"disconnect"}, terminate : {"default", "yes", "no"}]

-----------------------------------------------------------------------------
VARIABLES
  (* the adapter's fields *)
  rsp,          \* _rsp is not null
  launched, stopOnEntry, running, exited,
  armed,        \* _armedBreakpoints
  (* the request thread *)
  pc, req,
  script,       \* packets the handler still has to exchange, in order
  lines,        \* requested lines HandleSetBreakpoints has not resolved yet
  wasRunning,   \* HandleDisconnect's local copy of _running
  replies,      \* responses sent for req so far
  (* the background tasks *)
  task,
  (* the link *)
  link,         \* "none", "up", "eof" (the stub closed it), "closed" (disposed)
  toStub, toAdapter,
  (* the stub *)
  hart, triggers,
  (* the client *)
  client,       \* how far its start-up sequence is
  told          \* what it was last told about the target

adapter == <<rsp, launched, stopOnEntry, running, exited, armed>>
thread  == <<pc, req, script, lines, wasRunning, replies>>
wire    == <<link, toStub, toAdapter>>
stub    == <<hart, triggers>>
front   == <<client, told>>
vars    == <<adapter, thread, task, wire, stub, front>>

-----------------------------------------------------------------------------
(* Init: a stub to attach to may be listening already.                     *)

Init ==
  /\ rsp = FALSE /\ launched = FALSE /\ stopOnEntry = TRUE
  /\ running = FALSE /\ exited = FALSE /\ armed = <<>>
  /\ pc = "read" /\ req = [cmd |-> "local"] /\ script = <<>> /\ lines = <<>>
  /\ wasRunning = FALSE /\ replies = 1
  /\ task = [t \in Task |-> "idle"]
  /\ link = "none" /\ toStub = <<>> /\ toAdapter = <<>>
  /\ hart \in {"none", "halted"}
  /\ triggers = [i \in 1..NumTriggers |-> Unarmed]
  /\ client = "new" /\ told = "nothing"

-----------------------------------------------------------------------------
(* Messages to the client. *)

(* SendResponse. The first response decides what the client makes of its   *)
(* request; a second one to the same request is dropped by it.             *)
Respond(ok) ==
  /\ replies' = replies + 1
  /\ client' = IF client = "connecting" /\ replies = 0
               THEN IF ok THEN "configuring" ELSE "failed" ELSE client
  /\ told' = IF ~ok /\ replies = 0 /\ req.cmd = "step" /\ told = "running"
             THEN "stopped" ELSE told

(* A "stopped" or "terminated" event; the client ignores both once it has  *)
(* asked to disconnect.                                                    *)
Tell(news) == told' = IF told = "ended" THEN told ELSE news

(* HandleRequest's catch: any exception becomes a failure response.        *)
Caught == Respond(FALSE) /\ pc' = "read"

(* Mutant: RequireHalted does not look at _running.                        *)
Connected == rsp /\ ~exited

Halted == rsp /\ ~running /\ ~exited

-----------------------------------------------------------------------------
(* The request thread reads the next message. A launch or an attach comes  *)
(* once, before anything that needs the target; the rest in any order.     *)

MayAsk(r) ==
  CASE r.cmd = "launch" -> client = "new" /\ hart = "none"
    [] r.cmd = "attach" -> client = "new"
    [] r.cmd \in {"local", "disconnect"} -> client # "closed"
    [] r.cmd \in {"inspect", "setBreakpoints"} ->
         client \in {"configuring", "active"}
    [] r.cmd = "pause" ->
         client \in {"configuring", "active"} /\ Len(toStub) < MaxUnread
    [] r.cmd = "configurationDone" -> client = "configuring"
    [] r.cmd \in {"continue", "step"} ->
         client = "active" /\ (Disciplined => told = "stopped")

ReadMessage(r) ==
  /\ pc = "read" /\ MayAsk(r)
  /\ req' = r /\ replies' = 0 /\ pc' = r.cmd
  /\ lines' = IF r.cmd = "setBreakpoints" THEN r.lines ELSE <<>>
  /\ script' = <<>> /\ wasRunning' = FALSE
  /\ client' = CASE r.cmd \in {"launch", "attach"} -> "connecting"
                 [] r.cmd = "configurationDone" -> "active"
                 [] r.cmd = "disconnect" -> "closed"
                 [] OTHER -> client
  /\ told' = CASE r.cmd = "disconnect" -> "ended"
               [] r.cmd \in {"configurationDone", "continue", "step"}
                    /\ told \in {"nothing", "stopped"} -> "running"
               [] OTHER -> told
  /\ UNCHANGED <<adapter, task, wire, stub>>

(* The host closes the adapter's input.                                    *)
ReadEndOfStream ==
  /\ pc = "read" /\ client # "closed"
  /\ pc' = "cleanup" /\ client' = "closed" /\ told' = "ended"
  /\ UNCHANGED <<adapter, req, script, lines, wasRunning, replies, task, wire, stub>>

HandleLocal ==
  /\ pc = "local"
  /\ \E ok \in BOOLEAN : Respond(ok)
  /\ pc' = "read"
  /\ UNCHANGED <<adapter, req, script, lines, wasRunning, task, wire, stub>>

-----------------------------------------------------------------------------
(* launch, attach. *)

HandleLaunch ==
  /\ pc = "launch"
  /\ launched' = TRUE /\ stopOnEntry' = req.entry
  /\ hart' = "booting" /\ pc' = "connect"
  /\ UNCHANGED <<rsp, running, exited, armed, req, script, lines, wasRunning,
                 replies, task, wire, triggers, front>>

(* No "program" argument, or the simulator cannot be started.              *)
HandleLaunchFails ==
  /\ pc = "launch"
  /\ \E entry \in {stopOnEntry, req.entry} : stopOnEntry' = entry
  /\ Caught
  /\ UNCHANGED <<rsp, launched, running, exited, armed, req, script, lines,
                 wasRunning, task, wire, stub>>

HandleAttach ==
  /\ pc = "attach"
  /\ stopOnEntry' = req.entry /\ pc' = "connect"
  /\ UNCHANGED <<rsp, launched, running, exited, armed, req, script, lines,
                 wasRunning, replies, task, wire, stub, front>>

(* TryConnect: _rsp is assigned before the negotiation.                    *)
TryConnect ==
  /\ pc = "connect" /\ hart = "halted"
  /\ rsp' = TRUE /\ link' = "up"
  /\ script' = [i \in DOMAIN Negotiation |-> Plain(Negotiation[i])]
  /\ pc' = "send"
  /\ UNCHANGED <<launched, stopOnEntry, running, exited, armed, req, lines,
                 wasRunning, replies, task, toStub, toAdapter, stub, front>>

(* The deadline passes while the port refuses connections.                 *)
TryConnectTimesOut ==
  /\ pc = "connect" /\ Caught
  /\ UNCHANGED <<adapter, req, script, lines, wasRunning, task, wire, stub>>

-----------------------------------------------------------------------------
(* RspClient.Exchange on the request thread: SendPacket, then a blocking   *)
(* ReceivePacket. A write to a link the stub has closed may still succeed. *)

Write(p) ==
  /\ link \in {"up", "eof"}
  /\ toStub' = IF link = "up" THEN Append(toStub, p) ELSE toStub

SendPacket ==
  /\ pc = "send" /\ script # <<>>
  /\ Write(Head(script)) /\ script' = Tail(script) /\ pc' = "await"
  /\ UNCHANGED <<adapter, req, lines, wasRunning, replies, task, link,
                 toAdapter, stub, front>>

(* The blocking reads and the writes that can throw once the stub is gone. *)
Exchanging == pc \in {"send", "await", "arm", "awaitArm"}

(* Mutant: the end of the stream is not noticed.                           *)
NeverBroken == FALSE

LinkBroken == link = "eof" /\ toAdapter = <<>>

ExchangeFails ==
  /\ Exchanging /\ LinkBroken /\ req.cmd # "disconnect" /\ Caught
  /\ UNCHANGED <<adapter, req, script, lines, wasRunning, task, wire, stub>>

Received(reply) == toAdapter # <<>> /\ Head(toAdapter) = reply /\ toAdapter' = Tail(toAdapter)

More == script # <<>>

(* Negotiate, then LoadTasMap, whose file reads may throw.                 *)
NegotiateReply ==
  /\ pc = "await" /\ req.cmd \in {"launch", "attach"}
  /\ \E reply \in Reply : Received(reply)
  /\ \/ More /\ pc' = "send" /\ UNCHANGED <<replies, front>>
     \/ ~More /\ pc' = "read" /\ \E ok \in BOOLEAN : Respond(ok)
  /\ UNCHANGED <<adapter, req, script, lines, wasRunning, task, link, toStub, stub>>

(* RequireHalted: the three refusals.                                      *)
Guarded == {"inspect", "setBreakpoints", "step"}

(* Mutant: the refusal is sent, but the handler does not return.           *)
RefuseAndGoOn ==
  /\ pc \in Guarded /\ ~Halted /\ Respond(FALSE)
  /\ IF replies = 0 THEN UNCHANGED pc ELSE pc' = "read"
  /\ UNCHANGED <<adapter, req, script, lines, wasRunning, task, wire, stub>>

RequireHaltedFails ==
  /\ pc \in Guarded /\ ~Halted /\ Caught
  /\ UNCHANGED <<adapter, req, script, lines, wasRunning, task, wire, stub>>

(* HandleStackTrace, HandleVariables, HandleSetVariable, HandleEvaluate: a *)
(* request with no exchange is one for an unknown scope, name or value.    *)
HandleInspect ==
  /\ pc = "inspect" /\ Halted
  /\ IF req.reads = 0
     THEN pc' = "read" /\ (\E ok \in BOOLEAN : Respond(ok)) /\ UNCHANGED script
     ELSE /\ script' = [i \in 1..req.reads |-> Plain("read")] /\ pc' = "send"
          /\ UNCHANGED <<replies, front>>
  /\ UNCHANGED <<adapter, req, lines, wasRunning, task, wire, stub>>

InspectReply ==
  /\ pc = "await" /\ req.cmd = "inspect"
  /\ \/ \E reply \in Reply \ {"ok"} : Received(reply) /\ Caught
     \/ Received("ok") /\ More /\ pc' = "send" /\ UNCHANGED <<replies, front>>
     \/ Received("ok") /\ ~More /\ Respond(TRUE) /\ pc' = "read"
  /\ UNCHANGED <<adapter, req, script, lines, wasRunning, task, link, toStub, stub>>

-----------------------------------------------------------------------------
(* HandleSetBreakpoints: every armed breakpoint is cleared, whatever file  *)
(* it came from, then each line is resolved and armed in turn.             *)

HandleSetBreakpoints ==
  /\ pc = "setBreakpoints" /\ Halted
  /\ script' = [i \in DOMAIN armed |-> Disarm(armed[i])]
  /\ pc' = IF armed = <<>> THEN "arm" ELSE "send"
  /\ UNCHANGED <<adapter, req, lines, wasRunning, replies, task, wire, stub, front>>

(* Mutant: _armedBreakpoints.Clear() is missing.                           *)
ClearKeepsList ==
  /\ pc = "await" /\ req.cmd = "setBreakpoints"
  /\ \E reply \in Reply : Received(reply)
  /\ pc' = IF More THEN "send" ELSE "arm"
  /\ UNCHANGED <<adapter, req, script, lines, wasRunning, replies, task, link,
                 toStub, stub, front>>

ClearBreakpointReply ==
  /\ pc = "await" /\ req.cmd = "setBreakpoints"
  /\ \E reply \in Reply : Received(reply)
  /\ IF More THEN pc' = "send" /\ UNCHANGED armed
             ELSE pc' = "arm" /\ armed' = <<>>
  /\ UNCHANGED <<rsp, launched, stopOnEntry, running, exited, req, script, lines,
                 wasRunning, replies, task, link, toStub, stub, front>>

IsArmed(a) == \E i \in DOMAIN armed : armed[i] = a

(* A line without an instruction is unverified; one whose slot is already  *)
(* armed is verified without a second trigger.                             *)
SkipLine ==
  /\ pc = "arm" /\ lines # <<>>
  /\ Head(lines) = Unmapped \/ IsArmed(Head(lines))
  /\ lines' = Tail(lines)
  /\ UNCHANGED <<adapter, pc, req, script, wasRunning, replies, task, wire, stub, front>>

(* Mutant: the test for a line without an instruction is dropped.          *)
ArmAnyLine ==
  /\ pc = "arm" /\ lines # <<>> /\ ~IsArmed(Head(lines))
  /\ Write(Arm(Head(lines))) /\ pc' = "awaitArm"
  /\ UNCHANGED <<adapter, req, script, lines, wasRunning, replies, task, link,
                 toAdapter, stub, front>>

TrySetBreakpoint ==
  /\ pc = "arm" /\ lines # <<>>
  /\ Head(lines) # Unmapped /\ ~IsArmed(Head(lines))
  /\ Write(Arm(Head(lines))) /\ pc' = "awaitArm"
  /\ UNCHANGED <<adapter, req, script, lines, wasRunning, replies, task, link,
                 toAdapter, stub, front>>

SetBreakpointReply ==
  /\ pc = "awaitArm"
  /\ \E reply \in Reply :
       /\ Received(reply)
       /\ armed' = IF reply = "ok" THEN Append(armed, Head(lines)) ELSE armed
  /\ lines' = Tail(lines) /\ pc' = "arm"
  /\ UNCHANGED <<rsp, launched, stopOnEntry, running, exited, req, script,
                 wasRunning, replies, task, link, toStub, stub, front>>

SetBreakpointsDone ==
  /\ pc = "arm" /\ lines = <<>>
  /\ Respond(TRUE) /\ pc' = "read"
  /\ UNCHANGED <<adapter, req, script, lines, wasRunning, task, wire, stub>>

-----------------------------------------------------------------------------
(* configurationDone, continue, next/stepIn/stepOut, pause. *)

(* Mutant: after the stop on entry was reported the target is resumed.     *)
StopThenResume ==
  /\ pc = "configurationDone" /\ replies' = replies + 1
  /\ pc' = "resume" /\ IF stopOnEntry THEN Tell("stopped") ELSE UNCHANGED told
  /\ UNCHANGED <<adapter, req, script, lines, wasRunning, task, wire, stub, client>>

HandleConfigurationDone ==
  /\ pc = "configurationDone" /\ replies' = replies + 1
  /\ IF stopOnEntry THEN pc' = "read" /\ Tell("stopped")
                    ELSE pc' = "resume" /\ UNCHANGED told
  /\ UNCHANGED <<adapter, req, script, lines, wasRunning, task, wire, stub, client>>

HandleContinue ==
  /\ pc = "continue" /\ Respond(TRUE) /\ pc' = "resume"
  /\ UNCHANGED <<adapter, req, script, lines, wasRunning, task, wire, stub>>

(* StartResume's lock section. Task.Run only queues the task: the packet   *)
(* that resumes the target is written later, by the task.                  *)
StartResume ==
  /\ pc = "resume" /\ pc' = "read"
  /\ IF Halted
     THEN \E t \in Task : /\ task[t] = "idle"
                          /\ task' = [task EXCEPT ![t] = "send"]
                          /\ running' = TRUE
     ELSE UNCHANGED <<running, task>>
  /\ UNCHANGED <<rsp, launched, stopOnEntry, exited, armed, req, script, lines,
                 wasRunning, replies, wire, stub, front>>

HandleStep ==
  /\ pc = "step" /\ Halted
  /\ Respond(TRUE)
  /\ script' = <<Plain("s")>> /\ pc' = "send"
  /\ UNCHANGED <<adapter, req, lines, wasRunning, task, wire, stub>>

(* HandleStopReply on the request thread.                                  *)
StepReply ==
  /\ pc = "await" /\ req.cmd = "step"
  /\ \/ /\ \E reply \in {"stop", "int"} : Received(reply)
        /\ Tell("stopped") /\ running' = FALSE /\ pc' = "read"
        /\ UNCHANGED <<exited, replies, client>>
     \/ /\ Received("exit")
        /\ Tell("ended") /\ running' = FALSE /\ exited' = TRUE /\ pc' = "read"
        /\ UNCHANGED <<replies, client>>
     \/ /\ \E reply \in {"ok", "err"} : Received(reply)
        /\ Caught /\ UNCHANGED <<running, exited>>
  /\ UNCHANGED <<rsp, launched, stopOnEntry, armed, req, script, lines,
                 wasRunning, task, link, toStub, stub>>

HandlePause ==
  /\ pc = "pause" /\ Respond(TRUE) /\ pc' = "interrupt"
  /\ UNCHANGED <<adapter, req, script, lines, wasRunning, task, wire, stub>>

(* Mutant: the break byte is sent only to a target held to be halted.      *)
InterruptIfHalted ==
  /\ pc = "interrupt"
  /\ \/ (~rsp \/ running) /\ pc' = "read" /\ UNCHANGED <<toStub, replies, front>>
     \/ rsp /\ ~running /\ Write(Plain(Break)) /\ pc' = "read"
          /\ UNCHANGED <<replies, front>>
     \/ rsp /\ link = "eof" /\ Caught /\ UNCHANGED toStub
  /\ UNCHANGED <<adapter, req, script, lines, wasRunning, task, link,
                 toAdapter, stub>>

(* _rsp?.Interrupt(): one byte, whatever the state of the target.          *)
Interrupt ==
  /\ pc = "interrupt"
  /\ \/ ~rsp /\ pc' = "read" /\ UNCHANGED <<toStub, replies, front>>
     \/ rsp /\ Write(Plain(Break)) /\ pc' = "read" /\ UNCHANGED <<replies, front>>
     \/ rsp /\ link = "eof" /\ Caught /\ UNCHANGED toStub
  /\ UNCHANGED <<adapter, req, script, lines, wasRunning, task, link,
                 toAdapter, stub>>

-----------------------------------------------------------------------------
(* HandleDisconnect and the end of Run. *)

(* Mutant: the local copy of _running is not taken.                        *)
DisconnectAsIfHalted ==
  /\ pc = "disconnect"
  /\ wasRunning' = FALSE /\ pc' = "leave"
  /\ UNCHANGED <<adapter, req, script, lines, replies, task, wire, stub, front>>

HandleDisconnect ==
  /\ pc = "disconnect"
  /\ wasRunning' = running /\ pc' = "leave"
  /\ UNCHANGED <<adapter, req, script, lines, replies, task, wire, stub, front>>

Terminate == IF req.terminate = "default" THEN launched ELSE req.terminate = "yes"

Leave ==
  /\ pc = "leave"
  /\ \/ /\ ~rsp \/ exited \/ (~Terminate /\ wasRunning)
        /\ pc' = "answer" /\ UNCHANGED script
     \/ /\ rsp /\ ~exited /\ Terminate
        /\ pc' = IF wasRunning THEN "interruptKill" ELSE "kill"
        /\ UNCHANGED script
     \/ /\ rsp /\ ~exited /\ ~Terminate /\ ~wasRunning
        /\ script' = <<Plain("D")>> /\ pc' = "send"
  /\ UNCHANGED <<adapter, req, lines, wasRunning, replies, task, wire, stub, front>>

(* Interrupt and Kill; either write throws if the stub is gone.            *)
Kill ==
  /\ \/ pc = "interruptKill" /\ Write(Plain(Break)) /\ pc' = "kill"
     \/ pc = "kill" /\ Write(Plain("k")) /\ pc' = "answer"
     \/ pc \in {"interruptKill", "kill"} /\ link = "eof" /\ pc' = "answer"
          /\ UNCHANGED toStub
  /\ UNCHANGED <<adapter, req, script, lines, wasRunning, replies, task, link,
                 toAdapter, stub, front>>

DetachReply ==
  /\ pc = "await" /\ req.cmd = "disconnect"
  /\ \E reply \in Reply : Received(reply)
  /\ pc' = "answer"
  /\ UNCHANGED <<adapter, req, script, lines, wasRunning, replies, task, link,
                 toStub, stub, front>>

DetachFails ==
  /\ pc \in {"send", "await"} /\ req.cmd = "disconnect" /\ LinkBroken
  /\ pc' = "answer"
  /\ UNCHANGED <<adapter, req, script, lines, wasRunning, replies, task, wire, stub, front>>

AnswerDisconnect ==
  /\ pc = "answer" /\ Respond(TRUE) /\ pc' = "cleanup"
  /\ UNCHANGED <<adapter, req, script, lines, wasRunning, task, wire, stub>>

(* Mutant: the simulator is not waited for.                                *)
CleanupLinkOnly ==
  /\ pc = "cleanup"
  /\ link' = IF rsp THEN "closed" ELSE link
  /\ toAdapter' = <<>> /\ pc' = "done"
  /\ UNCHANGED <<adapter, req, script, lines, wasRunning, replies, task, toStub,
                 stub, front>>

(* Cleanup: dispose the link, then wait for a launched simulator to exit   *)
(* and kill it if it does not.                                             *)
Cleanup ==
  /\ pc = "cleanup"
  /\ link' = IF rsp THEN "closed" ELSE link
  /\ toAdapter' = <<>>
  /\ pc' = IF launched THEN "reap" ELSE "done"
  /\ UNCHANGED <<adapter, req, script, lines, wasRunning, replies, task, toStub,
                 stub, front>>

ReapSimulator ==
  /\ pc = "reap" /\ hart' = "gone" /\ toStub' = <<>> /\ pc' = "done"
  /\ UNCHANGED <<adapter, req, script, lines, wasRunning, replies, task, link,
                 toAdapter, triggers, front>>

-----------------------------------------------------------------------------
(* The background resume task. It dies with the process, when Run returns. *)

(* Mutant: the resume packet is written twice.                             *)
SendTwice(t) ==
  /\ task[t] = "send" /\ pc # "done" /\ link \in {"up", "eof"}
  /\ toStub' = IF link = "up" THEN toStub \o <<Plain(Resume), Plain(Resume)>> ELSE toStub
  /\ task' = [task EXCEPT ![t] = "await"]
  /\ UNCHANGED <<adapter, thread, link, toAdapter, stub, front>>

TaskSend(t) ==
  /\ task[t] = "send" /\ pc # "done"
  /\ Write(Plain(Resume)) /\ task' = [task EXCEPT ![t] = "await"]
  /\ UNCHANGED <<adapter, thread, link, toAdapter, stub, front>>

(* Mutant: the event is sent without clearing _running.                    *)
StoppedStillRunning(t) ==
  /\ task[t] = "await" /\ pc # "done"
  /\ \E reply \in {"stop", "int"} : Received(reply)
  /\ task' = [task EXCEPT ![t] = "report"]
  /\ UNCHANGED <<adapter, thread, link, toStub, stub, front>>

(* Mutant: _running is cleared, but no event is sent.                      *)
StoppedSilently(t) ==
  /\ task[t] = "await" /\ pc # "done"
  /\ \E reply \in {"stop", "int"} : Received(reply)
  /\ running' = FALSE /\ task' = [task EXCEPT ![t] = "idle"]
  /\ UNCHANGED <<rsp, launched, stopOnEntry, exited, armed, thread, link, toStub, stub, front>>

(* HandleStopReply for S/T: the lock section, then the event.              *)
TaskStopped(t) ==
  /\ task[t] = "await" /\ pc # "done"
  /\ \E reply \in {"stop", "int"} : Received(reply)
  /\ running' = FALSE /\ task' = [task EXCEPT ![t] = "report"]
  /\ UNCHANGED <<rsp, launched, stopOnEntry, exited, armed, thread, link, toStub, stub, front>>

TaskReport(t) ==
  /\ task[t] = "report" /\ pc # "done"
  /\ Tell("stopped") /\ task' = [task EXCEPT ![t] = "idle"]
  /\ UNCHANGED <<adapter, thread, wire, stub, client>>

(* HandleStopReply for W: two lock sections, then the events.              *)
TaskExited(t) ==
  /\ task[t] = "await" /\ pc # "done"
  /\ Received("exit")
  /\ running' = FALSE /\ task' = [task EXCEPT ![t] = "exiting"]
  /\ UNCHANGED <<rsp, launched, stopOnEntry, exited, armed, thread, link, toStub, stub, front>>

TaskMarkExited(t) ==
  /\ task[t] = "exiting" /\ pc # "done"
  /\ exited' = TRUE /\ task' = [task EXCEPT ![t] = "ending"]
  /\ UNCHANGED <<rsp, launched, stopOnEntry, running, armed, thread, wire, stub, front>>

(* Mutant: the catch of the resume task does not send "terminated".        *)
LostSilently(t) ==
  /\ task[t] \in {"send", "await"} /\ pc # "done"
  /\ \/ (LinkBroken \/ link = "closed") /\ UNCHANGED toAdapter
     \/ task[t] = "await" /\ \E reply \in {"ok", "err"} : Received(reply)
  /\ running' = FALSE /\ exited' = TRUE /\ task' = [task EXCEPT ![t] = "idle"]
  /\ UNCHANGED <<rsp, launched, stopOnEntry, armed, thread, link, toStub, stub, front>>

(* StartResume's catch: the link is gone, or the reply is no stop reply.   *)
TaskLost(t) ==
  /\ task[t] \in {"send", "await"} /\ pc # "done"
  /\ \/ (LinkBroken \/ link = "closed") /\ UNCHANGED toAdapter
     \/ task[t] = "await" /\ \E reply \in {"ok", "err"} : Received(reply)
  /\ running' = FALSE /\ exited' = TRUE /\ task' = [task EXCEPT ![t] = "ending"]
  /\ UNCHANGED <<rsp, launched, stopOnEntry, armed, thread, link, toStub, stub, front>>

TaskEnd(t) ==
  /\ task[t] = "ending" /\ pc # "done"
  /\ Tell("ended") /\ task' = [task EXCEPT ![t] = "idle"]
  /\ UNCHANGED <<adapter, thread, wire, stub, client>>

-----------------------------------------------------------------------------
(* The stub: packets are served in order while the hart is halted; while   *)
(* it runs only the break byte is looked for, at the head of the stream.   *)

Serving(op) == /\ toStub # <<>> /\ Head(toStub).op = op /\ toStub' = Tail(toStub)
               /\ link \in {"up", "closed"}

SendReply(reply) ==
  toAdapter' = IF link = "up" THEN Append(toAdapter, reply) ELSE toAdapter

Boot ==
  /\ hart = "booting" /\ hart' = "halted"
  /\ UNCHANGED <<adapter, thread, task, wire, triggers, front>>

(* Stray bytes between packets are skipped.                                *)
StubSkips ==
  /\ hart \in {"halted", "exited"} /\ Serving(Break)
  /\ UNCHANGED <<adapter, thread, task, link, toAdapter, stub, front>>

StubAnswers ==
  /\ hart \in {"halted", "exited"}
  /\ \E op \in {"qSupported", "QStartNoAckMode", "?", "read"} : Serving(op)
  /\ \E reply \in {"ok", "err"} : SendReply(reply)
  /\ UNCHANGED <<adapter, thread, task, link, stub, front>>

Free == {i \in DOMAIN triggers : triggers[i] = Unarmed}

(* Z1 takes the first free comparator, z1 frees the one that holds the     *)
(* address.                                                                *)
StubArms ==
  /\ hart = "halted" /\ Serving("Z1")
  /\ IF Free = {} THEN SendReply("err") /\ UNCHANGED triggers
     ELSE /\ SendReply("ok")
          /\ \E i \in Free : /\ \A j \in Free : i <= j
                             /\ triggers' = [triggers EXCEPT ![i] = Head(toStub).at]
  /\ UNCHANGED <<adapter, thread, task, link, hart, front>>

StubDisarms ==
  /\ hart = "halted" /\ Serving("z1")
  /\ SendReply("ok")
  /\ triggers' = [i \in DOMAIN triggers |->
       IF triggers[i] = Head(toStub).at THEN Unarmed ELSE triggers[i]]
  /\ UNCHANGED <<adapter, thread, task, link, hart, front>>

(* s retires one instruction: it halts again or the program exits.         *)
StubSteps ==
  /\ hart = "halted" /\ Serving("s")
  /\ \/ SendReply("stop") /\ UNCHANGED hart
     \/ SendReply("exit") /\ hart' = "exited"
  /\ UNCHANGED <<adapter, thread, task, link, triggers, front>>

StubResumes ==
  /\ hart = "halted" /\ Serving(Resume) /\ hart' = "running"
  /\ UNCHANGED <<adapter, thread, task, link, toAdapter, triggers, front>>

(* D runs the program to completion and is acknowledged afterwards.        *)
StubDetaches ==
  /\ hart = "halted" /\ Serving("D") /\ hart' = "draining"
  /\ UNCHANGED <<adapter, thread, task, link, toAdapter, triggers, front>>

(* After W nothing can run: a packet that would run or arm is refused.     *)
StubRefuses ==
  /\ hart = "exited"
  /\ \E op \in {"Z1", "z1", "s", "D", Resume} : Serving(op)
  /\ SendReply("err")
  /\ UNCHANGED <<adapter, thread, task, link, stub, front>>

StubInterrupted ==
  /\ hart = "running" /\ Serving(Break)
  /\ SendReply("int") /\ hart' = "halted"
  /\ UNCHANGED <<adapter, thread, task, link, triggers, front>>

(* A trigger or an EBREAK halts the hart, or the program exits.            *)
HartStops ==
  /\ hart = "running"
  /\ \/ SendReply("stop") /\ hart' = "halted"
     \/ SendReply("exit") /\ hart' = "exited"
  /\ UNCHANGED <<adapter, thread, task, link, toStub, triggers, front>>

Gone ==
  /\ hart' = "gone" /\ toStub' = <<>>
  /\ link' = IF link = "up" THEN "eof" ELSE link

StubKilled ==
  /\ hart \in {"halted", "exited"} /\ toStub # <<>> /\ Head(toStub).op = "k"
  /\ Gone
  /\ UNCHANGED <<adapter, thread, task, toAdapter, triggers, front>>

DrainEnds ==
  /\ hart = "draining" /\ SendReply("ok") /\ Gone
  /\ UNCHANGED <<adapter, thread, task, triggers, front>>

(* The simulator crashes or is closed from outside.                        *)
SimulatorDies ==
  /\ hart \notin {"none", "gone"} /\ Gone
  /\ UNCHANGED <<adapter, thread, task, toAdapter, triggers, front>>

-----------------------------------------------------------------------------
(* The session is over and the adapter's process has ended.                *)
Finished == pc = "done" /\ UNCHANGED vars

HandlerStep ==
  \/ HandleLocal \/ HandleLaunch \/ HandleLaunchFails \/ HandleAttach
  \/ TryConnect \/ TryConnectTimesOut \/ SendPacket \/ ExchangeFails
  \/ NegotiateReply \/ RequireHaltedFails \/ HandleInspect \/ InspectReply
  \/ HandleSetBreakpoints \/ ClearBreakpointReply \/ SkipLine
  \/ TrySetBreakpoint \/ SetBreakpointReply \/ SetBreakpointsDone
  \/ HandleConfigurationDone \/ HandleContinue \/ StartResume \/ HandleStep
  \/ StepReply \/ HandlePause \/ Interrupt \/ HandleDisconnect \/ Leave \/ Kill
  \/ DetachReply \/ DetachFails \/ AnswerDisconnect \/ Cleanup \/ ReapSimulator

TaskStep(t) ==
  \/ TaskSend(t) \/ TaskStopped(t) \/ TaskReport(t) \/ TaskExited(t)
  \/ TaskMarkExited(t) \/ TaskLost(t) \/ TaskEnd(t)

StubStep ==
  \/ Boot \/ StubSkips \/ StubAnswers \/ StubArms \/ StubDisarms \/ StubSteps
  \/ StubResumes \/ StubDetaches \/ StubRefuses \/ StubInterrupted \/ StubKilled

Next ==
  \/ \E r \in Request : ReadMessage(r)
  \/ ReadEndOfStream \/ HandlerStep
  \/ \E t \in Task : TaskStep(t)
  \/ StubStep \/ HartStops \/ DrainEnds \/ SimulatorDies
  \/ Finished

Spec == Init /\ [][Next]_vars

(* Fairness: an enabled thread runs (the .NET scheduler), and the stub     *)
(* serves what it reads. A program need not stop by itself, a client need  *)
(* not ask for anything, and a simulator need not die.                     *)
FairSpec ==
  /\ Spec
  /\ WF_vars(HandlerStep) /\ WF_vars(StubStep)
  /\ \A t \in Task : WF_vars(TaskStep(t))

-----------------------------------------------------------------------------
(* Properties. *)

ThreadAwaits == pc \in {"await", "awaitArm"}
TaskAwaits(t) == task[t] = "await"

ControlPoint ==
  {"read", "local", "launch", "attach", "connect", "send", "await", "inspect",
   "setBreakpoints", "arm", "awaitArm", "configurationDone", "continue",
   "resume", "step", "pause", "interrupt", "disconnect", "leave",
   "interruptKill", "kill", "answer", "cleanup", "reap", "done"}

AdapterType ==
  /\ rsp \in BOOLEAN /\ launched \in BOOLEAN /\ stopOnEntry \in BOOLEAN
  /\ running \in BOOLEAN /\ exited \in BOOLEAN /\ armed \in Seq(Address)

ThreadType ==
  /\ pc \in ControlPoint /\ req \in Request /\ script \in Seq(Packet)
  /\ lines \in Seq(Address \cup {Unmapped})
  /\ wasRunning \in BOOLEAN /\ replies \in Nat

TaskType ==
  task \in [Task -> {"idle", "send", "await", "report", "exiting", "ending"}]

WireType ==
  /\ link \in {"none", "up", "eof", "closed"}
  /\ toStub \in Seq(Packet) /\ toAdapter \in Seq(Reply)

StubType ==
  /\ hart \in {"none", "booting", "halted", "running", "draining", "exited", "gone"}
  /\ triggers \in [1..NumTriggers -> Address \cup {Unarmed}]

FrontType ==
  /\ client \in {"new", "connecting", "failed", "configuring", "active", "closed"}
  /\ told \in {"nothing", "running", "stopped", "ended"}

(* Every variable stays within its declared range: the control points of   *)
(* HandleRequest and of the resume task, and the packets of RspClient.     *)
TypeOK ==
  AdapterType /\ ThreadType /\ TaskType /\ WireType /\ StubType /\ FrontType

(* The RSP stream has no request ids: a reply belongs to whoever reads it  *)
(* next. So no two threads may be inside RspClient.Exchange at once, which *)
(* DebugSession ensures only through _running and RequireHalted.           *)
ExclusiveExchange ==
  /\ \A t, u \in Task :
       task[t] \in {"send", "await"} /\ task[u] \in {"send", "await"} => t = u
  /\ Exchanging => \A t \in Task : task[t] \notin {"send", "await"}

(* What is owed on the link: requests the stub has not read, the run it is *)
(* in the middle of, replies the adapter has not read.                     *)
Requests(s) == {i \in DOMAIN s : s[i].op \notin {Break, "k"}}
Owed == Cardinality(Requests(toStub)) + Len(toAdapter)
          + (IF hart \in {"running", "draining"} THEN 1 ELSE 0)

(* While the link is up exactly one answer is owed to a reader that waits, *)
(* and none otherwise: no reader takes another's reply, none waits for a   *)
(* reply that was consumed, and no reply is left over for a later one.     *)
NoCrossTalk ==
  link = "up" => Owed = (IF ThreadAwaits \/ \E t \in Task : TaskAwaits(t) THEN 1 ELSE 0)

(* Outside HandleSetBreakpoints the breakpoints the adapter believes armed *)
(* are exactly the comparators the stub holds, one each: those it called   *)
(* verified will hit, and none it dropped still does.                      *)
ChangingBreakpoints == req.cmd = "setBreakpoints" /\ Exchanging
TriggersMatch ==
  link = "up" /\ hart \in {"halted", "running"} /\ ~ChangingBreakpoints =>
    /\ \A i \in DOMAIN armed : \E j \in DOMAIN triggers : triggers[j] = armed[i]
    /\ Cardinality(DOMAIN triggers \ Free) = Len(armed)

(* A client that was last told "stopped" sees a target that is not running *)
(* and that nothing is about to resume: HandleContinue and HandleStep      *)
(* answer before they resume, HandleStopReply tells after it halted.       *)
ResumeSent == \E i \in DOMAIN toStub : toStub[i].op \in {Resume, "s"}
StoppedMeansHalted ==
  Disciplined /\ told = "stopped" =>
    /\ hart \notin {"running", "draining", "exited"}
    /\ ~ResumeSent /\ ~running /\ ~exited

(* "continue" is acknowledged before StartResume decides: whenever it was  *)
(* acknowledged to a disciplined client, StartResume does resume.          *)
ContinueResumes ==
  [][Disciplined /\ pc = "resume" /\ pc' = "read" =>
       \E t \in Task : task[t] = "idle" /\ task'[t] = "send"]_vars

(* Every request is answered exactly once as long as the link is up,       *)
(* although HandleStep and "pause" answer before they use the link and an  *)
(* exception answers again.                                                *)
AnsweredOnce ==
  [][Disciplined /\ pc # "read" /\ pc' = "read" /\ link' \in {"none", "up"}
       => replies' = 1]_vars

(* Every request is answered in the end: no handler waits for ever, unless *)
(* a detach waits for the program to run to completion.                    *)
RequestAnswered == pc # "read" ~> pc \in {"read", "done"} \/ hart = "draining"

(* A halt is reported: when a client believes the target runs and it does  *)
(* not, then it is told so or the target is resumed.                       *)
StopReported ==
  told = "running" /\ hart # "running" ~> told # "running" \/ hart \in {"running", "gone"}

(* A simulator that dies while a resume task waits for it is reported: the *)
(* client does not go on believing that the target runs.                   *)
LossReported ==
  (\E t \in Task : task[t] # "idle") /\ hart = "gone" ~> told # "running"

(* A simulator the adapter launched never outlives the session, unless it  *)
(* was told to finish the program on its own first.                        *)
SimulatorReaped == launched /\ client = "closed" ~> hart \in {"gone", "draining"}

(* An acknowledged pause of a target the adapter holds to be running halts *)
(* it: RspClient.Interrupt "Injects the RSP break byte; the blocked        *)
(* Continue() returns with signal 2 once the stub's interrupt poll picks   *)
(* it up."                                                                 *)
PauseHalts ==
  pc = "interrupt" /\ running ~> ~running \/ client = "closed" \/ hart = "gone"

(* The same once the stub has read the resume packet.                      *)
PauseHaltsHart == pc = "interrupt" /\ hart = "running" ~> hart # "running"

-----------------------------------------------------------------------------
(* Refinement of RunControl. *)

Target == CASE hart \in {"none", "booting"} -> "off"
            [] hart = "halted" -> "halted"
            [] hart \in {"running", "draining"} -> "running"
            [] hart \in {"exited", "gone"} -> "over"

(* A run was asked for and the stub has not been made to begin it.         *)
RunPending ==
  /\ told = "running"
  /\ \/ pc \in {"configurationDone", "continue", "resume", "step"}
     \/ pc = "send" /\ req.cmd = "step"
     \/ \E t \in Task : task[t] = "send"
     \/ ResumeSent

Promise == INSTANCE RunControl WITH target <- Target, permit <- RunPending

(* The adapter keeps the promise of RunControl to a disciplined client: no *)
(* interleaving of the request thread, the tasks and the stub makes the    *)
(* target run twice for one request or behind the back of the client.      *)
KeepsPromise == Promise!Spec
=============================================================================

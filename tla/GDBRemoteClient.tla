--------------------------- MODULE GDBRemoteClient ---------------------------
(***************************************************************************)
(* lldb's GDBRemoteClientBase                                               *)
(* (lldb/source/Plugins/Process/gdb-remote/GDBRemoteClientBase.cpp): one    *)
(* connection to a gdb-remote stub, shared by the thread that resumes the   *)
(* process and waits for it to stop, the continue thread, and by any number *)
(* of threads that interrupt it to use the connection: to send a packet, to *)
(* halt the process or to send it a signal.                                 *)
(*                                                                          *)
(* What is done under m_mutex is one step, except in ShouldStop(), which    *)
(* reads a packet while it holds the mutex.  The stub and the connection    *)
(* are external: two queues of packets and a process that runs or not.      *)
(***************************************************************************)
EXTENDS Naturals, Sequences, FiniteSets

CONSTANTS Async,        (* the threads that use Lock                         *)
          Cont,         (* the thread that uses ContinueLock                 *)
          Signals,      (* the signals that can be sent, each standing for   *)
                        (* the packet "C.." that resumes with it             *)
          Requests,     (* what the former do: "packet" with send_async,     *)
                        (* "polite" without, "halt", and signals             *)
          Repeat,       (* whether they do it again                          *)
          ExtraReplies, (* stop replies beyond the first: "double" for a ^C, *)
                        (* "late" for a ^C that finds the process stopped    *)
          Timeouts,     (* whether a read's five seconds may end             *)
          Unplugged,    (* whether the connection may be lost                *)
          MaxReplies,   (* bound on the queue from the stub, and ...         *)
          MaxOutput     (* ... when it has console packets to write          *)

ASSUME ThreadAssumption == IsFiniteSet(Async) /\ Cont \notin Async
ASSUME RequestAssumption ==
         /\ Requests \subseteq {"packet", "polite", "halt"} \cup Signals
         /\ Signals \cap {"packet", "polite", "halt", "none", "ctrl_c", "c",
                           "payload"} = {}
ASSUME StubAssumption == /\ ExtraReplies \subseteq {"double", "late"}
                         /\ Timeouts \in BOOLEAN /\ Unplugged \in BOOLEAN
                         /\ Repeat \in BOOLEAN
                         /\ MaxReplies \in Nat /\ MaxOutput \in Nat

VARIABLES asyncCount, isRunning, shouldStop, continuePacket,
          waiting,        (* the threads blocked on m_cv                     *)
          verdict,        (* the stop reply read, then what the call returns *)
          request, didInterrupt,
          connected, stub, toStub, fromStub,
          pc,
          asked,          (* history: what was asked of the interrupted call *)
          missed          (* history: what the reads came too early for      *)

shared  == <<asyncCount, isRunning, shouldStop, continuePacket, waiting>>
link    == <<connected, stub, toStub, fromStub>>
senders == <<request, didInterrupt>>
history == <<asked, missed>>
vars    == <<shared, verdict, senders, link, pc, history>>

Results == {"stopped", "exited", "invalid"}
Resumes == {"payload", "c"} \cup Signals
Calling == {"idle", "start", "read", "stop", "extra", "unlock", "notifyAll",
            "resume"}
Sending == {"idle", "interrupted", "acquire", "use", "reply", "release",
            "notify", "done"}
Replies == {"T_own", "T_int", "O", "W", "answer"}

Nothing == [halt |-> FALSE, signal |-> "none"]

Goto(t, from, to) == pc[t] = from /\ pc' = [pc EXCEPT ![t] = to]

(* m_mutex is held across steps in ShouldStop() only. *)
MutexFree == pc[Cont] # "extra"

(* Owners of a Lock hold the connection; one at a time has the async mutex.  *)
Owners == {t \in Async : pc[t] \in {"acquire", "use", "reply", "release"}}
AsyncMutexFree ==
  \A t \in Async : pc[t] \notin {"use", "reply", "release", "notify"}

Init == /\ asyncCount = 0 /\ isRunning = FALSE /\ shouldStop = FALSE
        /\ continuePacket = "payload" /\ waiting = {}
        /\ verdict = "stopped"
        /\ request = [t \in Async |-> "none"]
        /\ didInterrupt = [t \in Async |-> FALSE]
        /\ connected = TRUE /\ stub = "stopped"
        /\ toStub = <<>> /\ fromStub = <<>>
        /\ pc = [t \in Async \cup {Cont} |-> "idle"]
        /\ asked = Nothing /\ missed = {}

-----------------------------------------------------------------------------
(* Seeded faults: each is a slip of the step it is named after, kept to see  *)
(* that the properties at the end notice it.                                 *)

ShouldStop_Skewed ==
  /\ Goto(Cont, "stop", "unlock")
  /\ verdict' = IF asyncCount = 0 \/ verdict = "T_own" THEN "stopped"
                ELSE "resume"
  /\ UNCHANGED <<shared, senders, link, history>>

ContinueLock_Eager ==
  /\ pc[Cont] \in {"start", "resume"} /\ Cont \notin waiting
  /\ ~shouldStop /\ connected
  /\ toStub' = Append(toStub, continuePacket)
  /\ isRunning' = TRUE /\ pc' = [pc EXCEPT ![Cont] = "read"]
  /\ asked' = Nothing
  /\ UNCHANGED <<asyncCount, shouldStop, continuePacket, waiting, verdict,
                 senders, connected, stub, fromStub, missed>>

AwaitAsync_Forgetting ==
  /\ pc[Cont] \in {"start", "resume"} /\ Cont \notin waiting /\ asyncCount > 0
  /\ waiting' = waiting \cup {Cont} /\ shouldStop' = FALSE
  /\ UNCHANGED <<asyncCount, isRunning, continuePacket, verdict, senders,
                 link, pc, history>>

NotifyAll_Resetting ==
  /\ Goto(Cont, "notifyAll", IF verdict = "resume" THEN "resume" ELSE "idle")
  /\ waiting' = {} /\ continuePacket' = "c"
  /\ UNCHANGED <<asyncCount, isRunning, shouldStop, verdict, senders, link,
                 history>>

NotifyAll_One ==
  /\ Goto(Cont, "notifyAll", IF verdict = "resume" THEN "resume" ELSE "idle")
  /\ \/ \E t \in waiting : waiting' = waiting \ {t}
     \/ waiting = {} /\ UNCHANGED waiting
  /\ UNCHANGED <<asyncCount, isRunning, shouldStop, continuePacket, verdict,
                 senders, link, history>>

Notify_Nobody(t) ==
  /\ Goto(t, "notify", IF Repeat THEN "idle" ELSE "done")
  /\ request' = [request EXCEPT ![t] = "none"]
  /\ didInterrupt' = [didInterrupt EXCEPT ![t] = FALSE]
  /\ UNCHANGED <<shared, verdict, link, history>>

-----------------------------------------------------------------------------
(* The continue thread: SendContinuePacketAndWaitForResponse().  After an    *)
(* exit or an error, AsyncThread() does not call it again.                   *)

SendContinue ==
  /\ verdict = "stopped" /\ Goto(Cont, "idle", "start")
  /\ continuePacket' = "payload" /\ shouldStop' = FALSE
  /\ verdict' = "none"
  /\ UNCHANGED <<asyncCount, isRunning, waiting, senders, link, history>>

(* ContinueLock::lock(), at the start of the call or after a stop. *)
Locking == pc[Cont] \in {"start", "resume"} /\ Cont \notin waiting

AwaitAsync == /\ Locking /\ asyncCount > 0
              /\ waiting' = waiting \cup {Cont}
              /\ UNCHANGED <<asyncCount, isRunning, shouldStop,
                             continuePacket, verdict, senders, link, pc,
                             history>>

ResumeCancelled ==
  /\ Locking /\ asyncCount = 0 /\ shouldStop
  /\ shouldStop' = FALSE
  /\ verdict' = IF pc[Cont] = "start" THEN "invalid" ELSE "stopped"
  /\ pc' = [pc EXCEPT ![Cont] = "idle"]
  /\ asked' = Nothing
  /\ UNCHANGED <<asyncCount, isRunning, continuePacket, waiting, senders,
                 link, missed>>

ResumeFailed ==
  /\ Locking /\ asyncCount = 0 /\ ~shouldStop /\ ~connected
  /\ verdict' = "invalid" /\ pc' = [pc EXCEPT ![Cont] = "idle"]
  /\ asked' = Nothing
  /\ UNCHANGED <<shared, senders, link, missed>>

Resume ==
  /\ Locking /\ asyncCount = 0 /\ ~shouldStop /\ connected
  /\ toStub' = Append(toStub, continuePacket)
  /\ isRunning' = TRUE /\ pc' = [pc EXCEPT ![Cont] = "read"]
  /\ asked' = Nothing
  /\ UNCHANGED <<asyncCount, shouldStop, continuePacket, waiting, verdict,
                 senders, connected, stub, fromStub, missed>>

Received(p) ==
  fromStub # <<>> /\ Head(fromStub) = p /\ fromStub' = Tail(fromStub)

ReadOutput == /\ Goto(Cont, "read", "read") /\ Received("O")
              /\ UNCHANGED <<shared, verdict, senders, connected, stub,
                             toStub, history>>

ReadStop == \E reply \in {"T_own", "T_int"} :
  /\ Goto(Cont, "read", "stop") /\ Received(reply)
  /\ verdict' = reply
  /\ UNCHANGED <<shared, senders, connected, stub, toStub, history>>

(* An exit, or a packet that is none of these. *)
ReadLast ==
  /\ Goto(Cont, "read", "unlock")
  /\ \/ Received("W") /\ verdict' = "exited"
     \/ Received("answer") /\ verdict' = "invalid"
  /\ UNCHANGED <<shared, senders, connected, stub, toStub, history>>

ReadDisconnected == /\ Goto(Cont, "read", "unlock")
                    /\ ~connected /\ fromStub = <<>>
                    /\ verdict' = "invalid"
                    /\ UNCHANGED <<shared, senders, link, history>>

(* With no interrupt under way the read is tried again.  With one, whatever  *)
(* its age: the response that a fresh one falls through with is empty.       *)
ReadTimeout == /\ Goto(Cont, "read", "unlock")
               /\ connected /\ fromStub = <<>>
               /\ asyncCount > 0 /\ Timeouts
               /\ verdict' = "invalid" /\ missed' = missed \cup {"timeout"}
               /\ UNCHANGED <<shared, senders, link, asked>>

(* ShouldStop(): the extra stop reply has 100 ms to come, enough or not.     *)
StoppedOnItsOwn == /\ Goto(Cont, "stop", "unlock") /\ asyncCount = 0
                   /\ verdict' = "stopped"
                   /\ UNCHANGED <<shared, senders, link, history>>

ShouldStop == /\ Goto(Cont, "stop", "extra") /\ asyncCount > 0
              /\ UNCHANGED <<shared, verdict, senders, link, history>>

ReadExtraReply ==
  /\ Goto(Cont, "extra", "unlock")
  /\ \/ fromStub # <<>> /\ fromStub' = Tail(fromStub)
     \/ fromStub = <<>> /\ UNCHANGED fromStub
  /\ verdict' = IF verdict = "T_own" THEN "stopped" ELSE "resume"
  /\ UNCHANGED <<shared, senders, connected, stub, toStub, history>>

(* ContinueLock::unlock(). *)
ContinueUnlock ==
  /\ Goto(Cont, "unlock", "notifyAll")
  /\ isRunning' = FALSE
  /\ continuePacket' = IF verdict \in {"stopped", "resume"} THEN "c"
                       ELSE continuePacket
  /\ UNCHANGED <<asyncCount, shouldStop, waiting, verdict, senders, link,
                 history>>

NotifyAll ==
  /\ Goto(Cont, "notifyAll", IF verdict = "resume" THEN "resume" ELSE "idle")
  /\ waiting' = {}
  /\ UNCHANGED <<asyncCount, isRunning, shouldStop, continuePacket, verdict,
                 senders, link, history>>

ContinueStep == \/ AwaitAsync \/ ResumeCancelled \/ ResumeFailed \/ Resume
                \/ ReadOutput \/ ReadStop \/ ReadLast \/ ReadDisconnected
                \/ ReadTimeout \/ StoppedOnItsOwn \/ ShouldStop
                \/ ReadExtraReply \/ ContinueUnlock \/ NotifyAll

-----------------------------------------------------------------------------
(* The other threads: a Lock around a request.                               *)

(* SyncWithContinueThread() when the process runs: the first one interrupts. *)
Interrupt(t) == \E r \in Requests \ {"polite"} :
  /\ MutexFree /\ isRunning /\ Goto(t, "idle", "interrupted")
  /\ request' = [request EXCEPT ![t] = r]
  /\ asyncCount' = asyncCount + 1
  /\ \/ /\ asyncCount = 0 /\ connected
        /\ toStub' = Append(toStub, "ctrl_c")
     \/ asyncCount > 0 /\ UNCHANGED toStub
  /\ waiting' = waiting \cup {t}
  /\ UNCHANGED <<isRunning, shouldStop, continuePacket, verdict, didInterrupt,
                 connected, stub, fromStub, history>>

AwaitStop(t) ==
  /\ MutexFree /\ pc[t] = "interrupted" /\ t \notin waiting /\ isRunning
  /\ waiting' = waiting \cup {t}
  /\ UNCHANGED <<asyncCount, isRunning, shouldStop, continuePacket, verdict,
                 senders, link, pc, history>>

Interrupted(t) == /\ MutexFree /\ t \notin waiting /\ ~isRunning
                  /\ Goto(t, "interrupted", "acquire")
                  /\ didInterrupt' = [didInterrupt EXCEPT ![t] = TRUE]
                  /\ UNCHANGED <<shared, verdict, request, link, history>>

(* ... and when it does not; "polite" makes no difference then. *)
JoinStopped(t) == \E r \in Requests :
  /\ MutexFree /\ ~isRunning /\ Goto(t, "idle", "acquire")
  /\ request' = [request EXCEPT ![t] = IF r = "polite" THEN "packet" ELSE r]
  /\ asyncCount' = asyncCount + 1
  /\ UNCHANGED <<isRunning, shouldStop, continuePacket, waiting, verdict,
                 didInterrupt, link, history>>

(* A caller that may not interrupt, or cannot write the ^C, is sent away. *)
Refused(t) ==
  /\ MutexFree /\ isRunning
  /\ "polite" \in Requests \/ (asyncCount = 0 /\ ~connected)
  /\ Goto(t, "idle", IF Repeat THEN "idle" ELSE "done")
  /\ UNCHANGED <<shared, verdict, senders, link, history>>

AcquireAsync(t) == /\ AsyncMutexFree /\ Goto(t, "acquire", "use")
                   /\ UNCHANGED <<shared, verdict, senders, link, history>>

SendPacket(t) ==
  /\ request[t] = "packet"
  /\ \/ /\ connected /\ Goto(t, "use", "reply")
        /\ toStub' = Append(toStub, "packet")
     \/ ~connected /\ Goto(t, "use", "release") /\ UNCHANGED toStub
  /\ UNCHANGED <<shared, verdict, senders, connected, stub, fromStub,
                 history>>

(* A reply that does not come in time is followed by a qEcho.  If an answer  *)
(* comes before that to the qEcho, it is the reply; if none comes at all the *)
(* client disconnects; if that to the qEcho comes alone, the stub has read   *)
(* everything and answers, and only this reply is given up.                  *)
ReadReply(t) ==
  /\ Goto(t, "reply", "release")
  /\ \/ /\ fromStub # <<>> /\ fromStub' = Tail(fromStub)
        /\ UNCHANGED connected
     \/ /\ fromStub = <<>> /\ UNCHANGED fromStub
        /\ \/ connected' = FALSE
           \/ /\ connected /\ toStub = <<>> /\ stub # "running"
              /\ UNCHANGED connected
  /\ UNCHANGED <<shared, verdict, senders, stub, toStub, history>>

(* Interrupt() and SendAsyncSignal(), neither of which holds m_mutex here.   *)
(* They return true if they interrupted a call; it may be over by now, or    *)
(* about to resume.                                                          *)
StillResuming(t) == didInterrupt[t] /\ verdict = "resume"

Halt(t) == /\ request[t] = "halt" /\ Goto(t, "use", "release")
           /\ shouldStop' = (shouldStop \/ didInterrupt[t])
           /\ asked' = [asked EXCEPT !.halt = @ \/ StillResuming(t)]
           /\ UNCHANGED <<asyncCount, isRunning, continuePacket, waiting,
                          verdict, senders, link, missed>>

SendAsyncSignal(t) ==
  /\ request[t] \in Signals /\ Goto(t, "use", "release")
  /\ continuePacket' = IF didInterrupt[t] THEN request[t] ELSE continuePacket
  /\ asked' = [asked EXCEPT !.signal = IF StillResuming(t) THEN request[t] ELSE @]
  /\ UNCHANGED <<asyncCount, isRunning, shouldStop, waiting, verdict, senders,
                 link, missed>>

(* ~Lock(): the async mutex goes after the notification, and with it all     *)
(* that is known of the request.                                             *)
Release(t) == /\ MutexFree /\ Goto(t, "release", "notify")
              /\ asyncCount' = asyncCount - 1
              /\ UNCHANGED <<isRunning, shouldStop, continuePacket, waiting,
                             verdict, senders, link, history>>

Notify(t) ==
  /\ Goto(t, "notify", IF Repeat THEN "idle" ELSE "done")
  /\ \/ \E u \in waiting : waiting' = waiting \ {u}
     \/ waiting = {} /\ UNCHANGED waiting
  /\ request' = [request EXCEPT ![t] = "none"]
  /\ didInterrupt' = [didInterrupt EXCEPT ![t] = FALSE]
  /\ UNCHANGED <<asyncCount, isRunning, shouldStop, continuePacket, verdict,
                 link, history>>

Start(t) == Interrupt(t) \/ JoinStopped(t) \/ Refused(t)

AsyncStep(t) == \/ AwaitStop(t) \/ Interrupted(t) \/ SendPacket(t)
                \/ ReadReply(t) \/ Halt(t) \/ SendAsyncSignal(t)
                \/ Release(t) \/ Notify(t)

SpuriousWakeup == /\ \E t \in waiting : waiting' = waiting \ {t}
                  /\ UNCHANGED <<asyncCount, isRunning, shouldStop,
                                 continuePacket, verdict, senders, link, pc,
                                 history>>

-----------------------------------------------------------------------------
(* The stub, its process and the connection.                                 *)

client == <<shared, verdict, senders, pc, asked>>

StubTakes(p) == /\ connected /\ toStub # <<>> /\ Head(toStub) = p
                /\ toStub' = Tail(toStub)

Answer(replies) == fromStub' = fromStub \o replies

StubResumes == /\ \E p \in Resumes : StubTakes(p)
               /\ stub' = IF stub = "stopped" THEN "running" ELSE stub
               /\ UNCHANGED <<client, connected, fromStub, missed>>

(* While its process runs a stub listens to ^C only. *)
StubAnswers == /\ StubTakes("packet")
               /\ Answer(IF stub = "running" THEN <<>> ELSE <<"answer">>)
               /\ UNCHANGED <<client, connected, stub, missed>>

(* The stop replies of a run are read until ShouldStop() has read the extra  *)
(* one.                                                                      *)
Awaited == /\ pc[Cont] \in {"read", "stop", "extra"}
           /\ \A i \in 1..Len(toStub) : toStub[i] \notin Resumes

StubInterrupted ==
  /\ StubTakes("ctrl_c")
  /\ \/ /\ stub = "running" /\ stub' = "stopped" /\ UNCHANGED missed
        /\ \/ Answer(<<"T_int">>)
           \/ "double" \in ExtraReplies /\ Answer(<<"T_int", "T_int">>)
     \/ /\ stub # "running" /\ UNCHANGED stub
        /\ \/ UNCHANGED <<fromStub, missed>>
           \/ /\ "late" \in ExtraReplies /\ stub = "stopped"
              /\ Len(fromStub) < MaxReplies /\ Answer(<<"T_int">>)
              /\ missed' = missed \cup IF Awaited THEN {} ELSE {"reply"}
  /\ UNCHANGED <<client, connected>>

ProcessStops == /\ connected /\ stub = "running"
                /\ \/ stub' = "stopped" /\ Answer(<<"T_own">>)
                   \/ stub' = "exited" /\ Answer(<<"W">>)
                /\ UNCHANGED <<client, connected, toStub, missed>>

ProcessWrites == /\ connected /\ stub = "running" /\ Len(fromStub) < MaxOutput
                 /\ Answer(<<"O">>)
                 /\ UNCHANGED <<client, connected, stub, toStub, missed>>

Disconnect == /\ Unplugged /\ connected /\ connected' = FALSE
              /\ UNCHANGED <<client, stub, toStub, fromStub, missed>>

StubStep == StubResumes \/ StubAnswers \/ StubInterrupted

-----------------------------------------------------------------------------
Next == \/ SendContinue \/ ContinueStep
        \/ \E t \in Async : Start(t) \/ AcquireAsync(t) \/ AsyncStep(t)
        \/ SpuriousWakeup
        \/ StubStep \/ ProcessStops \/ ProcessWrites \/ Disconnect

Spec == Init /\ [][Next]_vars

(* The scheduler runs every thread and lets each have the async mutex in the *)
(* end; the stub reads what it is sent.  Nobody has to make a call, and the  *)
(* process need not stop on its own.                                         *)
Fairness == /\ WF_vars(ContinueStep) /\ WF_vars(StubStep)
            /\ \A t \in Async :
                 WF_vars(AsyncStep(t)) /\ SF_vars(AcquireAsync(t))

FairSpec == Spec /\ Fairness

-----------------------------------------------------------------------------
SharedTypeOK ==
  /\ asyncCount \in 0..Cardinality(Async)
  /\ isRunning \in BOOLEAN /\ shouldStop \in BOOLEAN
  /\ continuePacket \in Resumes
  /\ waiting \subseteq Async \cup {Cont}

ThreadsTypeOK ==
  /\ pc \in [Async \cup {Cont} -> Calling \cup Sending]
  /\ pc[Cont] \in Calling /\ \A t \in Async : pc[t] \in Sending
  /\ verdict \in Results \cup {"none", "resume", "T_own", "T_int"}
  /\ request \in [Async -> Requests \cup {"packet", "none"}]
  /\ didInterrupt \in [Async -> BOOLEAN]

LinkTypeOK ==
  /\ connected \in BOOLEAN /\ stub \in {"running", "stopped", "exited"}
  /\ toStub \in Seq(Resumes \cup {"packet", "ctrl_c"})
  /\ fromStub \in Seq(Replies)

HistoryTypeOK == /\ asked \in [halt : BOOLEAN, signal : Signals \cup {"none"}]
                 /\ missed \subseteq {"reply", "timeout"}

(* Every variable has its type; m_async_count counts no more threads than    *)
(* there are, although one that is refused never gives its turn back.        *)
TypeOK == SharedTypeOK /\ ThreadsTypeOK /\ LinkTypeOK /\ HistoryTypeOK

(* ~Lock() wakes one thread only, which is enough because the continue       *)
(* thread is never on m_cv together with a thread that waits for it.         *)
OneKindOfWaiter == Cont \in waiting => waiting = {Cont}

(* The connection is a lock the continue thread owns while the process runs  *)
(* and the others share.                                                     *)
Connection == INSTANCE ReadWriteLock
                WITH Thread <- Async \cup {Cont},
                     exclusive <- IF isRunning THEN {Cont} ELSE {},
                     shared <- Owners

SharesTheConnection == Connection!Spec

(* A packet with a reply finds the process stopped: it is neither lost in a  *)
(* running stub nor, therefore, the reason to disconnect; this as long as no *)
(* stop reply has come too late for ShouldStop() to read it.                 *)
PacketsFindItStopped ==
  /\ "reply" \notin missed /\ connected
  /\ toStub # <<>> /\ Head(toStub) = "packet"
  => stub # "running"

(* Each reader gets what it waits for: a sender the answer to its packet,    *)
(* the continue thread anything else.                                        *)
InSequence ==
  fromStub # <<>> =>
    /\ \A t \in Async : pc[t] = "reply" => Head(fromStub) = "answer"
    /\ pc[Cont] = "read" => Head(fromStub) # "answer"

(* The extra read of ShouldStop() keeps them in sequence, whether a stub     *)
(* answers one ^C twice or answers it although its process has stopped, as   *)
(* long as no reply comes too late for the read that is there for it.        *)
AnswersMatch == missed = {} => InSequence

(* What the interrupting threads asked for is not undone by the thread they  *)
(* interrupted, which writes the same members on its way, until it resumes:  *)
(* after an Interrupt() it will not resume, and it resumes with the signal   *)
(* of the last SendAsyncSignal(), which replaces that of one before it, or   *)
(* without any if nobody sent one.                                           *)
RequestsTakeEffect ==
  verdict = "resume" /\ pc[Cont] \in {"notifyAll", "resume"} =>
    /\ asked.halt => shouldStop
    /\ continuePacket = IF asked.signal = "none" THEN "c" ELSE asked.signal

(* A thread is blocked on m_cv only while somebody will notify it: the       *)
(* continue thread while others hold a Lock or are about to notify, which    *)
(* they do one at a time; the others until it has stopped and said so.       *)
NobodyForgotten ==
  \A t \in waiting :
     IF t = Cont THEN asyncCount > 0 \/ \E u \in Async : pc[u] = "notify"
     ELSE isRunning \/ pc[Cont] = "notifyAll"

(* A call fails only on a lost connection or a read that has timed out. *)
FailsForAReason == verdict = "invalid" => ~connected \/ "timeout" \in missed

(* Whoever interrupts the process gets the connection and is done with it.   *)
RequestsEnd ==
  \A t \in Async : pc[t] = "interrupted" ~> pc[t] \in {"idle", "done"}

(* An Interrupt() that returns true ends the call in the continue thread.    *)
HaltEndsTheCall == asked.halt ~> pc[Cont] = "idle"

(* The process is resumed when the others are done.                          *)
ResumesAfterwards == pc[Cont] = "resume" ~> pc[Cont] # "resume"

=============================================================================

------------------------ MODULE GDBRemoteClientProofs ------------------------
(***************************************************************************)
(* Proofs about GDBRemoteClient for any finite set of threads, any mix of   *)
(* requests and any behaviour of the stub and the connection.  What the     *)
(* second part says of their conversation holds until a packet is missed.   *)
(***************************************************************************)
EXTENDS GDBRemoteClient, FiniteSetTheorems, SequenceTheorems, TLAPS

-----------------------------------------------------------------------------
(* The inductive invariant: m_async_count counts the threads inside a Lock,  *)
(* m_is_running says where the continue thread is, and who can be on m_cv.   *)

Interested == {t \in Async : pc[t] \in {"interrupted", "acquire", "use", "reply",
                                        "release"}}

Counted == asyncCount = Cardinality(Interested)

Running == isRunning <=> pc[Cont] \in {"read", "stop", "extra", "unlock"}

Waiters == \A u \in waiting :
             /\ u = Cont => pc[Cont] \in {"start", "resume"}
             /\ u # Cont => /\ pc[u] = "interrupted"
                            /\ isRunning \/ pc[Cont] = "notifyAll"

Exclusive == isRunning => Owners = {}

IInv == TypeOK /\ Counted /\ Running /\ Waiters /\ Exclusive

(* The threads inside a Lock are finitely many, at most all of them. *)
LEMMA InterestedFinite ==
  IsFiniteSet(Interested) /\ Cardinality(Interested) \in 0..Cardinality(Async)
<1>1. Interested \subseteq Async
  BY DEF Interested
<1> QED
  BY <1>1, ThreadAssumption, FS_Subset, FS_CardinalityType

(* Nobody owns a Lock while the count is 0. *)
LEMMA NobodyInside == Counted /\ asyncCount = 0 => Interested = {} /\ Owners = {}
<1>1. Counted /\ asyncCount = 0 => Interested = {}
  BY InterestedFinite, FS_EmptySet DEF Counted
<1>2. Owners \subseteq Interested
  BY DEF Owners, Interested
<1> QED
  BY <1>1, <1>2

(* A thread that enters a Lock is counted. *)
LEMMA OneMore ==
  ASSUME TypeOK, Counted, NEW t \in Async, pc[t] = "idle",
         NEW to \in {"interrupted", "acquire"},
         pc' = [pc EXCEPT ![t] = to], asyncCount' = asyncCount + 1
  PROVE  Counted'
<1>1. t \notin Interested /\ Interested' = Interested \cup {t}
  BY DEF Interested, TypeOK, SharedTypeOK, ThreadsTypeOK
<1>2. Cardinality(Interested') = Cardinality(Interested) + 1
  BY <1>1, InterestedFinite, FS_AddElement
<1> QED
  BY <1>2 DEF Counted

(* One that leaves is not counted any more. *)
LEMMA OneFewer ==
  ASSUME TypeOK, Counted, NEW t \in Async, Release(t)
  PROVE  Counted' /\ asyncCount > 0
<1>1. t \in Interested /\ Interested' = Interested \ {t}
  BY DEF Interested, TypeOK, SharedTypeOK, ThreadsTypeOK, Release, Goto
<1>2. Cardinality(Interested') = Cardinality(Interested) - 1
  BY <1>1, InterestedFinite, FS_RemoveElement
<1>3. Cardinality(Interested) # 0
  BY <1>1, InterestedFinite, FS_EmptySet
<1> QED
  BY <1>2, <1>3, InterestedFinite DEF Counted, Release

(* What goes through a queue keeps its type. *)
LEMMA Queues ==
  ASSUME NEW S, NEW q \in Seq(S)
  PROVE  /\ q # <<>> => Head(q) \in S /\ Tail(q) \in Seq(S)
         /\ \A x \in S : Append(q, x) \in Seq(S)
         /\ \A r \in Seq(S) : q \o r \in Seq(S)
OBVIOUS

(* The initial states satisfy the invariant. *)
LEMMA Initially == Init => IInv
<1> SUFFICES ASSUME Init PROVE IInv
  OBVIOUS
<1>1. Interested = {} /\ Owners = {}
  BY ThreadAssumption DEF Init, Interested, Owners
<1>2. Cardinality(Interested) = 0 /\ Cardinality(Async) \in Nat
  BY <1>1, FS_EmptySet, ThreadAssumption, FS_CardinalityType
<1>3. SharedTypeOK
  <2>1. 0 \in 0..Cardinality(Async)
    BY <1>2
  <2> QED
    BY <2>1 DEF Init, SharedTypeOK, Resumes
<1>4. ThreadsTypeOK
  BY ThreadAssumption DEF Init, ThreadsTypeOK, Results, Calling, Sending
<1>5. LinkTypeOK
  BY DEF Init, LinkTypeOK
<1>6. TypeOK
  <2>1. HistoryTypeOK
    BY DEF Init, HistoryTypeOK, Nothing
  <2> QED
    BY <1>3, <1>4, <1>5, <2>1 DEF TypeOK, SharedTypeOK, ThreadsTypeOK
<1> QED
  BY <1>1, <1>2, <1>6, ThreadAssumption
     DEF Init, IInv, Counted, Running, Waiters, Exclusive

(* The steps of the continue thread. *)
LEMMA ContinueSteps ==
  ASSUME IInv, SendContinue \/ ContinueStep PROVE IInv'
<1> USE ThreadAssumption DEF IInv, Goto, shared, senders, link, Locking, Received
<1> DEFINE Step == SendContinue \/ ContinueStep
<1>1. /\ UNCHANGED <<asyncCount, request, didInterrupt>>
      /\ \E to \in Calling : pc' = [pc EXCEPT ![Cont] = to]
  <2>1. CASE SendContinue \/ AwaitAsync \/ ResumeCancelled \/ ResumeFailed \/ Resume
    BY <2>1 DEF SendContinue, AwaitAsync, ResumeCancelled, ResumeFailed, Resume,
                TypeOK, SharedTypeOK, ThreadsTypeOK, Calling
  <2>2. CASE ReadOutput \/ ReadStop \/ ReadLast \/ ReadDisconnected \/ ReadTimeout
    BY <2>2 DEF ReadOutput, ReadStop, ReadLast, ReadDisconnected, ReadTimeout,
                TypeOK, SharedTypeOK, ThreadsTypeOK, Calling
  <2>3. CASE \/ StoppedOnItsOwn \/ ShouldStop \/ ReadExtraReply \/ ContinueUnlock
             \/ NotifyAll
    BY <2>3 DEF StoppedOnItsOwn, ShouldStop, ReadExtraReply, ContinueUnlock,
                NotifyAll, TypeOK, SharedTypeOK, ThreadsTypeOK, Calling
  <2> QED
    BY <2>1, <2>2, <2>3 DEF ContinueStep
<1>2. /\ pc' \in [Async \cup {Cont} -> Calling \cup Sending]
      /\ pc'[Cont] \in Calling /\ \A t \in Async : pc'[t] = pc[t]
  BY <1>1 DEF TypeOK, SharedTypeOK, ThreadsTypeOK
<1>3. Interested' = Interested /\ Owners' = Owners /\ Counted'
  BY <1>1, <1>2 DEF Interested, Owners, Counted
<1>4. TypeOK'
  <2>1. SharedTypeOK'
    BY <1>1 DEF ContinueStep, SendContinue, AwaitAsync, ResumeCancelled,
                ResumeFailed, Resume, ReadOutput, ReadStop, ReadLast,
                ReadDisconnected, ReadTimeout, StoppedOnItsOwn, ShouldStop,
                ReadExtraReply, ContinueUnlock, NotifyAll, TypeOK,
                SharedTypeOK, Resumes
  <2>2. verdict' \in Results \cup {"none", "resume", "T_own", "T_int"}
    BY DEF ContinueStep, SendContinue, AwaitAsync, ResumeCancelled,
           ResumeFailed, Resume, ReadOutput, ReadStop, ReadLast,
           ReadDisconnected, ReadTimeout, StoppedOnItsOwn, ShouldStop,
           ReadExtraReply, ContinueUnlock, NotifyAll, TypeOK, ThreadsTypeOK,
           Results
  <2>3. ThreadsTypeOK'
    BY <1>1, <1>2, <2>2 DEF TypeOK, ThreadsTypeOK
  <2>4. /\ connected' = connected /\ stub' = stub
        /\ \/ UNCHANGED toStub
           \/ toStub' = Append(toStub, continuePacket)
    BY DEF ContinueStep, SendContinue, AwaitAsync, ResumeCancelled,
           ResumeFailed, Resume, ReadOutput, ReadStop, ReadLast,
           ReadDisconnected, ReadTimeout, StoppedOnItsOwn, ShouldStop,
           ReadExtraReply, ContinueUnlock, NotifyAll
  <2>5. UNCHANGED fromStub \/ (fromStub # <<>> /\ fromStub' = Tail(fromStub))
    <3>1. CASE ReadOutput \/ ReadStop \/ ReadLast \/ ReadExtraReply
      BY <3>1 DEF ReadOutput, ReadStop, ReadLast, ReadExtraReply
    <3>2. CASE ~(ReadOutput \/ ReadStop \/ ReadLast \/ ReadExtraReply)
      BY <3>2 DEF ContinueStep, SendContinue, AwaitAsync, ResumeCancelled,
                  ResumeFailed, Resume, ReadDisconnected, ReadTimeout,
                  StoppedOnItsOwn, ShouldStop, ContinueUnlock, NotifyAll
    <3> QED
      BY <3>1, <3>2
  <2>6. LinkTypeOK'
    <3>1. toStub' \in Seq(Resumes \cup {"packet", "ctrl_c"})
      BY <2>4, Queues DEF TypeOK, LinkTypeOK, SharedTypeOK
    <3>2. fromStub' \in Seq(Replies)
      BY <2>5, Queues DEF TypeOK, LinkTypeOK
    <3>3. connected' \in BOOLEAN /\ stub' \in {"running", "stopped", "exited"}
      <4>1. connected \in BOOLEAN /\ stub \in {"running", "stopped", "exited"}
        BY DEF TypeOK, LinkTypeOK
      <4> QED
        BY <2>4, <4>1, Zenon
    <3> QED
      BY <3>1, <3>2, <3>3 DEF LinkTypeOK
  <2>7. HistoryTypeOK'
    <3>1. asked' = asked \/ asked' = Nothing
      BY DEF ContinueStep, SendContinue, AwaitAsync, ResumeCancelled,
             ResumeFailed, Resume, ReadOutput, ReadStop, ReadLast,
             ReadDisconnected, ReadTimeout, StoppedOnItsOwn, ShouldStop,
             ReadExtraReply, ContinueUnlock, NotifyAll, history
    <3>2. missed' = missed \/ missed' = missed \cup {"timeout"}
      BY DEF ContinueStep, SendContinue, AwaitAsync, ResumeCancelled,
             ResumeFailed, Resume, ReadOutput, ReadStop, ReadLast,
             ReadDisconnected, ReadTimeout, StoppedOnItsOwn, ShouldStop,
             ReadExtraReply, ContinueUnlock, NotifyAll, history
    <3>3. Nothing \in [halt : BOOLEAN, signal : Signals \cup {"none"}]
      BY DEF Nothing
    <3>4. asked' \in [halt : BOOLEAN, signal : Signals \cup {"none"}]
      BY <3>1, <3>3 DEF TypeOK, HistoryTypeOK
    <3>5. missed' \subseteq {"reply", "timeout"}
      BY <3>2 DEF TypeOK, HistoryTypeOK
    <3> QED
      BY <3>4, <3>5 DEF HistoryTypeOK
  <2> QED
    BY <2>1, <2>3, <2>6, <2>7 DEF TypeOK
<1>5. CASE SendContinue \/ AwaitAsync \/ ResumeCancelled \/ ResumeFailed
  BY <1>1, <1>2, <1>3, <1>4, <1>5
     DEF SendContinue, AwaitAsync, ResumeCancelled, ResumeFailed, Running,
         Waiters, Exclusive, TypeOK, SharedTypeOK, ThreadsTypeOK
<1>6. CASE Resume
  <2>1. Owners = {} /\ Cont \notin waiting /\ ~isRunning
    BY <1>6, NobodyInside DEF Resume, Running
  <2>2. pc'[Cont] = "read" /\ isRunning' /\ UNCHANGED waiting
    BY <1>6 DEF Resume, TypeOK, ThreadsTypeOK
  <2>3. waiting = {}
    BY <1>6, <2>1 DEF Resume, Waiters
  <2>4. Running' /\ Exclusive' /\ Waiters'
    BY <1>3, <2>1, <2>2, <2>3 DEF Running, Exclusive, Waiters
  <2> QED
    BY <1>3, <1>4, <2>4
<1>7. CASE ReadOutput \/ ReadStop \/ ReadLast \/ ReadDisconnected \/ ReadTimeout
  BY <1>1, <1>2, <1>3, <1>4, <1>7
     DEF ReadOutput, ReadStop, ReadLast, ReadDisconnected, ReadTimeout, Running,
         Waiters, Exclusive, TypeOK, SharedTypeOK, ThreadsTypeOK
<1>8. CASE \/ StoppedOnItsOwn \/ ShouldStop \/ ReadExtraReply \/ ContinueUnlock
           \/ NotifyAll
  <2>1. NotifyAll \/ \A t \in Async : pc[t] # "release"
    BY <1>8 DEF StoppedOnItsOwn, ShouldStop, ReadExtraReply, ContinueUnlock,
                Running, Exclusive, Owners
  <2> QED
    BY <1>1, <1>2, <1>3, <1>4, <1>8, <2>1
       DEF StoppedOnItsOwn, ShouldStop, ReadExtraReply, ContinueUnlock, NotifyAll,
           Running, Waiters, Exclusive, TypeOK, SharedTypeOK, ThreadsTypeOK
<1> QED
  BY <1>5, <1>6, <1>7, <1>8 DEF ContinueStep

(* The steps of the other threads. *)
LEMMA AsyncSteps ==
  ASSUME IInv, NEW t \in Async, Start(t) \/ AcquireAsync(t) \/ AsyncStep(t)
  PROVE  IInv'
<1> USE ThreadAssumption DEF IInv, Goto, shared, senders, link
<1>1. Counted'
  <2>1. CASE Interrupt(t) \/ JoinStopped(t)
    BY <2>1, OneMore DEF Interrupt, JoinStopped
  <2>2. CASE Release(t)
    BY <2>2, OneFewer
  <2>3. CASE \/ Refused(t) \/ AcquireAsync(t) \/ AwaitStop(t) \/ Interrupted(t)
             \/ SendPacket(t) \/ ReadReply(t) \/ Halt(t) \/ SendAsyncSignal(t)
             \/ Notify(t)
    <3>1. Interested' = Interested /\ asyncCount' = asyncCount
      BY <2>3 DEF Refused, AcquireAsync, AwaitStop, Interrupted, SendPacket,
                  ReadReply, Halt, SendAsyncSignal, Notify, Interested, TypeOK, SharedTypeOK, ThreadsTypeOK
    <3> QED
      BY <3>1 DEF Counted
  <2> QED
    BY <2>1, <2>2, <2>3 DEF Start, AsyncStep
<1>2. pc'[Cont] = pc[Cont] /\ isRunning' = isRunning /\ verdict' = verdict
  BY DEF Start, AsyncStep, Interrupt, JoinStopped, Refused, AcquireAsync,
         AwaitStop, Interrupted, SendPacket, ReadReply, Halt, SendAsyncSignal,
         Release, Notify, TypeOK, SharedTypeOK, ThreadsTypeOK
<1>3. asyncCount' \in 0..Cardinality(Async)
  <2>1. (Cardinality(Interested) \in 0..Cardinality(Async))'
    BY InterestedFinite, PTL
  <2> QED
    BY <1>1, <2>1 DEF Counted
<1>4. TypeOK'
  <2>1. SharedTypeOK'
    BY <1>3 DEF Start, AsyncStep, Interrupt, JoinStopped, Refused, AcquireAsync,
                AwaitStop, Interrupted, SendPacket, ReadReply, Halt,
                SendAsyncSignal, Release, Notify, TypeOK, SharedTypeOK, Resumes
  <2>2. ThreadsTypeOK'
    <3>1. CASE Start(t)
      <4>1. CASE Interrupt(t)
        <5>1. /\ pc' \in [Async \cup {Cont} -> Calling \cup Sending]
              /\ pc'[Cont] \in Calling /\ \A u \in Async : pc'[u] \in Sending
              /\ request' \in [Async -> Requests \cup {"packet", "none"}]
          <6>1. PICK r \in Requests : request' = [request EXCEPT ![t] = r]
            BY <4>1 DEF Interrupt
          <6>2. request' \in [Async -> Requests \cup {"packet", "none"}]
            BY <6>1 DEF TypeOK, ThreadsTypeOK
          <6>3. pc' = [pc EXCEPT ![t] = "interrupted"]
            BY <4>1 DEF Interrupt
          <6> QED
            BY <6>2, <6>3 DEF TypeOK, ThreadsTypeOK, Calling, Sending
        <5>2. verdict' = verdict /\ didInterrupt' = didInterrupt
          BY <4>1 DEF Interrupt
        <5> QED
          BY <5>1, <5>2 DEF TypeOK, ThreadsTypeOK
      <4>2. CASE JoinStopped(t)
        <5>1. /\ pc' \in [Async \cup {Cont} -> Calling \cup Sending]
              /\ pc'[Cont] \in Calling /\ \A u \in Async : pc'[u] \in Sending
              /\ request' \in [Async -> Requests \cup {"packet", "none"}]
          <6>1. PICK r \in Requests :
                  request' = [request EXCEPT ![t] = IF r = "polite" THEN "packet"
                                                    ELSE r]
            BY <4>2 DEF JoinStopped
          <6>2. request' \in [Async -> Requests \cup {"packet", "none"}]
            BY <6>1 DEF TypeOK, ThreadsTypeOK
          <6>3. pc' = [pc EXCEPT ![t] = "acquire"]
            BY <4>2 DEF JoinStopped
          <6> QED
            BY <6>2, <6>3 DEF TypeOK, ThreadsTypeOK, Calling, Sending
        <5>2. /\ verdict' = verdict /\ didInterrupt' = didInterrupt
          BY <4>2 DEF JoinStopped
        <5> QED
          BY <5>1, <5>2 DEF TypeOK, ThreadsTypeOK
      <4>3. CASE Refused(t)
        BY <4>3 DEF Refused, TypeOK, ThreadsTypeOK, Calling, Sending
      <4> QED
        BY <3>1, <4>1, <4>2, <4>3 DEF Start
    <3>2. CASE AcquireAsync(t) \/ AsyncStep(t)
      BY <3>2 DEF AsyncStep, AcquireAsync, AwaitStop, Interrupted, SendPacket,
                  ReadReply, Halt, SendAsyncSignal, Release, Notify, TypeOK,
                  ThreadsTypeOK, Calling, Sending
    <3> QED
      BY <3>1, <3>2
  <2>3. LinkTypeOK'
    <3>1. \/ UNCHANGED toStub
          \/ \E p \in {"packet", "ctrl_c"} : toStub' = Append(toStub, p)
      BY DEF Start, AsyncStep, Interrupt, JoinStopped, Refused, AcquireAsync,
             AwaitStop, Interrupted, SendPacket, ReadReply, Halt,
             SendAsyncSignal, Release, Notify
    <3>2. UNCHANGED fromStub \/ (fromStub # <<>> /\ fromStub' = Tail(fromStub))
      BY DEF Start, AsyncStep, Interrupt, JoinStopped, Refused, AcquireAsync,
             AwaitStop, Interrupted, SendPacket, ReadReply, Halt,
             SendAsyncSignal, Release, Notify
    <3>3. UNCHANGED stub /\ connected' \in BOOLEAN
      BY DEF Start, AsyncStep, Interrupt, JoinStopped, Refused, AcquireAsync,
             AwaitStop, Interrupted, SendPacket, ReadReply, Halt,
             SendAsyncSignal, Release, Notify, TypeOK, LinkTypeOK
    <3>4. toStub' \in Seq(Resumes \cup {"packet", "ctrl_c"})
      BY <3>1, Queues DEF TypeOK, LinkTypeOK
    <3>5. fromStub' \in Seq(Replies)
      BY <3>2, Queues DEF TypeOK, LinkTypeOK
    <3> QED
      BY <3>3, <3>4, <3>5 DEF TypeOK, LinkTypeOK
  <2>4. HistoryTypeOK'
    <3>1. missed' = missed
      BY DEF Start, AsyncStep, Interrupt, JoinStopped, Refused, AcquireAsync,
             AwaitStop, Interrupted, SendPacket, ReadReply, Halt,
             SendAsyncSignal, Release, Notify, history
    <3>2. \/ asked' = asked
          \/ asked' = [asked EXCEPT !.halt = @ \/ StillResuming(t)]
          \/ /\ request[t] \in Signals
             /\ asked' = [asked EXCEPT !.signal =
                                        IF StillResuming(t) THEN request[t] ELSE @]
      BY DEF Start, AsyncStep, Interrupt, JoinStopped, Refused, AcquireAsync,
             AwaitStop, Interrupted, SendPacket, ReadReply, Halt,
             SendAsyncSignal, Release, Notify, history
    <3>3. StillResuming(t) \in BOOLEAN
      BY DEF StillResuming, TypeOK, ThreadsTypeOK
    <3> QED
      BY <3>1, <3>2, <3>3 DEF TypeOK, HistoryTypeOK
  <2> QED
    BY <2>1, <2>2, <2>3, <2>4 DEF TypeOK
<1>5. Running'
  BY <1>2 DEF Running
<1>6. Waiters'
  <2>1. \A u \in Async \ {t} : pc'[u] = pc[u]
    BY DEF Start, AsyncStep, Interrupt, JoinStopped, Refused, AcquireAsync,
           AwaitStop, Interrupted, SendPacket, ReadReply, Halt, SendAsyncSignal,
           Release, Notify, TypeOK, ThreadsTypeOK
  <2>2. CASE Interrupt(t) \/ AwaitStop(t)
    BY <1>2, <2>1, <2>2 DEF Interrupt, AwaitStop, Waiters, TypeOK, SharedTypeOK,
                            ThreadsTypeOK
  <2>3. CASE Notify(t)
    <3>1. waiting' \subseteq waiting /\ t \notin waiting
      BY <2>3 DEF Notify, Waiters
    <3> QED
      BY <1>2, <2>1, <3>1 DEF Waiters, TypeOK, SharedTypeOK
  <2>4. CASE \/ JoinStopped(t) \/ Refused(t) \/ AcquireAsync(t) \/ Interrupted(t)
             \/ SendPacket(t) \/ ReadReply(t) \/ Halt(t) \/ SendAsyncSignal(t)
             \/ Release(t)
    <3>1. UNCHANGED waiting /\ t \notin waiting
      BY <2>4 DEF JoinStopped, Refused, AcquireAsync, Interrupted, SendPacket,
                  ReadReply, Halt, SendAsyncSignal, Release, Waiters
    <3> QED
      BY <1>2, <2>1, <3>1 DEF Waiters, TypeOK, SharedTypeOK
  <2> QED
    BY <2>2, <2>3, <2>4 DEF Start, AsyncStep
<1>7. Exclusive'
  BY DEF Start, AsyncStep, Interrupt, JoinStopped, Refused, AcquireAsync,
         AwaitStop, Interrupted, SendPacket, ReadReply, Halt, SendAsyncSignal,
         Release, Notify, Exclusive, Owners, TypeOK, SharedTypeOK, ThreadsTypeOK
<1> QED
  BY <1>1, <1>4, <1>5, <1>6, <1>7

(* What the stub and the connection do, and wake-ups for no reason. *)
LEMMA OutsideSteps ==
  ASSUME IInv,
         \/ SpuriousWakeup \/ StubStep \/ ProcessStops \/ ProcessWrites
         \/ Disconnect \/ UNCHANGED vars
  PROVE  IInv'
<1> USE DEF IInv, shared, senders, link, client
<1>1. /\ UNCHANGED <<asyncCount, isRunning, shouldStop, continuePacket, verdict,
                     request, didInterrupt, pc>>
      /\ waiting' \subseteq waiting
  BY DEF SpuriousWakeup, StubStep, StubResumes, StubAnswers, StubInterrupted,
         ProcessStops, ProcessWrites, Disconnect, vars
<1>2. SharedTypeOK' /\ ThreadsTypeOK'
  BY <1>1 DEF TypeOK, SharedTypeOK, ThreadsTypeOK
<1>3. LinkTypeOK'
  <2>1. \/ UNCHANGED toStub
        \/ toStub # <<>> /\ toStub' = Tail(toStub)
    BY DEF SpuriousWakeup, StubStep, StubResumes, StubAnswers, StubInterrupted,
           StubTakes, ProcessStops, ProcessWrites, Disconnect, vars
  <2>2. \/ UNCHANGED fromStub
        \/ \E replies \in Seq(Replies) : fromStub' = fromStub \o replies
    <3>1. /\ <<>> \in Seq(Replies) /\ <<"T_int", "T_int">> \in Seq(Replies)
          /\ \A p \in Replies : <<p>> \in Seq(Replies)
      BY DEF Replies
    <3>2. {"T_own", "T_int", "O", "W", "answer"} = Replies
      BY DEF Replies
    <3>3. \/ UNCHANGED fromStub
          \/ \E p \in Replies : fromStub' = fromStub \o <<p>>
          \/ fromStub' = fromStub \o <<>>
          \/ fromStub' = fromStub \o <<"T_int", "T_int">>
      BY <3>2 DEF SpuriousWakeup, StubStep, StubResumes, StubAnswers,
                  StubInterrupted, Answer, ProcessStops, ProcessWrites,
                  Disconnect, vars
    <3> QED
      BY <3>1, <3>3
  <2>3. connected' \in BOOLEAN /\ stub' \in {"running", "stopped", "exited"}
    BY DEF SpuriousWakeup, StubStep, StubResumes, StubAnswers, StubInterrupted,
           ProcessStops, ProcessWrites, Disconnect, vars, TypeOK,
           LinkTypeOK
  <2> QED
    BY <2>1, <2>2, <2>3, Queues DEF TypeOK, LinkTypeOK
<1>4. HistoryTypeOK'
  BY DEF SpuriousWakeup, StubStep, StubResumes, StubAnswers, StubInterrupted,
         ProcessStops, ProcessWrites, Disconnect, vars, history, TypeOK,
         HistoryTypeOK
<1> QED
  BY <1>1, <1>2, <1>3, <1>4 DEF Counted, Interested, Running, Waiters, Exclusive, Owners,
                    TypeOK, SharedTypeOK

(* The invariant holds of every reachable state. *)
THEOREM Invariance == Spec => []IInv
<1>1. IInv /\ [Next]_vars => IInv'
  BY ContinueSteps, AsyncSteps, OutsideSteps DEF Next
<1> QED
  BY <1>1, Initially, PTL DEF Spec

-----------------------------------------------------------------------------
(* What is not part of the invariant but is preserved wherever it holds.     *)

(* What was asked is asked of a call that will resume, and nothing is asked   *)
(* of another; who asks has stopped the continue thread short of resuming.    *)
AskedInTime ==
  /\ pc[Cont] = "resume" => verdict = "resume"
  /\ verdict = "resume" => pc[Cont] \in {"read", "unlock", "notifyAll", "resume"}
  /\ ~(verdict = "resume" /\ pc[Cont] \in {"notifyAll", "resume"}) =>
       asked = Nothing

RequestsKept == AskedInTime /\ RequestsTakeEffect

(* m_should_stop and the packet to resume with are what the last to write    *)
(* them asked for, and the continue thread writes them before and after.     *)
LEMMA RequestsStep == IInv /\ RequestsKept /\ [Next]_vars => RequestsKept'
<1> SUFFICES ASSUME IInv, RequestsKept, [Next]_vars PROVE RequestsKept'
  OBVIOUS
<1> USE ThreadAssumption DEF IInv, Goto, shared, senders, link, client, history
<1> DEFINE Resuming == verdict = "resume" /\ pc[Cont] \in {"notifyAll", "resume"}
<1>0. asked \in [halt : BOOLEAN, signal : Signals \cup {"none"}]
  BY DEF TypeOK, HistoryTypeOK
<1>1. ASSUME NEW t \in Async, Start(t) \/ AcquireAsync(t) \/ AsyncStep(t)
      PROVE  RequestsKept'
  <2>1. verdict' = verdict /\ pc'[Cont] = pc[Cont]
    BY <1>1 DEF Start, AsyncStep, Interrupt, JoinStopped, Refused,
       AcquireAsync, AwaitStop, Interrupted, SendPacket, ReadReply, Halt,
       SendAsyncSignal, Release, Notify, TypeOK, ThreadsTypeOK
  <2>2. CASE Halt(t) \/ SendAsyncSignal(t)
    <3>1. t \in Owners
      BY <2>2 DEF Halt, SendAsyncSignal, Owners
    <3>2. pc[Cont] \notin {"read", "unlock"}
      BY <3>1 DEF Exclusive, Running
    <3>3. verdict = "resume" => Resuming
      BY <3>2 DEF RequestsKept, AskedInTime
    <3>4. CASE ~Resuming
      <4>1. ~StillResuming(t)
        BY <3>3, <3>4 DEF StillResuming
      <4>2. asked' = asked
        BY <1>0, <2>2, <4>1 DEF Halt, SendAsyncSignal
      <4> QED
        BY <2>1, <3>4, <4>2 DEF RequestsKept, AskedInTime, RequestsTakeEffect
    <3>5. CASE Resuming /\ Halt(t)
      <4>1. /\ asked'.signal = asked.signal /\ continuePacket' = continuePacket
            /\ asked'.halt = (asked.halt \/ StillResuming(t))
        BY <1>0, <3>5 DEF Halt
      <4>2. asked'.halt => shouldStop'
        BY <3>5, <4>1 DEF Halt, StillResuming, RequestsKept, RequestsTakeEffect
      <4> QED
        BY <2>1, <3>5, <4>1, <4>2 DEF RequestsKept, AskedInTime, RequestsTakeEffect
    <3>6. CASE Resuming /\ SendAsyncSignal(t)
      <4>1. asked'.halt = asked.halt /\ shouldStop' = shouldStop
        BY <1>0, <3>6 DEF SendAsyncSignal
      <4>2. request[t] # "none"
        BY <3>6, RequestAssumption DEF SendAsyncSignal
      <4>3. CASE didInterrupt[t]
        <5>1. asked'.signal = request[t] /\ continuePacket' = request[t]
          BY <1>0, <3>6, <4>3 DEF SendAsyncSignal, StillResuming
        <5> QED
          BY <2>1, <3>6, <4>1, <4>2, <5>1
             DEF RequestsKept, AskedInTime, RequestsTakeEffect
      <4>4. CASE ~didInterrupt[t]
        <5>1. asked'.signal = asked.signal /\ continuePacket' = continuePacket
          BY <1>0, <3>6, <4>4 DEF SendAsyncSignal, StillResuming
        <5> QED
          BY <2>1, <3>6, <4>1, <5>1
             DEF RequestsKept, AskedInTime, RequestsTakeEffect
      <4> QED
        BY <4>3, <4>4
    <3> QED
      BY <2>2, <3>4, <3>5, <3>6
  <2>3. CASE ~(Halt(t) \/ SendAsyncSignal(t))
    <3>1. UNCHANGED <<asked, shouldStop, continuePacket>>
      BY <1>1, <2>3 DEF Start, AsyncStep, Interrupt, JoinStopped, Refused,
         AcquireAsync, AwaitStop, Interrupted, SendPacket, ReadReply, Release,
         Notify
    <3> QED
      BY <2>1, <3>1 DEF RequestsKept, AskedInTime, RequestsTakeEffect
  <2> QED
    BY <2>2, <2>3
<1>2. CASE SendContinue \/ ResumeCancelled \/ ResumeFailed \/ Resume
  <2>1. ~Resuming' /\ (verdict' = "resume" => pc'[Cont] = "read")
        /\ pc'[Cont] # "resume"
    BY <1>2 DEF SendContinue, ResumeCancelled, ResumeFailed, Resume, Locking,
       TypeOK, ThreadsTypeOK
  <2>2. asked' = Nothing
    BY <1>2 DEF SendContinue, ResumeCancelled, ResumeFailed, Resume,
       RequestsKept, AskedInTime
  <2> QED
    BY <2>1, <2>2 DEF RequestsKept, AskedInTime, RequestsTakeEffect
<1>3. CASE ReadOutput \/ ReadStop \/ ReadLast \/ ReadDisconnected \/ ReadTimeout
           \/ StoppedOnItsOwn \/ ShouldStop \/ ReadExtraReply
  <2>1. /\ pc[Cont] \in {"read", "stop", "extra"}
        /\ pc'[Cont] \in {"read", "stop", "extra", "unlock"}
        /\ verdict' = "resume" => pc'[Cont] \in {"read", "unlock"}
    BY <1>3 DEF ReadOutput, ReadStop, ReadLast, ReadDisconnected, ReadTimeout,
       StoppedOnItsOwn, ShouldStop, ReadExtraReply, TypeOK, ThreadsTypeOK,
       RequestsKept, AskedInTime
  <2>2. asked' = asked
    BY <1>3 DEF ReadOutput, ReadStop, ReadLast, ReadDisconnected, ReadTimeout,
       StoppedOnItsOwn, ShouldStop, ReadExtraReply
  <2> QED
    BY <2>1, <2>2 DEF RequestsKept, AskedInTime, RequestsTakeEffect
<1>4. CASE ContinueUnlock
  <2>1. /\ asked = Nothing /\ asked' = asked /\ verdict' = verdict
        /\ pc'[Cont] = "notifyAll"
    BY <1>4 DEF ContinueUnlock, TypeOK, ThreadsTypeOK, RequestsKept, AskedInTime
  <2>2. verdict = "resume" => continuePacket' = "c"
    BY <1>4 DEF ContinueUnlock
  <2> QED
    BY <2>1, <2>2 DEF RequestsKept, AskedInTime, RequestsTakeEffect, Nothing
<1>5. CASE NotifyAll \/ AwaitAsync
  <2>1. UNCHANGED <<asked, shouldStop, continuePacket, verdict>>
    BY <1>5 DEF NotifyAll, AwaitAsync
  <2>2. \/ pc'[Cont] = pc[Cont]
        \/ /\ pc[Cont] = "notifyAll"
           /\ pc'[Cont] = IF verdict = "resume" THEN "resume" ELSE "idle"
    BY <1>5 DEF NotifyAll, AwaitAsync, TypeOK, ThreadsTypeOK
  <2> QED
    BY <2>1, <2>2 DEF RequestsKept, AskedInTime, RequestsTakeEffect
<1>6. CASE \/ SpuriousWakeup \/ StubStep \/ ProcessStops \/ ProcessWrites
           \/ Disconnect \/ UNCHANGED vars
  <2>1. UNCHANGED <<pc, asked, verdict, shouldStop, continuePacket>>
    BY <1>6 DEF SpuriousWakeup, StubStep, StubResumes, StubAnswers,
       StubInterrupted, ProcessStops, ProcessWrites, Disconnect, vars
  <2> QED
    BY <2>1 DEF RequestsKept, AskedInTime, RequestsTakeEffect
<1> QED
  BY <1>1, <1>2, <1>3, <1>4, <1>5, <1>6 DEF Next, ContinueStep

(* Whoever blocks does so because of somebody, and each that goes notifies:  *)
(* the one notification of ~Lock() meets the continue thread alone.          *)
LEMMA ForgottenStep ==
  IInv /\ NobodyForgotten /\ [Next]_vars => NobodyForgotten'
<1> DEFINE Told == asyncCount > 0 \/ \E u \in Async : pc[u] = "notify"
<1> SUFFICES ASSUME IInv, NobodyForgotten, [Next]_vars, Cont \in waiting'
             PROVE  Told'
  <2>1. ASSUME IInv, NobodyForgotten, [Next]_vars PROVE Waiters'
    BY <2>1, ContinueSteps, AsyncSteps, OutsideSteps DEF Next, IInv
  <2> QED
    BY <2>1 DEF NobodyForgotten, Waiters
<1> USE ThreadAssumption DEF IInv, Goto, shared, senders, link, client
<1>0. Cont \in waiting => Told /\ waiting = {Cont}
  BY DEF NobodyForgotten, Waiters, Running
<1>1. ASSUME NEW u \in Async, Release(u) PROVE Told'
  BY <1>1 DEF Release, TypeOK, ThreadsTypeOK
<1>2. ASSUME NEW u \in Async, Notify(u) PROVE Told'
  BY <1>0, <1>2 DEF Notify
<1>3. ASSUME NEW u \in Async, Interrupt(u) \/ JoinStopped(u) PROVE Told'
  BY <1>3 DEF Interrupt, JoinStopped, TypeOK, SharedTypeOK
<1>4. ASSUME NEW u \in Async,
             \/ Refused(u) \/ AcquireAsync(u) \/ AwaitStop(u) \/ Interrupted(u)
             \/ SendPacket(u) \/ ReadReply(u) \/ Halt(u) \/ SendAsyncSignal(u)
      PROVE  Told'
  <2>1. Cont \in waiting /\ UNCHANGED asyncCount
    BY <1>4 DEF Refused, AcquireAsync, AwaitStop, Interrupted, SendPacket,
       ReadReply, Halt, SendAsyncSignal
  <2>2. \A v \in Async : pc[v] = "notify" => pc'[v] = "notify"
    BY <1>4 DEF Refused, AcquireAsync, AwaitStop, Interrupted, SendPacket,
       ReadReply, Halt, SendAsyncSignal, TypeOK, ThreadsTypeOK
  <2> QED
    BY <1>0, <2>1, <2>2
<1>5. CASE AwaitAsync
  BY <1>5 DEF AwaitAsync
<1>6. CASE (SendContinue \/ ContinueStep) /\ ~AwaitAsync
  <2>1. Cont \in waiting /\ UNCHANGED asyncCount
    BY <1>6 DEF SendContinue, ContinueStep, ResumeCancelled,
       ResumeFailed, Resume, Locking, ReadOutput, ReadStop, ReadLast,
       ReadDisconnected, ReadTimeout, StoppedOnItsOwn, ShouldStop,
       ReadExtraReply, ContinueUnlock, NotifyAll
  <2>2. \A v \in Async : pc'[v] = pc[v]
    BY <1>6 DEF SendContinue, ContinueStep, ResumeCancelled,
       ResumeFailed, Resume, Locking, ReadOutput, ReadStop, ReadLast,
       ReadDisconnected, ReadTimeout, StoppedOnItsOwn, ShouldStop,
       ReadExtraReply, ContinueUnlock, NotifyAll, TypeOK, ThreadsTypeOK
  <2> QED
    BY <1>0, <2>1, <2>2
<1>7. CASE \/ SpuriousWakeup \/ StubStep \/ ProcessStops \/ ProcessWrites
           \/ Disconnect \/ UNCHANGED vars
  <2>1. Cont \in waiting /\ UNCHANGED <<pc, asyncCount>>
    BY <1>7 DEF SpuriousWakeup, StubStep, StubResumes, StubAnswers,
       StubInterrupted, ProcessStops, ProcessWrites, Disconnect,
       vars
  <2> QED
    BY <1>0, <2>1
<1> QED
  BY <1>1, <1>2, <1>3, <1>4, <1>5, <1>6, <1>7 DEF Next, Start, AsyncStep

-----------------------------------------------------------------------------
(* Every variable keeps its type; in particular m_async_count counts no more *)
(* threads than there are.                                                   *)
THEOREM TypeCorrect == Spec => []TypeOK
BY Invariance, PTL DEF IInv

(* The continue thread never waits on m_cv together with another thread, so  *)
(* the notify_one() of ~Lock() cannot wake the wrong one.                    *)
THEOREM NotifyOneIsEnough == Spec => []OneKindOfWaiter
<1>1. IInv => OneKindOfWaiter
  BY DEF IInv, Waiters, Running, OneKindOfWaiter
<1> QED
  BY <1>1, Invariance, PTL

(* A thread blocked on m_cv will be notified, although each Lock notifies    *)
(* one thread only: nobody waits on m_cv for ever.                           *)
THEOREM NobodyIsForgotten == Spec => []NobodyForgotten
<1>1. Init => NobodyForgotten
  BY DEF Init, NobodyForgotten
<1> QED
  BY <1>1, ForgottenStep, Invariance, PTL DEF Spec

(* A halt or a signal asked for while the call is interrupted is not undone   *)
(* before the call resumes, which a halt keeps it from: it resumes with the   *)
(* signal of the last that sent one, and with none if nobody did.             *)
THEOREM RequestsAreKept == Spec => []RequestsTakeEffect
<1>1. Init => RequestsKept
  BY ThreadAssumption DEF Init, RequestsKept, AskedInTime, RequestsTakeEffect
<1>2. RequestsKept => RequestsTakeEffect
  BY DEF RequestsKept
<1> QED
  BY <1>1, <1>2, RequestsStep, Invariance, PTL DEF Spec

(* The connection is a read-write lock: the continue thread's alone while    *)
(* the process runs, shared by the owners of a Lock otherwise.               *)
THEOREM Refinement == Spec => SharesTheConnection
<1>1. Init => Connection!Init
  BY ThreadAssumption DEF Init, Connection!Init, Owners
<1>2. ASSUME IInv, [Next]_vars PROVE [Connection!Next]_Connection!vars
  <2> USE <1>2, ThreadAssumption
      DEF IInv, TypeOK, SharedTypeOK, ThreadsTypeOK, Goto, shared, senders,
          link, client, Owners
  <2>1. CASE Resume
    <3>1. Owners = {}
      BY <2>1, NobodyInside DEF Resume
    <3>2. Connection!Acquire(Cont)
      BY <2>1, <3>1 DEF Resume, Locking, Running, Connection!Acquire
    <3> QED
      BY <3>2 DEF Connection!Next
  <2>2. CASE ContinueUnlock
    <3>1. Connection!Release(Cont)
      BY <2>2 DEF ContinueUnlock, Running, Connection!Release
    <3> QED
      BY <3>1 DEF Connection!Next
  <2>3. ASSUME NEW t \in Async, JoinStopped(t) \/ Interrupted(t)
        PROVE  Connection!Next
    <3>0. ~isRunning /\ ~isRunning' /\ t \notin Owners /\ Owners' = Owners \cup {t}
      <4>1. CASE JoinStopped(t)
        <5>1. ~isRunning /\ isRunning' = isRunning /\ t \notin Owners
          BY <4>1 DEF JoinStopped
        <5>2. Owners' = Owners \cup {t}
          BY <4>1 DEF JoinStopped
        <5> QED
          BY <5>1, <5>2
      <4>2. CASE Interrupted(t)
        <5>1. ~isRunning /\ isRunning' = isRunning /\ t \notin Owners
          BY <4>2 DEF Interrupted
        <5>2. Owners' = Owners \cup {t}
          BY <4>2 DEF Interrupted
        <5> QED
          BY <5>1, <5>2
      <4> QED
        BY <2>3, <4>1, <4>2
    <3>1. Connection!AcquireShared(t)
      BY <3>0 DEF Connection!AcquireShared
    <3> QED
      BY <3>1 DEF Connection!Next
  <2>4. ASSUME NEW t \in Async, Release(t) PROVE Connection!Next
    <3>1. Connection!ReleaseShared(t)
      BY <2>4 DEF Release, Connection!ReleaseShared
    <3> QED
      BY <3>1 DEF Connection!Next
  <2>5. CASE \/ SendContinue \/ AwaitAsync \/ ResumeCancelled \/ ResumeFailed
             \/ ReadOutput \/ ReadStop \/ ReadLast \/ ReadDisconnected
             \/ ReadTimeout \/ StoppedOnItsOwn \/ ShouldStop \/ ReadExtraReply
             \/ NotifyAll
    <3>1. UNCHANGED <<isRunning, Owners>>
      BY <2>5 DEF SendContinue, AwaitAsync, ResumeCancelled, ResumeFailed,
                  ReadOutput, ReadStop, ReadLast, ReadDisconnected, ReadTimeout,
                  StoppedOnItsOwn, ShouldStop, ReadExtraReply, NotifyAll, Locking
    <3> QED
      BY <3>1 DEF Connection!vars
  <2>6. ASSUME NEW t \in Async,
               \/ Interrupt(t) \/ Refused(t) \/ AcquireAsync(t) \/ AwaitStop(t)
               \/ SendPacket(t) \/ ReadReply(t) \/ Halt(t) \/ SendAsyncSignal(t)
               \/ Notify(t)
        PROVE  UNCHANGED Connection!vars
    <3>1. UNCHANGED <<isRunning, Owners>>
      BY <2>6 DEF Interrupt, Refused, AcquireAsync, AwaitStop, SendPacket,
                  ReadReply, Halt, SendAsyncSignal, Notify
    <3> QED
      BY <3>1 DEF Connection!vars
  <2>7. CASE \/ SpuriousWakeup \/ StubStep \/ ProcessStops \/ ProcessWrites
             \/ Disconnect \/ UNCHANGED vars
    <3>1. UNCHANGED <<isRunning, pc>>
      BY <2>7 DEF SpuriousWakeup, StubStep, StubResumes, StubAnswers,
                  StubInterrupted, ProcessStops, ProcessWrites, Disconnect,
                  vars
    <3> QED
      BY <3>1 DEF Connection!vars
  <2> QED
    BY <2>1, <2>2, <2>3, <2>4, <2>5, <2>6, <2>7
       DEF Next, ContinueStep, Start, AsyncStep
<1> QED
  BY <1>1, <1>2, Invariance, PTL DEF Spec, SharesTheConnection, Connection!Spec

(* What the refinement is worth: while the process runs nobody else has the  *)
(* connection, since ReadWriteLock keeps its promise.                        *)
THEOREM NoIntrusion == Spec => []Connection!Exclusion
<1>1. Connection!Init => Connection!Exclusion
  BY DEF Connection!Init, Connection!Exclusion
<1>2. Connection!Exclusion /\ [Connection!Next]_Connection!vars =>
        Connection!Exclusion'
  BY DEF Connection!Exclusion, Connection!Next, Connection!vars,
     Connection!Acquire, Connection!AcquireShared, Connection!Release,
     Connection!ReleaseShared
<1> QED
  BY <1>1, <1>2, Refinement, PTL DEF SharesTheConnection, Connection!Spec

-----------------------------------------------------------------------------
(* The conversation with the stub.  Until a read times out, or a stop reply   *)
(* comes too late for ShouldStop() to read it, each side knows what the other *)
(* says next.                                                                 *)

Packets == Resumes \cup {"packet", "ctrl_c"}

(* What is in a queue to the stub: to resume, to answer, to stop. *)
Resumed(q) == \E i \in 1 .. Len(q) : q[i] \in Resumes
Asked(q)   == \E i \in 1 .. Len(q) : q[i] = "packet"
Pressed(q) == \E i \in 1 .. Len(q) : q[i] = "ctrl_c"

PressedAfter(q) ==
  \E i, j \in 1 .. Len(q) : i < j /\ q[i] \in Resumes /\ q[j] = "ctrl_c"

OneRequest(q) ==
  \A i, j \in 1 .. Len(q) : i < j /\ q[i] # "ctrl_c" => q[j] = "ctrl_c"

(* Nothing but one ^C behind the packet that resumes. *)
Single(q) == \A i \in 1 .. Len(q) : q[i] \in Resumes => Len(q) <= i + 1

(* What is in the queue from it: output only, or output and then the reply x *)
(* that ends the run, to which a ^C may have added another.                  *)
Output(q) == \A i \in 1 .. Len(q) : q[i] = "O"
HasInt(q) == \E i \in 1 .. Len(q) : q[i] = "T_int"

Closed(q, x) ==
  \E k \in 1 .. Len(q) :
    /\ \A i \in 1 .. Len(q) : i < k => q[i] = "O"
    /\ q[k] = x
    /\ \A i \in 1 .. Len(q) : k < i => i = k + 1 /\ x # "W" /\ q[i] = "T_int"

InUse(t)    == pc[t] \in {"use", "reply", "release", "notify"}
Alone       == \A t, u \in Async : InUse(t) /\ InUse(u) => t = u
NobodyReads == \A t \in Async : pc[t] # "reply"

ToTheStub ==
  /\ OneRequest(toStub)
  /\ Resumed(toStub) => pc[Cont] = "read" /\ stub = "stopped" /\ fromStub = <<>>
  /\ Asked(toStub) => ~NobodyReads
  /\ stub = "running" => pc[Cont] = "read" /\ ~Resumed(toStub) /\ Output(fromStub)
  /\ stub = "exited" => \/ pc[Cont] = "read"
                        \/ verdict = "exited" /\ pc[Cont] \in {"unlock", "notifyAll", "idle"}

FromTheStub ==
  /\ ~NobodyReads => \/ Asked(toStub) /\ fromStub = <<>>
                     \/ ~Asked(toStub) /\ fromStub = <<"answer">>
  /\ pc[Cont] = "read" =>
       \/ Resumed(toStub)
       \/ stub = "running"
       \/ \E x \in {"T_own", "T_int", "W"} :
            Closed(fromStub, x) /\ (x = "W" <=> stub = "exited")
  /\ pc[Cont] \in {"stop", "extra"} =>
       /\ verdict \in {"T_own", "T_int"} /\ stub = "stopped"
       /\ fromStub = <<>> \/ fromStub = <<"T_int">>
  /\ pc[Cont] \notin {"read", "stop", "extra"} /\ NobodyReads => fromStub = <<>>

(* The ^C of this run, or the reply to it, and whoever pressed it: he is      *)
(* counted until the process has stopped, and nobody else presses it.         *)
Listening == pc[Cont] \in {"read", "stop", "extra"}

Presses ==
  /\ PressedAfter(toStub) => asyncCount > 0
  /\ Listening /\ ~Resumed(toStub) /\ Pressed(toStub) => asyncCount > 0
  /\ Listening /\ HasInt(fromStub) => asyncCount > 0
  /\ Single(toStub)
  /\ Listening /\ ~Resumed(toStub) => Len(toStub) <= 1
  /\ Listening /\ ~Resumed(toStub) /\ HasInt(fromStub) => toStub = <<>>

Conversation == connected /\ Alone /\ ToTheStub /\ FromTheStub /\ Presses

(* The packets are told apart. *)
LEMMA Distinct == "packet" \notin Resumes /\ "ctrl_c" \notin Resumes
BY RequestAssumption DEF Resumes

(* What a packet sent adds to the queue. *)
LEMMA Sent ==
  ASSUME NEW q \in Seq(Packets), NEW p \in Packets
  PROVE  /\ Resumed(Append(q, p)) <=> Resumed(q) \/ p \in Resumes
         /\ Asked(Append(q, p)) <=> Asked(q) \/ p = "packet"
         /\ Pressed(Append(q, p)) <=> Pressed(q) \/ p = "ctrl_c"
         /\ PressedAfter(Append(q, p)) <=>
              PressedAfter(q) \/ (Resumed(q) /\ p = "ctrl_c")
         /\ OneRequest(q) /\ (p # "ctrl_c" => ~Resumed(q) /\ ~Asked(q))
              => OneRequest(Append(q, p))
         /\ OneRequest(q) /\ ~PressedAfter(q) => Single(Append(q, p))
<1> DEFINE r == Append(q, p)
<1>1. /\ Len(q) \in Nat /\ Len(r) = Len(q) + 1 /\ r[Len(q) + 1] = p
      /\ \A i \in 1 .. Len(q) : r[i] = q[i] /\ q[i] \in Packets
  OBVIOUS
<1> HIDE DEF r
<1>2. /\ Resumed(r) <=> Resumed(q) \/ p \in Resumes
      /\ Asked(r) <=> Asked(q) \/ p = "packet"
      /\ Pressed(r) <=> Pressed(q) \/ p = "ctrl_c"
  <2>1. \A i \in 1 .. Len(r) : i \in 1 .. Len(q) \/ i = Len(q) + 1
    BY <1>1
  <2> QED
    BY <1>1, <2>1 DEF Resumed, Asked, Pressed
<1>3. PressedAfter(r) <=> PressedAfter(q) \/ (Resumed(q) /\ p = "ctrl_c")
  <2>1. ASSUME PressedAfter(r) PROVE PressedAfter(q) \/ (Resumed(q) /\ p = "ctrl_c")
    BY <1>1, <2>1 DEF PressedAfter, Resumed
  <2>2. PressedAfter(q) => PressedAfter(r)
    BY <1>1 DEF PressedAfter
  <2>3. Resumed(q) /\ p = "ctrl_c" => PressedAfter(r)
    BY <1>1 DEF PressedAfter, Resumed
  <2> QED
    BY <2>1, <2>2, <2>3
<1>4. OneRequest(q) /\ (p # "ctrl_c" => ~Resumed(q) /\ ~Asked(q)) => OneRequest(r)
  BY <1>1 DEF OneRequest, Resumed, Asked, Packets
<1>5. ASSUME OneRequest(q), ~PressedAfter(q) PROVE Single(r)
  <2>1. ASSUME NEW i \in 1 .. Len(q), q[i] \in Resumes PROVE i = Len(q)
    <3>1. ASSUME i # Len(q) PROVE FALSE
      <4>1. i < Len(q) /\ Len(q) \in 1 .. Len(q)
        BY <1>1, <3>1
      <4>2. q[i] # "ctrl_c"
        BY <2>1, Distinct
      <4>3. q[Len(q)] = "ctrl_c"
        BY <1>5, <4>1, <4>2 DEF OneRequest
      <4> QED
        BY <1>5, <2>1, <4>1, <4>3 DEF PressedAfter
    <3> QED
      BY <3>1
  <2>2. ASSUME NEW i \in 1 .. Len(r), r[i] \in Resumes PROVE Len(r) <= i + 1
    <3>1. i \in 1 .. Len(q) \/ i = Len(r)
      BY <1>1
    <3>2. i \in 1 .. Len(q) => i = Len(q)
      BY <1>1, <2>1, <2>2
    <3> QED
      BY <1>1, <3>1, <3>2
  <2> QED
    BY <2>2 DEF Single
<1> QED
  BY <1>2, <1>3, <1>4, <1>5 DEF r

(* What the stub takes was in the queue, before all that is left there. *)
LEMMA Taken ==
  ASSUME NEW q \in Seq(Packets), q # <<>>
  PROVE  /\ Resumed(q) <=> Resumed(Tail(q)) \/ Head(q) \in Resumes
         /\ Asked(q) <=> Asked(Tail(q)) \/ Head(q) = "packet"
         /\ Pressed(q) <=> Pressed(Tail(q)) \/ Head(q) = "ctrl_c"
         /\ PressedAfter(q) <=>
              PressedAfter(Tail(q)) \/ (Head(q) \in Resumes /\ Pressed(Tail(q)))
         /\ OneRequest(q) =>
              /\ OneRequest(Tail(q))
              /\ Head(q) # "ctrl_c" => ~Resumed(Tail(q)) /\ ~Asked(Tail(q))
         /\ Single(q) =>
              /\ Single(Tail(q))
              /\ Head(q) \in Resumes => Len(Tail(q)) <= 1
         /\ Len(q) <= 1 => Tail(q) = <<>>
<1> DEFINE r == Tail(q)
<1>1. /\ Len(q) \in Nat \ {0} /\ Len(r) = Len(q) - 1 /\ q[1] = Head(q)
      /\ \A i \in 1 .. Len(r) : r[i] = q[i + 1] /\ i + 1 \in 1 .. Len(q)
      /\ \A i \in 1 .. Len(q) : i = 1 \/ (i - 1 \in 1 .. Len(r) /\ q[i] = r[i - 1])
      /\ \A i \in 1 .. Len(q) : q[i] \in Packets
  OBVIOUS
<1> HIDE DEF r
<1>2. /\ Resumed(q) <=> Resumed(r) \/ Head(q) \in Resumes
      /\ Asked(q) <=> Asked(r) \/ Head(q) = "packet"
      /\ Pressed(q) <=> Pressed(r) \/ Head(q) = "ctrl_c"
  BY <1>1 DEF Resumed, Asked, Pressed
<1>3. PressedAfter(q) <=> PressedAfter(r) \/ (Head(q) \in Resumes /\ Pressed(r))
  <2>1. ASSUME PressedAfter(q)
        PROVE  PressedAfter(r) \/ (Head(q) \in Resumes /\ Pressed(r))
    <3>1. PICK i \in 1 .. Len(q), j \in 1 .. Len(q) :
            i < j /\ q[i] \in Resumes /\ q[j] = "ctrl_c"
      BY <2>1 DEF PressedAfter
    <3>2. j - 1 \in 1 .. Len(r) /\ r[j - 1] = "ctrl_c"
      BY <1>1, <3>1
    <3>3. CASE i = 1
      BY <1>1, <3>1, <3>2, <3>3 DEF Pressed
    <3>4. CASE i # 1
      <4>1. i - 1 \in 1 .. Len(r) /\ r[i - 1] \in Resumes /\ i - 1 < j - 1
        BY <1>1, <3>1, <3>4
      <4> QED
        BY <3>2, <4>1 DEF PressedAfter
    <3> QED
      BY <3>3, <3>4
  <2>2. PressedAfter(r) => PressedAfter(q)
    BY <1>1 DEF PressedAfter
  <2>3. Head(q) \in Resumes /\ Pressed(r) => PressedAfter(q)
    BY <1>1 DEF PressedAfter, Pressed
  <2> QED
    BY <2>1, <2>2, <2>3
<1>4. ASSUME OneRequest(q)
      PROVE  /\ OneRequest(r)
             /\ Head(q) # "ctrl_c" => ~Resumed(r) /\ ~Asked(r)
  <2>1. OneRequest(r)
    BY <1>1, <1>4 DEF OneRequest
  <2>2. ASSUME Head(q) # "ctrl_c", NEW i \in 1 .. Len(r) PROVE r[i] = "ctrl_c"
    <3>1. 1 \in 1 .. Len(q) /\ i + 1 \in 1 .. Len(q) /\ 1 < i + 1
      BY <1>1
    <3>2. q[1] # "ctrl_c"
      BY <1>1, <2>2
    <3>3. q[i + 1] = "ctrl_c"
      BY <1>4, <3>1, <3>2 DEF OneRequest
    <3> QED
      BY <1>1, <3>3
  <2> QED
    BY <2>1, <2>2, Distinct DEF Resumed, Asked
<1>5. Single(q) => Single(r) /\ (Head(q) \in Resumes => Len(r) <= 1)
  <2>1. ASSUME Single(q), NEW i \in 1 .. Len(r), r[i] \in Resumes
        PROVE  Len(r) <= i + 1
    <3>1. Len(q) <= (i + 1) + 1
      BY <1>1, <2>1 DEF Single
    <3> QED
      BY <1>1, <3>1
  <2>2. Single(q) /\ Head(q) \in Resumes => Len(r) <= 1
    <3>1. 1 \in 1 .. Len(q)
      BY <1>1
    <3>2. Single(q) /\ q[1] \in Resumes => Len(q) <= 1 + 1
      BY <3>1 DEF Single
    <3> QED
      BY <1>1, <3>2
  <2> QED
    BY <2>1, <2>2 DEF Single
<1>6. Len(q) <= 1 => Tail(q) = <<>>
  OBVIOUS
<1> QED
  BY <1>2, <1>3, <1>4, <1>5, <1>6 DEF r

(* What a process that writes, and then stops, leaves in the other queue. *)
LEMMA Answered ==
  ASSUME NEW q \in Seq(Replies), Output(q)
  PROVE  /\ Output(q \o <<"O">>)
         /\ \A x \in Replies : Closed(q \o <<x>>, x)
         /\ Closed(q \o <<"T_int", "T_int">>, "T_int")
<1>1. ASSUME NEW x \in Replies
      PROVE  Closed(q \o <<x>>, x) /\ (x = "O" => Output(q \o <<x>>))
  <2> DEFINE r == q \o <<x>>
  <2>1. Len(q) \in Nat /\ Len(r) = Len(q) + 1
    OBVIOUS
  <2>2. r[Len(q) + 1] = x
    OBVIOUS
  <2>3. \A i \in 1 .. Len(q) : r[i] = q[i]
    OBVIOUS
  <2> HIDE DEF r
  <2>4. \A i \in 1 .. Len(q) : r[i] = "O"
    BY <2>3 DEF Output
  <2>5. \A i \in 1 .. Len(r) : i \in 1 .. Len(q) \/ i = Len(q) + 1
    BY <2>1
  <2>6. Len(q) + 1 \in 1 .. Len(r)
    BY <2>1
  <2>7. \A i \in 1 .. Len(r) : ~(Len(q) + 1 < i) /\ (i < Len(q) + 1 => r[i] = "O")
    BY <2>1, <2>4, <2>5
  <2>8. Closed(r, x)
    BY <2>2, <2>6, <2>7 DEF Closed
  <2>9. x = "O" => Output(r)
    BY <2>2, <2>4, <2>5 DEF Output
  <2> QED
    BY <2>8, <2>9 DEF r
<1>2. Closed(q \o <<"T_int", "T_int">>, "T_int")
  <2> DEFINE r == q \o <<"T_int", "T_int">>
  <2>1. Len(q) \in Nat /\ Len(r) = Len(q) + 2
    OBVIOUS
  <2>2. r[Len(q) + 1] = "T_int" /\ r[Len(q) + 2] = "T_int"
    OBVIOUS
  <2>3. \A i \in 1 .. Len(q) : r[i] = q[i]
    OBVIOUS
  <2> HIDE DEF r
  <2>4. \A i \in 1 .. Len(q) : r[i] = "O"
    BY <2>3 DEF Output
  <2>5. \A i \in 1 .. Len(r) : i \in 1 .. Len(q) \/ i = Len(q) + 1 \/ i = Len(q) + 2
    BY <2>1
  <2>6. Len(q) + 1 \in 1 .. Len(r)
    BY <2>1
  <2>7. \A i \in 1 .. Len(r) :
          /\ i < Len(q) + 1 => r[i] = "O"
          /\ Len(q) + 1 < i => i = (Len(q) + 1) + 1 /\ r[i] = "T_int"
    BY <2>1, <2>2, <2>4, <2>5
  <2>8. Closed(r, "T_int")
    BY <2>2, <2>6, <2>7 DEF Closed
  <2> QED
    BY <2>8 DEF r
<1> QED
  BY <1>1, <1>2 DEF Replies

(* What is read from it: output, and then the one reply that ends the run.   *)
LEMMA ReadOff ==
  ASSUME NEW q \in Seq(Replies), q # <<>>
  PROVE  /\ Output(q) => Head(q) = "O" /\ Output(Tail(q))
         /\ \A x \in {"T_own", "T_int", "W"} : Closed(q, x) =>
              \/ Head(q) = "O" /\ Closed(Tail(q), x)
              \/ /\ Head(q) = x
                 /\ Tail(q) = <<>> \/ (x # "W" /\ Tail(q) = <<"T_int">>)
<1> DEFINE r == Tail(q)
<1>1. /\ Len(q) \in Nat \ {0} /\ Len(r) = Len(q) - 1 /\ q[1] = Head(q)
      /\ \A i \in 1 .. Len(r) : r[i] = q[i + 1] /\ i + 1 \in 1 .. Len(q)
      /\ r \in Seq(Replies)
  OBVIOUS
<1> HIDE DEF r
<1>2. /\ Len(r) = 0 => r = <<>>
      /\ Len(r) = 1 => r = <<r[1]>>
  <2>1. ASSUME Len(r) = 1 PROVE r = <<r[1]>>
    <3> DEFINE u == <<r[1]>>
    <3>1. u \in Seq(Replies) /\ Len(u) = 1 /\ u[1] = r[1]
      BY <1>1, <2>1
    <3> HIDE DEF u
    <3>2. r = u
      BY <1>1, <2>1, <3>1, SeqEqual
    <3> QED
      BY <3>2 DEF u
  <2> QED
    BY <1>1, <2>1
<1>3. Output(q) => Head(q) = "O" /\ Output(r)
  BY <1>1 DEF Output
<1>4. ASSUME NEW x \in {"T_own", "T_int", "W"}, Closed(q, x)
      PROVE  \/ Head(q) = "O" /\ Closed(r, x)
             \/ /\ Head(q) = x
                /\ r = <<>> \/ (x # "W" /\ r = <<"T_int">>)
  <2>1. PICK k \in 1 .. Len(q) :
          /\ \A i \in 1 .. Len(q) : i < k => q[i] = "O"
          /\ q[k] = x
          /\ \A i \in 1 .. Len(q) : k < i => i = k + 1 /\ x # "W" /\ q[i] = "T_int"
    BY <1>4 DEF Closed
  <2>2. CASE k = 1
    <3>1. Len(r) = 0 \/ (Len(r) = 1 /\ x # "W" /\ r[1] = "T_int")
      <4>1. CASE Len(r) >= 2
        <5>1. 3 \in 1 .. Len(q) /\ k < 3 /\ 3 # k + 1
          BY <1>1, <2>2, <4>1
        <5> QED
          BY <2>1, <5>1
      <4>2. CASE Len(r) = 1
        <5>1. 2 \in 1 .. Len(q) /\ r[1] = q[2] /\ k < 2
          BY <1>1, <2>2, <4>2
        <5> QED
          BY <2>1, <4>2, <5>1
      <4> QED
        BY <1>1, <4>1, <4>2
    <3> QED
      BY <1>1, <1>2, <2>1, <2>2, <3>1
  <2>3. CASE k # 1
    <3>1. k - 1 \in 1 .. Len(r) /\ r[k - 1] = x /\ Head(q) = "O"
      BY <1>1, <2>1, <2>3
    <3>2. \A i \in 1 .. Len(r) : i < k - 1 => r[i] = "O"
      BY <1>1, <2>1
    <3>3. \A i \in 1 .. Len(r) :
            k - 1 < i => i = (k - 1) + 1 /\ x # "W" /\ r[i] = "T_int"
      BY <1>1, <2>1
    <3> QED
      BY <3>1, <3>2, <3>3 DEF Closed
  <2> QED
    BY <2>2, <2>3
<1> QED
  BY <1>3, <1>4 DEF r

(* The reply to a ^C, where there is one. *)
LEMMA Ints ==
  ASSUME NEW q \in Seq(Replies)
  PROVE  /\ q = <<>> => ~HasInt(q)
         /\ q # <<>> /\ HasInt(Tail(q)) => HasInt(q)
         /\ \A x \in Replies : HasInt(q \o <<x>>) => HasInt(q) \/ x = "T_int"
         /\ Output(q) => ~HasInt(q)
         /\ Closed(q, "T_int") => HasInt(q)
<1>1. ASSUME NEW x \in Replies, HasInt(q \o <<x>>) PROVE HasInt(q) \/ x = "T_int"
  <2>1. PICK i \in 1 .. Len(q \o <<x>>) : (q \o <<x>>)[i] = "T_int"
    BY <1>1 DEF HasInt
  <2>2. i \in 1 .. Len(q) \/ i = Len(q) + 1
    BY <2>1
  <2>3. /\ i \in 1 .. Len(q) => (q \o <<x>>)[i] = q[i]
        /\ i = Len(q) + 1 => (q \o <<x>>)[i] = x
    OBVIOUS
  <2> QED
    BY <2>1, <2>2, <2>3 DEF HasInt
<1>2. ASSUME q # <<>>, HasInt(Tail(q)) PROVE HasInt(q)
  <2>1. PICK i \in 1 .. Len(Tail(q)) : Tail(q)[i] = "T_int"
    BY <1>2 DEF HasInt
  <2>2. Tail(q)[i] = q[i + 1] /\ i + 1 \in 1 .. Len(q)
    BY <1>2
  <2> QED
    BY <2>1, <2>2 DEF HasInt
<1>3. q = <<>> => ~HasInt(q)
  BY DEF HasInt
<1>4. Output(q) => ~HasInt(q)
  BY DEF Output, HasInt
<1>5. Closed(q, "T_int") => HasInt(q)
  BY DEF Closed, HasInt
<1> QED
  BY <1>1, <1>2, <1>3, <1>4, <1>5

(* A ^C that finds the process stopped adds its reply to the one there is. *)
LEMMA AnsweredLate ==
  ASSUME NEW q \in Seq(Replies), Closed(q, "T_own"), ~HasInt(q)
  PROVE  Closed(q \o <<"T_int">>, "T_own")
<1> DEFINE r == q \o <<"T_int">>
<1>1. PICK k \in 1 .. Len(q) :
        /\ \A i \in 1 .. Len(q) : i < k => q[i] = "O"
        /\ q[k] = "T_own"
        /\ \A i \in 1 .. Len(q) : k < i => q[i] = "T_int"
  BY DEF Closed
<1>2. Len(q) \in Nat /\ Len(r) = Len(q) + 1
  OBVIOUS
<1>3. r[Len(q) + 1] = "T_int"
  OBVIOUS
<1>4. \A i \in 1 .. Len(q) : r[i] = q[i]
  OBVIOUS
<1>5. k = Len(q)
  <2>1. ASSUME k < Len(q) PROVE FALSE
    <3>1. Len(q) \in 1 .. Len(q)
      BY <1>1, <1>2
    <3> QED
      BY <1>1, <2>1, <3>1 DEF HasInt
  <2> QED
    BY <1>1, <1>2, <2>1
<1> HIDE DEF r
<1>6. k \in 1 .. Len(r) /\ r[k] = "T_own"
  BY <1>1, <1>2, <1>4
<1>7. \A i \in 1 .. Len(r) :
        (i < k => r[i] = "O") /\ (k < i => i = k + 1 /\ r[i] = "T_int")
  BY <1>1, <1>2, <1>3, <1>4, <1>5
<1>8. Closed(r, "T_own")
  <2>1. \A i \in 1 .. Len(r) : i < k => r[i] = "O"
    BY <1>7
  <2>2. \A i \in 1 .. Len(r) : k < i => i = k + 1 /\ "T_own" # "W" /\ r[i] = "T_int"
    BY <1>7
  <2> QED
    BY <1>6, <2>1, <2>2, Zenon DEF Closed
<1> QED
  BY <1>8 DEF r

(* The client runs its process or serves those inside a Lock, never both. *)
LEMMA Apart ==
  ASSUME IInv, Conversation
  PROVE  /\ pc[Cont] \in {"read", "stop", "extra", "unlock"} => NobodyReads
         /\ \A t \in Async : t \in Owners =>
              /\ pc[Cont] \notin {"read", "stop", "extra", "unlock"}
              /\ ~Resumed(toStub) /\ ~PressedAfter(toStub) /\ stub # "running"
<1>1. \A t \in Async : pc[t] = "reply" => t \in Owners
  BY DEF Owners
<1>2. PressedAfter(toStub) => Resumed(toStub)
  BY DEF PressedAfter, Resumed
<1> QED
  BY <1>1, <1>2 DEF IInv, Running, Exclusive, NobodyReads, Conversation, ToTheStub

(* At first nothing has been said. *)
LEMMA SilentAtFirst == Init => Conversation
<1> SUFFICES ASSUME Init PROVE Conversation
  OBVIOUS
<1>1. pc[Cont] = "idle" /\ \A t \in Async : pc[t] = "idle"
  BY DEF Init
<1>2. connected /\ stub = "stopped" /\ toStub = <<>> /\ fromStub = <<>>
  BY DEF Init
<1>3. /\ OneRequest(<<>>) /\ ~Resumed(<<>>) /\ ~Asked(<<>>) /\ ~PressedAfter(<<>>)
      /\ Single(<<>>)
  BY DEF OneRequest, Resumed, Asked, PressedAfter, Single
<1> QED
  BY <1>1, <1>2, <1>3 DEF Conversation, Alone, InUse, NobodyReads, ToTheStub,
                          FromTheStub, Presses, Listening

(* Steps that say nothing: of the continue thread, ... *)
LEMMA SilentContinueSteps ==
  ASSUME IInv, Conversation,
         \/ SendContinue \/ AwaitAsync \/ ResumeCancelled \/ ResumeFailed
         \/ StoppedOnItsOwn \/ ShouldStop \/ ContinueUnlock \/ NotifyAll
  PROVE  Conversation'
<1> USE ThreadAssumption DEF Goto, Locking, shared, senders, link
<1>1. /\ UNCHANGED <<connected, stub, toStub, fromStub, asyncCount>>
      /\ \A t \in Async : pc'[t] = pc[t]
      /\ ~ResumeFailed
  BY DEF SendContinue, AwaitAsync, ResumeCancelled, ResumeFailed, StoppedOnItsOwn,
         ShouldStop, ContinueUnlock, NotifyAll, Conversation, IInv, TypeOK,
         ThreadsTypeOK
<1>2. Alone' /\ NobodyReads' = NobodyReads
  BY <1>1 DEF Conversation, Alone, InUse, NobodyReads
<1>3. pc \in [Async \cup {Cont} -> Calling \cup Sending]
  BY DEF IInv, TypeOK, ThreadsTypeOK
<1>4. CASE SendContinue \/ ResumeCancelled \/ ContinueUnlock \/ NotifyAll
  <2>1. /\ pc[Cont] \notin {"read", "stop", "extra"}
        /\ pc'[Cont] \notin {"read", "stop", "extra"}
    BY <1>3, <1>4 DEF SendContinue, ResumeCancelled, ContinueUnlock, NotifyAll
  <2>2. stub = "exited" =>
          verdict' = "exited" /\ pc'[Cont] \in {"unlock", "notifyAll", "idle"}
    BY <1>3, <1>4 DEF SendContinue, ResumeCancelled, ContinueUnlock, NotifyAll,
                      Conversation, ToTheStub
  <2> QED
    BY <1>1, <1>2, <2>1, <2>2
       DEF Conversation, ToTheStub, FromTheStub, Presses, Listening
<1>5. CASE AwaitAsync
  BY <1>1, <1>2, <1>5 DEF AwaitAsync, Conversation, ToTheStub, FromTheStub,
                          Presses, Listening
<1>6. CASE StoppedOnItsOwn \/ ShouldStop
  <2>1. /\ pc[Cont] = "stop" /\ stub = "stopped" /\ ~Resumed(toStub)
        /\ fromStub = <<>> \/ fromStub = <<"T_int">>
        /\ verdict \in {"T_own", "T_int"} /\ NobodyReads
    BY <1>6, Apart DEF StoppedOnItsOwn, ShouldStop, Conversation, ToTheStub,
                       FromTheStub
  <2>2. fromStub = <<"T_int">> => asyncCount > 0
    <3>1. HasInt(<<"T_int">>)
      BY DEF HasInt
    <3> QED
      BY <2>1, <3>1 DEF Conversation, Presses, Listening
  <2>3. \/ pc'[Cont] = "unlock" /\ fromStub = <<>>
        \/ pc'[Cont] = "extra" /\ UNCHANGED verdict
    BY <1>3, <1>6, <2>1, <2>2
       DEF StoppedOnItsOwn, ShouldStop, IInv, TypeOK, SharedTypeOK
  <2>4. ToTheStub' /\ FromTheStub'
    BY <1>1, <1>2, <2>1, <2>3 DEF Conversation, ToTheStub, FromTheStub
  <2>5. Presses'
    BY <1>1, <2>1, <2>3 DEF Conversation, Presses, Listening
  <2> QED
    BY <1>1, <1>2, <2>4, <2>5 DEF Conversation
<1> QED
  BY <1>1, <1>4, <1>5, <1>6

(* ... and of the others. *)
LEMMA SilentAsyncSteps ==
  ASSUME IInv, Conversation, NEW t \in Async,
         \/ JoinStopped(t) \/ Refused(t) \/ AcquireAsync(t) \/ AwaitStop(t)
         \/ Interrupted(t) \/ Halt(t) \/ SendAsyncSignal(t) \/ Release(t)
         \/ Notify(t)
  PROVE  Conversation'
<1> USE ThreadAssumption DEF Goto, shared, senders, link
<1>1. UNCHANGED <<connected, stub, toStub, fromStub, verdict>>
  BY DEF JoinStopped, Refused, AcquireAsync, AwaitStop, Interrupted, Halt,
         SendAsyncSignal, Release, Notify
<1>2. pc \in [Async \cup {Cont} -> Calling \cup Sending]
  BY DEF IInv, TypeOK, ThreadsTypeOK
<1>3. /\ pc'[Cont] = pc[Cont] /\ pc[t] # "reply" /\ pc'[t] # "reply"
      /\ \A u \in Async : u # t => pc'[u] = pc[u]
      /\ InUse(t)' => InUse(t) \/ AcquireAsync(t)
  BY <1>2 DEF JoinStopped, Refused, AcquireAsync, AwaitStop, Interrupted, Halt,
              SendAsyncSignal, Release, Notify, InUse
<1>4. NobodyReads' = NobodyReads
  BY <1>3 DEF NobodyReads
<1>5. Alone'
  <2>1. AcquireAsync(t) => \A u \in Async : ~InUse(u)
    BY DEF AcquireAsync, AsyncMutexFree, InUse
  <2>2. \A u \in Async : u # t => (InUse(u)' <=> InUse(u))
    BY <1>3 DEF InUse
  <2> QED
    BY <1>3, <2>1, <2>2 DEF Conversation, Alone
<1>6. ToTheStub' /\ FromTheStub'
  BY <1>1, <1>3, <1>4 DEF Conversation, ToTheStub, FromTheStub
<1>7. Presses'
  <2>1. CASE Release(t)
    <3>1. t \in Owners
      BY <2>1 DEF Release, Owners
    <3>2. pc[Cont] \notin {"read", "stop", "extra"} /\ ~PressedAfter(toStub)
      BY <3>1, Apart
    <3>3. ~Listening'
      BY <1>3, <3>2 DEF Listening
    <3>4. Single(toStub)
      BY DEF Conversation, Presses
    <3> QED
      BY <1>1, <3>2, <3>3, <3>4 DEF Presses
  <2>2. CASE ~Release(t)
    <3>1. asyncCount' = asyncCount \/ asyncCount' = asyncCount + 1
      BY <2>2 DEF JoinStopped, Refused, AcquireAsync, AwaitStop, Interrupted,
                  Halt, SendAsyncSignal, Notify
    <3>2. asyncCount > 0 => asyncCount' > 0
      BY <3>1 DEF IInv, TypeOK, SharedTypeOK
    <3> QED
      BY <1>1, <1>3, <3>2 DEF Conversation, Presses, Listening
  <2> QED
    BY <2>1, <2>2
<1> QED
  BY <1>1, <1>5, <1>6, <1>7 DEF Conversation

(* The continue thread resumes the process when all is said. *)
LEMMA ResumeSays ==
  ASSUME IInv, Conversation, Resume
  PROVE  Conversation'
<1> USE ThreadAssumption DEF Goto, Locking, senders
<1>1. /\ pc[Cont] \in {"start", "resume"} /\ asyncCount = 0 /\ pc'[Cont] = "read"
      /\ \A t \in Async : pc'[t] = pc[t]
      /\ UNCHANGED <<connected, stub, fromStub, asyncCount>>
  BY DEF Resume, IInv, TypeOK, ThreadsTypeOK
<1>2. Owners = {} /\ NobodyReads
  BY <1>1, NobodyInside DEF IInv, NobodyReads, Owners
<1>3. /\ ~Resumed(toStub) /\ ~Asked(toStub) /\ fromStub = <<>> /\ stub = "stopped"
  BY <1>1, <1>2 DEF Conversation, ToTheStub, FromTheStub, IInv, TypeOK, LinkTypeOK
<1>4. /\ toStub' = Append(toStub, continuePacket) /\ continuePacket \in Resumes
      /\ toStub \in Seq(Packets) /\ continuePacket \in Packets
  BY DEF Resume, IInv, TypeOK, SharedTypeOK, LinkTypeOK, Packets
<1>5. /\ Resumed(toStub') /\ ~Asked(toStub') /\ OneRequest(toStub')
      /\ ~PressedAfter(toStub') /\ Single(toStub')
  <2>1. continuePacket \notin {"packet", "ctrl_c"}
    BY <1>4, Distinct
  <2>2. ~PressedAfter(toStub)
    BY <1>3 DEF PressedAfter, Resumed
  <2> QED
    BY <1>3, <1>4, <2>1, <2>2, Sent DEF Conversation, ToTheStub
<1>6. Alone' /\ NobodyReads'
  BY <1>1, <1>2 DEF Conversation, Alone, InUse, NobodyReads
<1>7. ~HasInt(<<>>)
  BY DEF HasInt
<1> QED
  BY <1>1, <1>3, <1>5, <1>6, <1>7
     DEF Conversation, ToTheStub, FromTheStub, Presses, Listening

(* It reads what the process wrote, and how it stopped. *)
LEMMA ContinueReads ==
  ASSUME IInv, Conversation,
         ReadOutput \/ ReadStop \/ ReadLast \/ ReadDisconnected
  PROVE  Conversation'
<1> USE ThreadAssumption DEF Goto, senders, shared, link, Received
<1>1. /\ pc[Cont] = "read" /\ UNCHANGED <<connected, stub, toStub, asyncCount>>
      /\ \A t \in Async : pc'[t] = pc[t]
  BY DEF ReadOutput, ReadStop, ReadLast, ReadDisconnected, IInv, TypeOK,
         ThreadsTypeOK
<1>2. ~ReadDisconnected
  BY DEF ReadDisconnected, Conversation
<1>3. fromStub # <<>> /\ fromStub' = Tail(fromStub) /\ ~Resumed(toStub)
  BY <1>2 DEF ReadOutput, ReadStop, ReadLast, Conversation, ToTheStub
<1>4. fromStub \in Seq(Replies)
  BY DEF IInv, TypeOK, LinkTypeOK
<1>5. NobodyReads /\ NobodyReads' /\ Alone'
  BY <1>1, Apart DEF Conversation, Alone, InUse, NobodyReads
<1>6. CASE Head(fromStub) = "O"
  <2>1. pc'[Cont] = "read" /\ UNCHANGED verdict
    BY <1>1, <1>2, <1>6 DEF ReadOutput, ReadStop, ReadLast, IInv, TypeOK,
                            ThreadsTypeOK
  <2>2. Output(fromStub) => Output(fromStub')
    BY <1>3, <1>4, ReadOff
  <2>3. \A x \in {"T_own", "T_int", "W"} : Closed(fromStub, x) => Closed(fromStub', x)
    BY <1>3, <1>4, <1>6, ReadOff
  <2>4. HasInt(fromStub') => HasInt(fromStub)
    BY <1>3, <1>4, Ints
  <2>5. ToTheStub' /\ Presses'
    BY <1>1, <1>3, <1>5, <2>1, <2>2, <2>4
       DEF Conversation, ToTheStub, Presses, Listening
  <2>6. FromTheStub'
    BY <1>1, <1>3, <1>5, <2>1, <2>3 DEF Conversation, FromTheStub
  <2> QED
    BY <1>1, <1>5, <2>5, <2>6 DEF Conversation
<1>7. CASE Head(fromStub) # "O"
  <2>1. stub # "running"
    BY <1>3, <1>4, <1>7, ReadOff DEF Conversation, ToTheStub
  <2>2. PICK x \in {"T_own", "T_int", "W"} :
          Closed(fromStub, x) /\ (x = "W" <=> stub = "exited")
    BY <1>1, <1>3, <2>1 DEF Conversation, FromTheStub
  <2>3. /\ Head(fromStub) = x
        /\ fromStub' = <<>> \/ (x # "W" /\ fromStub' = <<"T_int">>)
    BY <1>3, <1>4, <1>7, <2>2, ReadOff
  <2>4. HasInt(fromStub') => HasInt(fromStub)
    BY <1>3, <1>4, Ints
  <2>5. \/ x = "W" /\ verdict' = "exited" /\ pc'[Cont] = "unlock"
        \/ x # "W" /\ verdict' = x /\ pc'[Cont] = "stop"
    BY <1>2, <1>7, <2>3 DEF ReadOutput, ReadStop, ReadLast, IInv, TypeOK,
                            ThreadsTypeOK
  <2>6. stub \in {"stopped", "exited"}
    BY <2>1 DEF IInv, TypeOK, LinkTypeOK
  <2>7. ~PressedAfter(toStub)
    BY <1>3 DEF PressedAfter, Resumed
  <2>8. ToTheStub'
    BY <1>1, <1>3, <1>5, <2>1, <2>2, <2>5 DEF Conversation, ToTheStub
  <2>9. FromTheStub'
    BY <1>1, <1>5, <2>2, <2>3, <2>5, <2>6 DEF FromTheStub
  <2>10. Presses'
    BY <1>1, <1>3, <2>4, <2>5, <2>7 DEF Conversation, Presses, Listening
  <2> QED
    BY <1>1, <1>5, <2>8, <2>9, <2>10 DEF Conversation
<1> QED
  BY <1>6, <1>7

(* An extra stop reply is read at once. *)
LEMMA ExtraReplyRead ==
  ASSUME IInv, Conversation, ReadExtraReply
  PROVE  Conversation'
<1> USE ThreadAssumption DEF Goto, senders, shared
<1>1. /\ pc[Cont] = "extra" /\ pc'[Cont] = "unlock"
      /\ UNCHANGED <<connected, stub, toStub, asyncCount>>
      /\ \A t \in Async : pc'[t] = pc[t]
  BY DEF ReadExtraReply, IInv, TypeOK, ThreadsTypeOK
<1>2. /\ stub = "stopped" /\ ~Resumed(toStub) /\ ~PressedAfter(toStub)
      /\ fromStub = <<>> \/ fromStub = <<"T_int">>
  BY <1>1 DEF Conversation, ToTheStub, FromTheStub, PressedAfter, Resumed
<1>3. fromStub' = <<>>
  <2>1. Tail(<<"T_int">>) = <<>>
    OBVIOUS
  <2> QED
    BY <1>2, <2>1, Zenon DEF ReadExtraReply
<1>4. NobodyReads /\ NobodyReads' /\ Alone'
  BY <1>1, Apart DEF Conversation, Alone, InUse, NobodyReads
<1> QED
  BY <1>1, <1>2, <1>3, <1>4
     DEF Conversation, ToTheStub, FromTheStub, Presses, Listening

(* The first thread that wants to stop the process presses ^C. *)
LEMMA InterruptSays ==
  ASSUME IInv, Conversation, NEW t \in Async, Interrupt(t)
  PROVE  Conversation'
<1> USE ThreadAssumption DEF Goto
<1>1. /\ pc[t] = "idle" /\ pc' = [pc EXCEPT ![t] = "interrupted"]
      /\ UNCHANGED <<connected, stub, fromStub, verdict>>
      /\ asyncCount' = asyncCount + 1
      /\ UNCHANGED toStub \/ toStub' = Append(toStub, "ctrl_c")
  BY DEF Interrupt
<1>2. /\ pc'[Cont] = pc[Cont] /\ pc'[t] = "interrupted"
      /\ \A u \in Async : u # t => pc'[u] = pc[u]
  BY <1>1 DEF IInv, TypeOK, ThreadsTypeOK
<1>3. Alone' /\ NobodyReads' = NobodyReads
  BY <1>1, <1>2 DEF Conversation, Alone, InUse, NobodyReads
<1>4. asyncCount' > 0
  BY <1>1 DEF IInv, TypeOK, SharedTypeOK
<1>5. /\ Resumed(toStub') <=> Resumed(toStub)
      /\ Asked(toStub') <=> Asked(toStub)
      /\ OneRequest(toStub) => OneRequest(toStub')
  <2>1. toStub \in Seq(Packets) /\ "ctrl_c" \in Packets /\ "ctrl_c" \notin Resumes
    BY Distinct DEF IInv, TypeOK, LinkTypeOK, Packets
  <2>2. CASE toStub' = Append(toStub, "ctrl_c")
    <3>1. /\ Resumed(toStub') <=> Resumed(toStub) \/ "ctrl_c" \in Resumes
          /\ Asked(toStub') <=> Asked(toStub) \/ "ctrl_c" = "packet"
          /\ OneRequest(toStub) => OneRequest(toStub')
      BY <2>1, <2>2, Sent
    <3> QED
      BY <2>1, <3>1
  <2> QED
    BY <1>1, <2>2
<1>6. Presses'
  <2>1. CASE UNCHANGED toStub
    BY <1>1, <1>2, <1>4, <2>1 DEF Conversation, Presses, Listening
  <2>2. CASE toStub' # toStub
    <3>1. /\ asyncCount = 0 /\ toStub' = Append(toStub, "ctrl_c")
          /\ toStub \in Seq(Packets) /\ "ctrl_c" \in Packets
      BY <2>2 DEF Interrupt, IInv, TypeOK, LinkTypeOK, Packets
    <3>2. /\ ~PressedAfter(toStub)
          /\ Listening => ~HasInt(fromStub)
          /\ Listening /\ ~Resumed(toStub) => ~Pressed(toStub)
      BY <3>1 DEF Conversation, Presses
    <3>3. Single(toStub')
      BY <3>1, <3>2, Sent DEF Conversation, ToTheStub
    <3>4. ASSUME Listening, ~Resumed(toStub) PROVE Len(toStub') <= 1
      <4>1. ~Asked(toStub)
        BY <3>4, Apart DEF Listening, Conversation, ToTheStub
      <4>2. \A i \in 1 .. Len(toStub) : toStub[i] \in Packets
        BY <3>1
      <4>3. \A i \in 1 .. Len(toStub) : FALSE
        BY <3>2, <3>4, <4>1, <4>2 DEF Asked, Pressed, Resumed, Packets
      <4>4. Len(toStub) = 0
        <5>1. Len(toStub) \in Nat
          BY <3>1
        <5>2. Len(toStub) # 0 => 1 \in 1 .. Len(toStub)
          BY <5>1
        <5> QED
          BY <4>3, <5>2
      <4> QED
        BY <3>1, <4>4
    <3>5. Listening' = Listening
      BY <1>2 DEF Listening
    <3> QED
      BY <1>1, <1>4, <1>5, <3>2, <3>3, <3>4, <3>5 DEF Presses
  <2> QED
    BY <2>1, <2>2
<1>7. ToTheStub' /\ FromTheStub'
  BY <1>1, <1>2, <1>3, <1>5 DEF Conversation, ToTheStub, FromTheStub
<1> QED
  BY <1>1, <1>3, <1>6, <1>7 DEF Conversation

(* A packet is sent when all is said, ... *)
LEMMA SenderAsks ==
  ASSUME IInv, Conversation, NEW t \in Async, SendPacket(t)
  PROVE  Conversation'
<1> USE ThreadAssumption DEF Goto, senders, shared
<1>1. /\ pc[t] = "use" /\ pc' = [pc EXCEPT ![t] = "reply"]
      /\ UNCHANGED <<connected, stub, fromStub, verdict, asyncCount>>
      /\ toStub' = Append(toStub, "packet")
  BY DEF SendPacket, Conversation
<1>2. /\ pc'[Cont] = pc[Cont] /\ pc'[t] = "reply"
      /\ \A u \in Async : u # t => pc'[u] = pc[u]
  BY <1>1 DEF IInv, TypeOK, ThreadsTypeOK
<1>3. /\ pc[Cont] \notin {"read", "stop", "extra", "unlock"}
      /\ ~Resumed(toStub) /\ ~PressedAfter(toStub) /\ stub # "running"
  BY <1>1, Apart DEF Owners
<1>4. NobodyReads /\ Alone' /\ ~NobodyReads'
  BY <1>1, <1>2 DEF Conversation, Alone, InUse, NobodyReads
<1>5. fromStub = <<>> /\ ~Asked(toStub)
  BY <1>3, <1>4 DEF Conversation, ToTheStub, FromTheStub
<1>6. /\ ~Resumed(toStub') /\ Asked(toStub') /\ OneRequest(toStub')
      /\ ~PressedAfter(toStub') /\ Single(toStub')
  <2>1. toStub \in Seq(Packets) /\ "packet" \in Packets /\ "packet" \notin Resumes
    BY Distinct DEF IInv, TypeOK, LinkTypeOK, Packets
  <2> QED
    BY <1>1, <1>3, <1>5, <2>1, Sent DEF Conversation, ToTheStub
<1>7. ToTheStub' /\ FromTheStub' /\ Presses'
  BY <1>1, <1>2, <1>3, <1>4, <1>5, <1>6
     DEF Conversation, ToTheStub, FromTheStub, Presses, Listening
<1> QED
  BY <1>1, <1>4, <1>7 DEF Conversation

(* ... and its answer is all there is to read. *)
LEMMA SenderReads ==
  ASSUME IInv, Conversation, NEW t \in Async, ReadReply(t), connected'
  PROVE  Conversation'
<1> USE ThreadAssumption DEF Goto, senders, shared
<1>1. /\ pc[t] = "reply" /\ pc' = [pc EXCEPT ![t] = "release"]
      /\ UNCHANGED <<stub, toStub, verdict, asyncCount>>
  BY DEF ReadReply
<1>2. /\ pc'[Cont] = pc[Cont] /\ pc'[t] = "release"
      /\ \A u \in Async : u # t => pc'[u] = pc[u]
  BY <1>1 DEF IInv, TypeOK, ThreadsTypeOK
<1>3. /\ pc[Cont] \notin {"read", "stop", "extra", "unlock"}
      /\ ~Resumed(toStub) /\ ~PressedAfter(toStub) /\ stub # "running"
  BY <1>1, Apart DEF Owners
<1>4. NobodyReads' /\ Alone' /\ ~NobodyReads
  BY <1>1, <1>2 DEF Conversation, Alone, InUse, NobodyReads
<1>5. ~Asked(toStub) /\ fromStub = <<"answer">>
  <2>1. Asked(toStub) => toStub # <<>>
    BY DEF Asked
  <2>2. Asked(toStub) => fromStub # <<>>
    BY <2>1 DEF ReadReply
  <2> QED
    BY <1>4, <2>2 DEF Conversation, FromTheStub
<1>6. fromStub' = <<>> /\ UNCHANGED connected
  <2>1. fromStub # <<>> /\ Tail(<<"answer">>) = <<>>
    BY <1>5
  <2>2. fromStub' = Tail(fromStub) /\ UNCHANGED connected
    BY <2>1 DEF ReadReply
  <2> QED
    BY <1>5, <2>1, <2>2, Zenon
<1>7. ToTheStub' /\ FromTheStub'
  BY <1>1, <1>2, <1>3, <1>4, <1>5, <1>6 DEF Conversation, ToTheStub, FromTheStub
<1>8. Presses'
  <2>1. ~Listening'
    BY <1>2, <1>3 DEF Listening
  <2>2. Single(toStub)
    BY DEF Conversation, Presses
  <2> QED
    BY <1>1, <1>3, <2>1, <2>2 DEF Presses
<1> QED
  BY <1>4, <1>6, <1>7, <1>8 DEF Conversation

(* The stub takes what it is sent, ... *)
LEMMA StubTakesIt ==
  ASSUME IInv, Conversation, StubStep
  PROVE  Conversation' \/ "reply" \in missed'
<1> USE ThreadAssumption DEF client, shared, senders
<1> DEFINE p == Head(toStub)
<1>1. /\ toStub # <<>> /\ toStub' = Tail(toStub) /\ toStub \in Seq(Packets)
      /\ UNCHANGED <<connected, pc, verdict, asyncCount>>
  BY DEF StubStep, StubResumes, StubAnswers, StubInterrupted, StubTakes, IInv,
         TypeOK, LinkTypeOK, Packets
<1>2. /\ Resumed(toStub) <=> Resumed(toStub') \/ p \in Resumes
      /\ Asked(toStub) <=> Asked(toStub') \/ p = "packet"
      /\ Pressed(toStub) <=> Pressed(toStub') \/ p = "ctrl_c"
      /\ PressedAfter(toStub) <=>
           PressedAfter(toStub') \/ (p \in Resumes /\ Pressed(toStub'))
      /\ OneRequest(toStub')
      /\ p # "ctrl_c" => ~Resumed(toStub') /\ ~Asked(toStub')
      /\ Single(toStub') /\ (p \in Resumes => Len(toStub') <= 1)
      /\ Len(toStub) <= 1 => toStub' = <<>>
  BY <1>1, Taken DEF Conversation, ToTheStub, Presses
<1>3. Alone' /\ NobodyReads' = NobodyReads /\ Listening' = Listening
  BY <1>1 DEF Conversation, Alone, InUse, NobodyReads, Listening
<1>4. fromStub \in Seq(Replies)
  BY DEF IInv, TypeOK, LinkTypeOK
<1> HIDE DEF p
<1>5. CASE StubResumes
  <2>1. p \in Resumes /\ p # "ctrl_c" /\ UNCHANGED fromStub
    BY <1>5, Distinct DEF StubResumes, StubTakes, p
  <2>2. /\ pc[Cont] = "read" /\ stub = "stopped" /\ fromStub = <<>>
        /\ ~Resumed(toStub') /\ ~Asked(toStub') /\ stub' = "running"
    BY <1>2, <1>5, <2>1 DEF StubResumes, Conversation, ToTheStub
  <2>3. Pressed(toStub') \/ PressedAfter(toStub') => asyncCount > 0
    BY <1>2, <2>1 DEF Conversation, Presses
  <2>4. Output(<<>>) /\ ~HasInt(<<>>)
    BY DEF Output, HasInt
  <2>5. NobodyReads
    BY <2>2, Apart
  <2>6. Presses'
    BY <1>1, <1>2, <2>1, <2>2, <2>3, <2>4 DEF Presses
  <2>7. ToTheStub' /\ FromTheStub'
    BY <1>1, <1>2, <1>3, <2>1, <2>2, <2>4, <2>5
       DEF Conversation, ToTheStub, FromTheStub
  <2> QED
    BY <1>1, <1>3, <2>6, <2>7 DEF Conversation
<1>6. CASE StubAnswers
  <2>1. /\ p = "packet" /\ p # "ctrl_c" /\ UNCHANGED stub
        /\ fromStub' = fromStub \o (IF stub = "running" THEN <<>> ELSE <<"answer">>)
    BY <1>6 DEF StubAnswers, StubTakes, Answer, p
  <2>2. ~NobodyReads /\ ~Resumed(toStub') /\ ~Asked(toStub')
    BY <1>2, <2>1 DEF Conversation, ToTheStub
  <2>3. /\ ~Listening /\ pc[Cont] # "read" /\ stub # "running"
        /\ ~PressedAfter(toStub)
    BY <2>2, Apart DEF NobodyReads, Owners, Listening
  <2>4. fromStub = <<>>
    BY <1>2, <2>1, <2>2 DEF Conversation, FromTheStub
  <2>5. fromStub' = <<"answer">>
    BY <2>1, <2>3, <2>4
  <2>6. Presses'
    BY <1>1, <1>2, <1>3, <2>3 DEF Presses
  <2>7. ToTheStub' /\ FromTheStub'
    BY <1>1, <1>2, <1>3, <2>1, <2>2, <2>3, <2>5
       DEF Conversation, ToTheStub, FromTheStub, Listening
  <2> QED
    BY <1>1, <1>3, <2>6, <2>7 DEF Conversation
<1>7. CASE StubInterrupted /\ stub = "running"
  <2>1. p = "ctrl_c" /\ stub' = "stopped" /\ p \notin Resumes
    BY <1>7, Distinct DEF StubInterrupted, StubTakes, p
  <2>2. /\ pc[Cont] = "read" /\ ~Resumed(toStub) /\ ~Resumed(toStub')
        /\ Output(fromStub) /\ (Asked(toStub') => Asked(toStub))
    BY <1>2, <1>7, <2>1 DEF Conversation, ToTheStub
  <2>3. asyncCount > 0 /\ toStub' = <<>>
    BY <1>2, <2>1, <2>2 DEF Conversation, Presses, Listening
  <2>4. Closed(fromStub', "T_int")
    <3>1. \/ fromStub' = fromStub \o <<"T_int">>
          \/ fromStub' = fromStub \o <<"T_int", "T_int">>
      BY <1>7 DEF StubInterrupted, Answer
    <3>2. "T_int" \in Replies
      BY DEF Replies
    <3> QED
      BY <1>4, <2>2, <3>1, <3>2, Answered
  <2>5. NobodyReads
    BY <2>2, Apart
  <2>6. Presses'
    <3>1. Len(toStub') <= 1
      BY <2>3
    <3> QED
      BY <1>1, <1>2, <2>3, <3>1 DEF Presses
  <2>7. ToTheStub' /\ FromTheStub'
    BY <1>1, <1>2, <1>3, <2>1, <2>2, <2>4, <2>5
       DEF Conversation, ToTheStub, FromTheStub
  <2> QED
    BY <1>1, <1>3, <2>6, <2>7 DEF Conversation
<1>8. CASE StubInterrupted /\ stub # "running"
  <2>1. /\ p = "ctrl_c" /\ UNCHANGED stub /\ p \notin Resumes /\ p # "packet"
        /\ \/ UNCHANGED fromStub
           \/ /\ stub = "stopped" /\ fromStub' = fromStub \o <<"T_int">>
              /\ missed' = missed \cup IF Awaited THEN {} ELSE {"reply"}
    BY <1>8, Distinct DEF StubInterrupted, StubTakes, Answer, p
  <2>2. /\ Resumed(toStub') <=> Resumed(toStub)
        /\ Asked(toStub') <=> Asked(toStub)
        /\ PressedAfter(toStub') <=> PressedAfter(toStub)
        /\ Pressed(toStub') => Pressed(toStub)
    BY <1>2, <2>1
  <2>3. CASE UNCHANGED fromStub
    <3>1. Presses'
      <4>1. Len(toStub) <= 1 => Len(toStub') <= 1
        BY <1>2
      <4>2. toStub # <<>>
        BY <1>1
      <4> QED
        BY <1>1, <1>2, <1>3, <2>2, <2>3, <4>1, <4>2 DEF Conversation, Presses
    <3>2. ToTheStub' /\ FromTheStub'
      BY <1>1, <1>2, <1>3, <1>8, <2>1, <2>2, <2>3
         DEF Conversation, ToTheStub, FromTheStub
    <3> QED
      BY <1>1, <1>3, <3>1, <3>2 DEF Conversation
  <2>4. CASE fromStub' # fromStub /\ Awaited
    <3>1. /\ Listening /\ ~Resumed(toStub) /\ Pressed(toStub)
          /\ fromStub' = fromStub \o <<"T_int">> /\ stub = "stopped"
      BY <1>2, <2>1, <2>4 DEF Awaited, Listening, Resumed
    <3>2. /\ asyncCount > 0 /\ toStub' = <<>> /\ ~HasInt(fromStub)
      BY <1>1, <1>2, <3>1 DEF Conversation, Presses
    <3>3. NobodyReads
      BY <3>1, Apart DEF Listening
    <3>4. pc[Cont] = "read" => Closed(fromStub', "T_own")
      <4>1. ASSUME pc[Cont] = "read" PROVE Closed(fromStub, "T_own")
        <5>1. PICK x \in {"T_own", "T_int", "W"} :
                Closed(fromStub, x) /\ (x = "W" <=> stub = "exited")
          BY <3>1, <4>1 DEF Conversation, FromTheStub
        <5>2. x # "W"
          BY <3>1, <5>1
        <5>3. x # "T_int"
          BY <1>4, <3>2, <5>1, Ints
        <5> QED
          BY <5>1, <5>2, <5>3
      <4> QED
        BY <1>4, <3>1, <3>2, <4>1, AnsweredLate
    <3>5. pc[Cont] # "read" => fromStub' = <<"T_int">>
      <4>1. HasInt(<<"T_int">>)
        BY DEF HasInt
      <4>2. pc[Cont] # "read" => fromStub = <<>>
        BY <3>1, <3>2, <4>1 DEF Conversation, FromTheStub, Listening
      <4>3. <<>> \o <<"T_int">> = <<"T_int">>
        OBVIOUS
      <4> QED
        BY <3>1, <4>2, <4>3, Zenon
    <3>6. Presses'
      <4>1. Len(toStub') <= 1
        BY <3>2
      <4> QED
        BY <1>1, <1>2, <3>2, <4>1 DEF Presses
    <3>7. ToTheStub'
      BY <1>1, <1>2, <1>3, <2>1, <2>2, <3>1 DEF Conversation, ToTheStub
    <3>8. FromTheStub'
      BY <1>1, <1>3, <2>1, <3>1, <3>3, <3>4, <3>5
         DEF Conversation, FromTheStub, Listening
    <3> QED
      BY <1>1, <1>3, <3>6, <3>7, <3>8 DEF Conversation
  <2>5. CASE fromStub' # fromStub /\ ~Awaited
    BY <2>1, <2>5
  <2> QED
    BY <2>3, <2>4, <2>5
<1> QED
  BY <1>5, <1>6, <1>7, <1>8 DEF StubStep

(* ... and its process writes and stops. *)
LEMMA ProcessSays ==
  ASSUME IInv, Conversation, ProcessStops \/ ProcessWrites
  PROVE  Conversation'
<1> USE ThreadAssumption DEF client, shared, senders
<1>1. /\ stub = "running" /\ UNCHANGED <<connected, pc, verdict, asyncCount, toStub>>
  BY DEF ProcessStops, ProcessWrites
<1>2. /\ pc[Cont] = "read" /\ ~Resumed(toStub) /\ Output(fromStub)
      /\ fromStub \in Seq(Replies) /\ ~PressedAfter(toStub)
  BY <1>1 DEF Conversation, ToTheStub, PressedAfter, Resumed, IInv, TypeOK,
              LinkTypeOK
<1>3. Alone' /\ NobodyReads' = NobodyReads /\ NobodyReads
  BY <1>1, <1>2, Apart DEF Conversation, Alone, InUse, NobodyReads
<1>4. CASE ProcessWrites
  <2>1. Output(fromStub') /\ UNCHANGED stub /\ fromStub' \in Seq(Replies)
    <3>1. fromStub' = fromStub \o <<"O">> /\ <<"O">> \in Seq(Replies)
      BY <1>4 DEF ProcessWrites, Answer, Replies
    <3> QED
      BY <1>2, <1>4, <3>1, Answered, Queues DEF ProcessWrites
  <2>2. ~HasInt(fromStub')
    BY <2>1, Ints
  <2> QED
    BY <1>1, <1>2, <1>3, <2>1, <2>2
       DEF Conversation, ToTheStub, FromTheStub, Presses, Listening
<1>5. CASE ProcessStops
  <2>1. PICK x \in {"T_own", "W"} :
          /\ fromStub' = fromStub \o <<x>>
          /\ stub' = IF x = "W" THEN "exited" ELSE "stopped"
    BY <1>5 DEF ProcessStops, Answer
  <2>2. Closed(fromStub', x) /\ fromStub' \in Seq(Replies)
    <3>1. x \in Replies /\ <<x>> \in Seq(Replies)
      BY DEF Replies
    <3> QED
      BY <1>2, <2>1, <3>1, Answered, Queues
  <2>3. ~HasInt(fromStub')
    BY <1>2, <2>1, Ints DEF Replies
  <2> QED
    BY <1>1, <1>2, <1>3, <2>1, <2>2, <2>3
       DEF Conversation, ToTheStub, FromTheStub, Presses, Listening
<1> QED
  BY <1>4, <1>5

(* Every step keeps a conversation one, but a timeout, the loss of the        *)
(* connection, and a reply that comes too late.                               *)
LEMMA ConversationKept ==
  ASSUME IInv, Conversation, [Next]_vars, ~ReadTimeout, connected'
  PROVE  Conversation' \/ "reply" \in missed'
<1>1. ASSUME NEW t \in Async, Start(t) \/ AcquireAsync(t) \/ AsyncStep(t)
      PROVE  Conversation'
  BY <1>1, SilentAsyncSteps, InterruptSays, SenderAsks, SenderReads
     DEF Start, AsyncStep
<1>2. CASE SendContinue \/ ContinueStep
  BY <1>2, SilentContinueSteps, ResumeSays, ContinueReads, ExtraReplyRead
     DEF ContinueStep
<1>3. CASE SpuriousWakeup \/ UNCHANGED vars
  <2>1. UNCHANGED <<connected, stub, toStub, fromStub, pc, verdict, asyncCount>>
    BY <1>3 DEF SpuriousWakeup, vars, shared, senders, link
  <2> QED
    BY <2>1 DEF Conversation, Alone, InUse, NobodyReads, ToTheStub, FromTheStub,
                Presses, Listening
<1>4. ~Disconnect
  BY DEF Disconnect
<1> QED
  BY <1>1, <1>2, <1>3, <1>4, StubTakesIt, ProcessSays DEF Next

-----------------------------------------------------------------------------
(* When the connection is lost.  What was sent stays unanswered; what had     *)
(* come by then is still read by those it was meant for.                      *)

HungUp ==
  /\ ~connected /\ Alone
  /\ ~NobodyReads => fromStub = <<>> \/ fromStub = <<"answer">>
  /\ pc[Cont] = "read" => \A i \in 1 .. Len(fromStub) : fromStub[i] # "answer"

(* A conversation that is cut off, by a sender that gets no reply perhaps. *)
LEMMA HangingUp ==
  ASSUME IInv, Conversation, [Next]_vars, ~connected' PROVE HungUp'
<1> USE DEF client, shared, senders, link
<1>0. Disconnect \/ \E t \in Async : ReadReply(t) /\ fromStub = <<>>
  BY DEF Next, ContinueStep, Start, AsyncStep, StubStep, SendContinue,
         AwaitAsync, ResumeCancelled, ResumeFailed, Resume, ReadOutput, ReadStop,
         ReadLast, ReadDisconnected, ReadTimeout, StoppedOnItsOwn, ShouldStop,
         ReadExtraReply, ContinueUnlock, NotifyAll, Interrupt, JoinStopped,
         Refused, AcquireAsync, AwaitStop, Interrupted, SendPacket, ReadReply,
         Halt, SendAsyncSignal, Release, Notify, SpuriousWakeup, StubResumes,
         StubAnswers, StubInterrupted, ProcessStops, ProcessWrites, vars,
         Conversation
<1>1. /\ UNCHANGED fromStub
      /\ \/ UNCHANGED pc
         \/ \E t \in Async : pc[t] = "reply" /\ pc' = [pc EXCEPT ![t] = "release"]
  BY <1>0 DEF Disconnect, ReadReply, Goto
<1>2. /\ Alone' /\ (~NobodyReads' => ~NobodyReads)
      /\ pc'[Cont] = pc[Cont]
  BY <1>1, ThreadAssumption DEF Conversation, Alone, InUse, NobodyReads, IInv,
                                TypeOK, ThreadsTypeOK
<1>3. ~NobodyReads => fromStub = <<>> \/ fromStub = <<"answer">>
  BY DEF Conversation, FromTheStub
<1>4. ASSUME pc[Cont] = "read"
      PROVE  \A i \in 1 .. Len(fromStub) : fromStub[i] # "answer"
  <2>1. \/ fromStub = <<>> \/ Output(fromStub)
        \/ \E x \in {"T_own", "T_int", "W"} : Closed(fromStub, x)
    BY <1>4 DEF Conversation, ToTheStub, FromTheStub
  <2>2. CASE fromStub = <<>>
    BY <2>2
  <2>3. CASE Output(fromStub)
    BY <2>3 DEF Output
  <2>4. ASSUME NEW x \in {"T_own", "T_int", "W"}, Closed(fromStub, x)
        PROVE  \A i \in 1 .. Len(fromStub) : fromStub[i] # "answer"
    BY <2>4 DEF Closed
  <2> QED
    BY <2>1, <2>2, <2>3, <2>4
<1> QED
  BY <1>1, <1>2, <1>3, <1>4 DEF HungUp

(* Nothing is added to what can still be read, and nobody new reads. *)
LEMMA StaysHungUp ==
  ASSUME IInv, HungUp, [Next]_vars PROVE HungUp'
<1> USE ThreadAssumption DEF Goto, client, shared, senders, link
<1>1. pc \in [Async \cup {Cont} -> Calling \cup Sending] /\ connected' = FALSE
  BY DEF Next, ContinueStep, Start, AsyncStep, StubStep, StubTakes, SendContinue,
         AwaitAsync, ResumeCancelled, ResumeFailed, Resume, ReadOutput, ReadStop,
         ReadLast, ReadDisconnected, ReadTimeout, StoppedOnItsOwn, ShouldStop,
         ReadExtraReply, ContinueUnlock, NotifyAll, Interrupt, JoinStopped,
         Refused, AcquireAsync, AwaitStop, Interrupted, SendPacket, ReadReply,
         Halt, SendAsyncSignal, Release, Notify, SpuriousWakeup, StubResumes,
         StubAnswers, StubInterrupted, ProcessStops, ProcessWrites, Disconnect,
         vars, HungUp, IInv, TypeOK, ThreadsTypeOK
<1>2. ASSUME SendContinue \/ ContinueStep PROVE HungUp'
  <2>1. \A t \in Async : pc'[t] = pc[t]
    BY <1>1, <1>2 DEF SendContinue, ContinueStep, AwaitAsync, ResumeCancelled,
       ResumeFailed, Resume, ReadOutput, ReadStop, ReadLast, ReadDisconnected,
       ReadTimeout, StoppedOnItsOwn, ShouldStop, ReadExtraReply, ContinueUnlock,
       NotifyAll
  <2>2. Alone' /\ NobodyReads' = NobodyReads
    BY <2>1 DEF HungUp, Alone, InUse, NobodyReads
  <2>3. CASE ReadOutput \/ ReadStop \/ ReadLast \/ ReadExtraReply
    <3>1. NobodyReads
      BY <2>3 DEF ReadOutput, ReadStop, ReadLast, ReadExtraReply, IInv, Running,
         Exclusive, Owners, NobodyReads
    <3>2. ASSUME pc'[Cont] = "read"
          PROVE  \A i \in 1 .. Len(fromStub') : fromStub'[i] # "answer"
      <4>1. pc[Cont] = "read" /\ fromStub # <<>> /\ fromStub' = Tail(fromStub)
        BY <1>1, <2>3, <3>2 DEF ReadOutput, ReadStop, ReadLast, ReadExtraReply,
           Received
      <4>2. fromStub \in Seq(Replies)
        BY DEF IInv, TypeOK, LinkTypeOK
      <4>3. \A i \in 1 .. Len(fromStub') :
              fromStub'[i] = fromStub[i + 1] /\ i + 1 \in 1 .. Len(fromStub)
        BY <4>1, <4>2
      <4> QED
        BY <4>1, <4>3 DEF HungUp
    <3> QED
      BY <1>1, <2>2, <3>1, <3>2 DEF HungUp
  <2>4. CASE ~(ReadOutput \/ ReadStop \/ ReadLast \/ ReadExtraReply)
    <3>1. /\ UNCHANGED fromStub
          /\ pc'[Cont] = "read" => pc[Cont] = "read"
      BY <1>1, <1>2, <2>4 DEF SendContinue, ContinueStep, AwaitAsync,
         ResumeCancelled, ResumeFailed, Resume, ReadDisconnected, ReadTimeout,
         StoppedOnItsOwn, ShouldStop, ContinueUnlock, NotifyAll, HungUp
    <3> QED
      BY <1>1, <2>2, <3>1 DEF HungUp
  <2> QED
    BY <2>3, <2>4
<1>3. ASSUME NEW t \in Async, Start(t) \/ AcquireAsync(t) \/ AsyncStep(t)
      PROVE  HungUp'
  <2>1. /\ pc'[Cont] = pc[Cont] /\ pc'[t] # "reply"
        /\ \A u \in Async : u # t => pc'[u] = pc[u]
        /\ InUse(t)' => InUse(t) \/ AcquireAsync(t)
    BY <1>1, <1>3 DEF Start, AsyncStep, Interrupt, JoinStopped, Refused,
       AcquireAsync, AwaitStop, Interrupted, SendPacket, ReadReply, Halt,
       SendAsyncSignal, Release, Notify, InUse, HungUp
  <2>2. Alone'
    <3>1. AcquireAsync(t) => \A u \in Async : ~InUse(u)
      BY DEF AcquireAsync, AsyncMutexFree, InUse
    <3>2. \A u \in Async : u # t => (InUse(u)' <=> InUse(u))
      BY <2>1 DEF InUse
    <3> QED
      BY <2>1, <3>1, <3>2 DEF HungUp, Alone
  <2>3. ~NobodyReads' => ~NobodyReads
    BY <2>1 DEF NobodyReads
  <2>4. CASE ReadReply(t)
    <3>1. pc[t] = "reply"
      BY <2>4 DEF ReadReply
    <3>2. NobodyReads'
      BY <2>1, <3>1 DEF HungUp, Alone, InUse, NobodyReads
    <3>3. pc[Cont] # "read"
      BY <3>1 DEF IInv, Running, Exclusive, Owners
    <3> QED
      BY <1>1, <2>1, <2>2, <3>2, <3>3 DEF HungUp
  <2>5. CASE ~ReadReply(t)
    <3>1. UNCHANGED fromStub
      BY <1>3, <2>5 DEF Start, AsyncStep, Interrupt, JoinStopped, Refused,
         AcquireAsync, AwaitStop, Interrupted, SendPacket, Halt,
         SendAsyncSignal, Release, Notify
    <3> QED
      BY <1>1, <2>1, <2>2, <2>3, <3>1 DEF HungUp
  <2> QED
    BY <2>4, <2>5
<1>4. CASE \/ SpuriousWakeup \/ StubStep \/ ProcessStops \/ ProcessWrites
           \/ Disconnect \/ UNCHANGED vars
  <2>1. UNCHANGED <<fromStub, pc>>
    BY <1>4 DEF SpuriousWakeup, StubStep, StubResumes, StubAnswers,
       StubInterrupted, StubTakes, ProcessStops, ProcessWrites, Disconnect,
       vars, HungUp
  <2> QED
    BY <1>1, <2>1 DEF HungUp, Alone, InUse, NobodyReads
<1> QED
  BY <1>2, <1>3, <1>4 DEF Next

(* What is missed stays so. *)
LEMMA MissedStays == [Next]_vars => missed \subseteq missed'
BY DEF Next, ContinueStep, Start, AsyncStep, StubStep, SendContinue,
       AwaitAsync, ResumeCancelled, ResumeFailed, Resume, ReadOutput, ReadStop,
       ReadLast, ReadDisconnected, ReadTimeout, StoppedOnItsOwn, ShouldStop,
       ReadExtraReply, ContinueUnlock, NotifyAll, Interrupt, JoinStopped,
       Refused, AcquireAsync, AwaitStop, Interrupted, SendPacket, ReadReply,
       Halt, SendAsyncSignal, Release, Notify, SpuriousWakeup, StubResumes,
       StubAnswers, StubInterrupted, ProcessStops, ProcessWrites, Disconnect,
       vars, history

(* The connection is talking, or cut off, or out of sequence for a reason. *)
LEMMA AConversation == Spec => [](Conversation \/ HungUp \/ missed # {})
<1>1. ASSUME IInv, Conversation \/ HungUp \/ missed # {}, [Next]_vars
      PROVE  (Conversation \/ HungUp \/ missed # {})'
  <2>1. CASE missed # {}
    BY <1>1, <2>1, MissedStays
  <2>2. CASE HungUp
    BY <1>1, <2>2, StaysHungUp
  <2>3. CASE Conversation
    <3>1. CASE ReadTimeout
      BY <3>1 DEF ReadTimeout
    <3>2. CASE ~ReadTimeout
      BY <1>1, <2>3, <3>2, ConversationKept, HangingUp
    <3> QED
      BY <3>1, <3>2
  <2> QED
    BY <1>1, <2>1, <2>2, <2>3
<1> QED
  BY <1>1, SilentAtFirst, Invariance, PTL DEF Spec

(* As long as no read has timed out and no stop reply has come too late for   *)
(* the extra read of ShouldStop(), each reader gets what it waits for: the    *)
(* sender of a packet its answer, the continue thread what its process wrote  *)
(* or how it stopped; neither takes a packet meant for the other, whether the *)
(* stub answers a ^C twice or answers one that finds the process stopped, and *)
(* even when the connection is lost on the way.                               *)
THEOREM NobodyIsCrossed == Spec => []AnswersMatch
<1>1. IInv /\ Conversation => InSequence
  <2> SUFFICES ASSUME IInv, Conversation, fromStub # <<>>
               PROVE  /\ ~NobodyReads => Head(fromStub) = "answer"
                      /\ pc[Cont] = "read" => Head(fromStub) # "answer"
    BY DEF InSequence, NobodyReads
  <2>1. ~NobodyReads => Head(fromStub) = "answer"
    <3>1. Head(<<"answer">>) = "answer"
      OBVIOUS
    <3> QED
      BY <3>1 DEF Conversation, FromTheStub
  <2>2. ASSUME pc[Cont] = "read" PROVE Head(fromStub) # "answer"
    <3>1. fromStub \in Seq(Replies)
      BY DEF IInv, TypeOK, LinkTypeOK
    <3>2. \/ Output(fromStub)
          \/ \E x \in {"T_own", "T_int", "W"} : Closed(fromStub, x)
      BY <2>2 DEF Conversation, ToTheStub, FromTheStub
    <3>3. Head(fromStub) \in {"O", "T_own", "T_int", "W"}
      BY <3>1, <3>2, ReadOff
    <3> QED
      BY <3>3
  <2> QED
    BY <2>1, <2>2
<1>2. IInv /\ HungUp => InSequence
  <2> SUFFICES ASSUME IInv, HungUp, fromStub # <<>>
               PROVE  /\ ~NobodyReads => Head(fromStub) = "answer"
                      /\ pc[Cont] = "read" => Head(fromStub) # "answer"
    BY DEF InSequence, NobodyReads
  <2>1. Head(<<"answer">>) = "answer"
    OBVIOUS
  <2>2. Head(fromStub) = fromStub[1] /\ 1 \in 1 .. Len(fromStub)
    <3>1. fromStub \in Seq(Replies)
      BY DEF IInv, TypeOK, LinkTypeOK
    <3> QED
      BY <3>1
  <2> QED
    BY <2>1, <2>2 DEF HungUp
<1>3. IInv /\ (Conversation \/ HungUp \/ missed # {}) => AnswersMatch
  BY <1>1, <1>2 DEF AnswersMatch
<1> QED
  BY <1>3, AConversation, Invariance, PTL

-----------------------------------------------------------------------------
(* When a read times out.  The call in the continue thread fails and none     *)
(* follows, but others go on to use the connection: their packets come after  *)
(* the ^C that was not answered in time.                                      *)

(* Whoever waits for the process to stop has it stopped: a ^C is on its way   *)
(* behind the packet that resumed it, or the process has stopped already.     *)
SomebodyPressed ==
  pc[Cont] = "read" /\ asyncCount > 0 =>
    \/ PressedAfter(toStub)
    \/ stub = "running" /\ Pressed(toStub)
    \/ stub # "running" /\ ~Resumed(toStub)

(* The process is stopped by the time the stub comes to the n-th packet.      *)
StopsBefore(q, s, n) ==
  /\ s = "running" => \E i \in 1 .. n - 1 : q[i] = "ctrl_c"
  /\ \A k \in 1 .. n - 1 : q[k] \in Resumes =>
       \E i \in 1 .. n - 1 : k < i /\ q[i] = "ctrl_c"

(* So it is at each packet with a reply, and at the next to be sent.          *)
AllHeard(q, s) ==
  \A n \in 1 .. Len(q) + 1 :
    (n <= Len(q) => q[n] = "packet") => StopsBefore(q, s, n)

GaveUp == /\ connected /\ verdict = "invalid"
          /\ pc[Cont] \in {"unlock", "notifyAll", "idle"}
          /\ AllHeard(toStub, stub)

(* The next packet is heard, whatever it is but one that resumes. *)
LEMMA HeardIfSent ==
  ASSUME NEW q \in Seq(Packets), NEW s, AllHeard(q, s),
         NEW p \in {"packet", "ctrl_c"}
  PROVE  AllHeard(Append(q, p), s)
<1> DEFINE r == Append(q, p)
<1>1. /\ Len(q) \in Nat /\ Len(r) = Len(q) + 1 /\ r[Len(q) + 1] = p
      /\ \A i \in 1 .. Len(q) : r[i] = q[i]
  BY DEF Packets
<1> HIDE DEF r
<1>2. p \notin Resumes
  BY Distinct
<1>3. ASSUME NEW n \in 1 .. Len(q) + 1, StopsBefore(q, s, n)
      PROVE  StopsBefore(r, s, n)
  <2>1. \A i \in 1 .. n - 1 : r[i] = q[i]
    BY <1>1
  <2> QED
    BY <1>3, <2>1 DEF StopsBefore
<1>4. StopsBefore(q, s, Len(q) + 1)
  <2>1. Len(q) + 1 \in 1 .. Len(q) + 1 /\ ~(Len(q) + 1 <= Len(q))
    BY <1>1
  <2> QED
    BY <2>1 DEF AllHeard
<1>5. StopsBefore(r, s, Len(q) + 2)
  <2>1. \A i \in 1 .. Len(q) : i \in 1 .. (Len(q) + 2) - 1 /\ r[i] = q[i]
    BY <1>1
  <2>2. \A i \in 1 .. (Len(q) + 2) - 1 : i \in 1 .. Len(q) \/ r[i] = p
    BY <1>1
  <2>3. (Len(q) + 1) - 1 = Len(q)
    BY <1>1
  <2> QED
    BY <1>2, <1>4, <2>1, <2>2, <2>3 DEF StopsBefore
<1>6. ASSUME NEW n \in 1 .. Len(r) + 1, n <= Len(r) => r[n] = "packet"
      PROVE  StopsBefore(r, s, n)
  <2>1. CASE n <= Len(q)
    <3>1. n \in 1 .. Len(q) + 1 /\ q[n] = "packet"
      BY <1>1, <1>6, <2>1
    <3> QED
      BY <1>3, <3>1 DEF AllHeard
  <2>2. CASE n = Len(q) + 1
    BY <1>1, <1>3, <1>4, <2>2
  <2>3. CASE n = Len(q) + 2
    BY <1>5, <2>3
  <2> QED
    BY <1>1, <2>1, <2>2, <2>3
<1> QED
  BY <1>6 DEF AllHeard, r

(* A stub that takes a packet hears the rest, if what it takes is not a ^C   *)
(* after which its process runs.                                             *)
LEMMA HeardIfTaken ==
  ASSUME NEW q \in Seq(Packets), q # <<>>, NEW s, AllHeard(q, s), NEW sn,
         Head(q) \in Resumes \/ sn # "running"
  PROVE  AllHeard(Tail(q), sn)
<1> DEFINE r == Tail(q)
<1>1. /\ Len(q) \in Nat \ {0} /\ Len(r) = Len(q) - 1 /\ Head(q) = q[1]
      /\ \A i \in 1 .. Len(r) : r[i] = q[i + 1]
  OBVIOUS
<1> HIDE DEF r
<1>2. ASSUME NEW n \in 1 .. Len(r) + 1, n <= Len(r) => r[n] = "packet"
      PROVE  StopsBefore(r, sn, n)
  <2>1. n + 1 \in 1 .. Len(q) + 1 /\ (n + 1 <= Len(q) => q[n + 1] = "packet")
    BY <1>1, <1>2
  <2>2. StopsBefore(q, s, n + 1)
    BY <2>1 DEF AllHeard
  <2>3. \A k \in 1 .. n : q[k] \in Resumes =>
          \E i \in 1 .. n : k < i /\ q[i] = "ctrl_c"
    <3>1. (n + 1) - 1 = n
      BY <1>1
    <3> QED
      BY <2>2, <3>1 DEF StopsBefore
  <2>4. ASSUME NEW k \in 0 .. n - 1, q[k + 1] \in Resumes
        PROVE  \E i \in 1 .. n - 1 : k < i /\ r[i] = "ctrl_c"
    <3>1. k + 1 \in 1 .. n
      BY <1>1
    <3>2. PICK i \in 1 .. n : k + 1 < i /\ q[i] = "ctrl_c"
      BY <2>3, <2>4, <3>1
    <3>3. i - 1 \in 1 .. n - 1 /\ i - 1 \in 1 .. Len(r) /\ k < i - 1
          /\ (i - 1) + 1 = i
      BY <1>1, <3>2
    <3>4. r[i - 1] = "ctrl_c"
      BY <1>1, <3>2, <3>3
    <3> QED
      BY <3>3, <3>4
  <2>5. sn = "running" => \E i \in 1 .. n - 1 : r[i] = "ctrl_c"
    <3>1. 0 \in 0 .. n - 1 /\ 0 + 1 = 1
      BY <1>1
    <3> QED
      BY <1>1, <2>4, <3>1
  <2>6. \A k \in 1 .. n - 1 : k \in 0 .. n - 1 /\ r[k] = q[k + 1]
    BY <1>1
  <2> QED
    BY <2>4, <2>5, <2>6 DEF StopsBefore
<1> QED
  BY <1>2 DEF AllHeard, r

(* The ^C that is on its way stays there until the process has stopped. *)
LEMMA SomebodyPressedKept ==
  ASSUME IInv, Conversation, SomebodyPressed, [Next]_vars
  PROVE  SomebodyPressed'
<1> SUFFICES ASSUME pc'[Cont] = "read", asyncCount' > 0
             PROVE  \/ PressedAfter(toStub')
                    \/ stub' = "running" /\ Pressed(toStub')
                    \/ stub' # "running" /\ ~Resumed(toStub')
  BY DEF SomebodyPressed
<1> DEFINE Goal == \/ PressedAfter(toStub')
                   \/ stub' = "running" /\ Pressed(toStub')
                   \/ stub' # "running" /\ ~Resumed(toStub')
<1> USE ThreadAssumption DEF Goto, client, shared, senders, link
<1>1. /\ pc \in [Async \cup {Cont} -> Calling \cup Sending]
      /\ asyncCount \in Nat /\ toStub \in Seq(Packets)
  BY DEF IInv, TypeOK, SharedTypeOK, ThreadsTypeOK, LinkTypeOK, Packets
<1>2. ASSUME pc[Cont] = "read", asyncCount > 0, UNCHANGED <<toStub, stub>> PROVE Goal
  BY <1>2 DEF SomebodyPressed
<1>3. CASE SendContinue \/ ContinueStep
  <2>1. ReadOutput
    BY <1>1, <1>3 DEF SendContinue, ContinueStep, AwaitAsync, Locking,
       ResumeCancelled, ResumeFailed, Resume, ReadOutput, ReadStop, ReadLast,
       ReadDisconnected, ReadTimeout, StoppedOnItsOwn, ShouldStop,
       ReadExtraReply, ContinueUnlock, NotifyAll
  <2> QED
    BY <1>2, <2>1 DEF ReadOutput
<1>4. ASSUME NEW t \in Async, Start(t) \/ AcquireAsync(t) \/ AsyncStep(t)
      PROVE  Goal
  <2>1. pc[Cont] = "read" /\ t \notin Owners /\ isRunning /\ stub' = stub
    BY <1>1, <1>4 DEF Start, AsyncStep, Interrupt, JoinStopped, Refused,
       AcquireAsync, AwaitStop, Interrupted, SendPacket, ReadReply, Halt,
       SendAsyncSignal, Release, Notify, IInv, Running, Exclusive
  <2>2. CASE Interrupt(t) /\ asyncCount = 0
    <3>1. toStub' = Append(toStub, "ctrl_c") /\ "ctrl_c" \in Packets
      BY <2>2 DEF Interrupt, Packets
    <3>2. /\ Resumed(toStub) => PressedAfter(toStub')
          /\ Pressed(toStub')
          /\ Resumed(toStub') => Resumed(toStub)
      <4>1. "ctrl_c" \notin Resumes
        BY Distinct
      <4> QED
        BY <1>1, <3>1, <4>1, Sent
    <3> QED
      BY <2>1, <3>2
  <2>3. CASE ~(Interrupt(t) /\ asyncCount = 0)
    <3>1. asyncCount > 0 /\ UNCHANGED toStub
      BY <1>1, <1>4, <2>1, <2>3 DEF Start, AsyncStep, Interrupt, JoinStopped,
         Refused, AcquireAsync, AwaitStop, Interrupted, SendPacket, ReadReply,
         Halt, SendAsyncSignal, Release, Notify, Owners
    <3> QED
      BY <1>2, <2>1, <3>1
  <2> QED
    BY <2>2, <2>3
<1>5. CASE StubStep
  <2> DEFINE h == Head(toStub)
  <2>1. /\ pc[Cont] = "read" /\ asyncCount > 0
        /\ toStub # <<>> /\ toStub' = Tail(toStub)
    BY <1>5 DEF StubStep, StubResumes, StubAnswers, StubInterrupted, StubTakes
  <2>2. /\ Resumed(toStub) <=> Resumed(toStub') \/ h \in Resumes
        /\ Asked(toStub) <=> Asked(toStub') \/ h = "packet"
        /\ PressedAfter(toStub) <=>
             PressedAfter(toStub') \/ (h \in Resumes /\ Pressed(toStub'))
        /\ h # "ctrl_c" => ~Resumed(toStub')
    BY <1>1, <2>1, Taken DEF Conversation, ToTheStub
  <2>3. /\ Resumed(toStub) => stub = "stopped"
        /\ stub = "running" => ~Resumed(toStub)
        /\ ~Asked(toStub)
    BY <2>1, Apart DEF Conversation, ToTheStub
  <2>4. PressedAfter(toStub') => Resumed(toStub')
    BY DEF PressedAfter, Resumed
  <2> HIDE DEF h
  <2>5. CASE StubResumes
    <3>1. h \in Resumes /\ h # "ctrl_c"
      BY <2>5, Distinct DEF StubResumes, StubTakes, h
    <3>2. stub = "stopped" /\ stub' = "running" /\ Pressed(toStub')
      BY <2>1, <2>2, <2>3, <2>4, <2>5, <3>1 DEF StubResumes, SomebodyPressed
    <3> QED
      BY <3>2
  <2>6. CASE StubAnswers
    BY <2>2, <2>3, <2>6 DEF StubAnswers, StubTakes, h
  <2>7. CASE StubInterrupted
    <3>1. h = "ctrl_c" /\ h \notin Resumes /\ stub' # "running"
      BY <2>7, Distinct DEF StubInterrupted, StubTakes, h
    <3>2. stub # "running" => stub' = stub
      BY <2>7 DEF StubInterrupted
    <3> QED
      BY <2>1, <2>2, <2>3, <3>1, <3>2 DEF SomebodyPressed
  <2> QED
    BY <1>5, <2>5, <2>6, <2>7 DEF StubStep
<1>6. CASE ProcessStops
  <2>1. stub = "running" /\ stub' # "running" /\ UNCHANGED toStub
    BY <1>6 DEF ProcessStops
  <2> QED
    BY <2>1 DEF Conversation, ToTheStub
<1>7. CASE SpuriousWakeup \/ ProcessWrites \/ Disconnect
           \/ UNCHANGED vars
  <2>1. UNCHANGED <<pc, asyncCount, toStub, stub>>
    BY <1>7 DEF SpuriousWakeup, ProcessWrites, Disconnect, vars
  <2> QED
    BY <1>2, <2>1
<1> QED
  BY <1>3, <1>4, <1>5, <1>6, <1>7 DEF Next

(* A read that times out leaves a ^C before all that can be sent. *)
LEMMA GivingUp ==
  ASSUME IInv, Conversation, SomebodyPressed, ReadTimeout
  PROVE  GaveUp'
<1> USE DEF Goto, shared, senders, link
<1>1. /\ pc[Cont] = "read" /\ asyncCount > 0
      /\ connected' = TRUE /\ verdict' = "invalid" /\ pc'[Cont] = "unlock"
      /\ UNCHANGED <<toStub, stub>>
  BY DEF ReadTimeout, IInv, TypeOK, ThreadsTypeOK
<1>2. toStub \in Seq(Packets) /\ Len(toStub) \in Nat
  BY DEF IInv, TypeOK, LinkTypeOK, Packets
<1>3. ~Asked(toStub) /\ OneRequest(toStub)
  BY <1>1, Apart DEF Conversation, ToTheStub
<1>4. Resumed(toStub) => stub = "stopped"
  BY DEF Conversation, ToTheStub
<1>5. stub = "running" => Pressed(toStub)
  <2>1. PressedAfter(toStub) => Resumed(toStub)
    BY DEF PressedAfter, Resumed
  <2> QED
    BY <1>1, <1>4, <2>1 DEF SomebodyPressed
<1>6. ASSUME NEW k \in 1 .. Len(toStub), toStub[k] \in Resumes
      PROVE  \E i \in 1 .. Len(toStub) : k < i /\ toStub[i] = "ctrl_c"
  <2>1. Resumed(toStub)
    BY <1>6 DEF Resumed
  <2>2. PICK i \in 1 .. Len(toStub), j \in 1 .. Len(toStub) :
          i < j /\ toStub[i] \in Resumes /\ toStub[j] = "ctrl_c"
    BY <1>1, <1>4, <2>1 DEF SomebodyPressed, PressedAfter
  <2>3. toStub[i] # "ctrl_c" /\ toStub[k] # "ctrl_c"
    BY <1>6, <2>2, Distinct
  <2>4. ~(i < k) /\ ~(k < i)
    BY <1>3, <2>3 DEF OneRequest
  <2>5. i = k
    BY <1>2, <2>4
  <2> QED
    BY <2>2, <2>5
<1>7. ASSUME NEW n \in 1 .. Len(toStub) + 1, n <= Len(toStub) => toStub[n] = "packet"
      PROVE  StopsBefore(toStub, stub, n)
  <2>1. n = Len(toStub) + 1
    <3>1. ASSUME n <= Len(toStub) PROVE FALSE
      BY <1>2, <1>3, <1>7, <3>1 DEF Asked
    <3> QED
      BY <1>2, <3>1
  <2>2. n - 1 = Len(toStub)
    BY <1>2, <2>1
  <2> QED
    BY <1>5, <1>6, <2>2 DEF StopsBefore, Pressed
<1> QED
  BY <1>1, <1>7 DEF GaveUp, AllHeard

(* What comes afterwards is heard, until the connection is lost. *)
LEMMA StaysGivenUp ==
  ASSUME IInv, GaveUp, [Next]_vars
  PROVE  GaveUp' \/ ~connected'
<1> SUFFICES ASSUME connected' PROVE GaveUp'
  OBVIOUS
<1> USE ThreadAssumption DEF Goto, client, shared, senders, link
<1>1. /\ pc \in [Async \cup {Cont} -> Calling \cup Sending]
      /\ connected' = TRUE /\ toStub \in Seq(Packets)
  <2>1. connected' \in BOOLEAN
    BY ContinueSteps, AsyncSteps, OutsideSteps DEF Next, IInv, TypeOK, LinkTypeOK
  <2> QED
    BY <2>1 DEF IInv, TypeOK, ThreadsTypeOK, LinkTypeOK, Packets
<1>2. CASE SendContinue \/ ContinueStep
  <2>1. ContinueUnlock \/ NotifyAll
    BY <1>1, <1>2 DEF SendContinue, ContinueStep, AwaitAsync, Locking,
       ResumeCancelled, ResumeFailed, Resume, ReadOutput, ReadStop, ReadLast,
       ReadDisconnected, ReadTimeout, StoppedOnItsOwn, ShouldStop,
       ReadExtraReply, GaveUp
  <2> QED
    BY <1>1, <2>1 DEF ContinueUnlock, NotifyAll, GaveUp
<1>3. ASSUME NEW t \in Async, Start(t) \/ AcquireAsync(t) \/ AsyncStep(t)
      PROVE  GaveUp'
  <2>1. /\ pc'[Cont] = pc[Cont] /\ UNCHANGED <<verdict, stub>>
        /\ \/ UNCHANGED toStub
           \/ \E p \in {"packet", "ctrl_c"} : toStub' = Append(toStub, p)
    BY <1>1, <1>3 DEF Start, AsyncStep, Interrupt, JoinStopped, Refused,
       AcquireAsync, AwaitStop, Interrupted, SendPacket, ReadReply, Halt,
       SendAsyncSignal, Release, Notify
  <2>2. AllHeard(toStub', stub)
    BY <1>1, <2>1, HeardIfSent DEF GaveUp
  <2> QED
    BY <1>1, <2>1, <2>2 DEF GaveUp
<1>4. CASE StubStep
  <2>1. /\ UNCHANGED <<verdict, pc>>
        /\ toStub # <<>> /\ toStub' = Tail(toStub)
    BY <1>4 DEF StubStep, StubResumes, StubAnswers, StubInterrupted, StubTakes
  <2>2. Head(toStub) \in Resumes \/ stub' # "running"
    <3>1. CASE StubResumes
      BY <3>1 DEF StubResumes, StubTakes
    <3>2. CASE StubAnswers
      <4>1. Head(toStub) = "packet" /\ UNCHANGED stub
        BY <3>2 DEF StubAnswers, StubTakes
      <4>2. 1 \in 1 .. Len(toStub) + 1 /\ toStub[1] = "packet"
        BY <1>1, <2>1, <4>1
      <4>3. StopsBefore(toStub, stub, 1)
        BY <4>2 DEF GaveUp, AllHeard
      <4>4. 1 .. 1 - 1 = {}
        OBVIOUS
      <4> QED
        BY <4>1, <4>3, <4>4 DEF StopsBefore
    <3>3. CASE StubInterrupted
      BY <3>3 DEF StubInterrupted
    <3> QED
      BY <1>4, <3>1, <3>2, <3>3 DEF StubStep
  <2>3. AllHeard(toStub', stub')
    BY <1>1, <2>1, <2>2, HeardIfTaken DEF GaveUp
  <2> QED
    BY <1>1, <2>1, <2>3 DEF GaveUp
<1>5. CASE ProcessStops
  <2>1. UNCHANGED <<verdict, pc, toStub>> /\ stub' # "running"
    BY <1>5 DEF ProcessStops
  <2>2. AllHeard(toStub, stub')
    BY <2>1 DEF GaveUp, AllHeard, StopsBefore
  <2> QED
    BY <1>1, <2>1, <2>2 DEF GaveUp
<1>6. CASE SpuriousWakeup \/ ProcessWrites \/ Disconnect
           \/ UNCHANGED vars
  <2>1. UNCHANGED <<verdict, pc, toStub, stub>>
    BY <1>6 DEF SpuriousWakeup, ProcessWrites, Disconnect, vars
  <2> QED
    BY <1>1, <2>1 DEF GaveUp
<1> QED
  BY <1>2, <1>3, <1>4, <1>5, <1>6 DEF Next

(* As long as no stop reply has come too late for the extra read, a packet    *)
(* that SendPacketAndWaitForResponse() sends finds the process stopped,       *)
(* however the interrupts of any number of threads, the stops of the process  *)
(* and the timeouts of reads overlap.                                         *)
THEOREM PacketsAreHeard == Spec => []PacketsFindItStopped
<1> DEFINE K == \/ Conversation /\ SomebodyPressed
                \/ GaveUp \/ ~connected \/ "reply" \in missed
<1>1. Init => K
  <2>1. Init => SomebodyPressed
    BY DEF Init, SomebodyPressed
  <2> QED
    BY <2>1, SilentAtFirst
<1>2. IInv /\ K /\ [Next]_vars => K'
  <2> SUFFICES ASSUME IInv, K, [Next]_vars PROVE K'
    OBVIOUS
  <2>0. CASE "reply" \in missed
    BY <2>0, MissedStays
  <2>1. CASE Conversation /\ SomebodyPressed
    <3>1. CASE ~connected'
      BY <3>1
    <3>2. CASE ReadTimeout
      BY <2>1, <3>2, GivingUp
    <3>3. CASE connected' /\ ~ReadTimeout
      BY <2>1, <3>3, ConversationKept, SomebodyPressedKept
    <3> QED
      BY <3>1, <3>2, <3>3
  <2>2. CASE GaveUp
    BY <2>2, StaysGivenUp
  <2>3. CASE ~connected
    <3>1. ~connected'
      BY <2>3 DEF Next, ContinueStep, Start, AsyncStep, StubStep, StubTakes,
         SendContinue, AwaitAsync, ResumeCancelled, ResumeFailed, Resume,
         ReadOutput, ReadStop, ReadLast, ReadDisconnected, ReadTimeout,
         StoppedOnItsOwn, ShouldStop, ReadExtraReply, ContinueUnlock, NotifyAll,
         Interrupt, JoinStopped, Refused, AcquireAsync, AwaitStop, Interrupted,
         SendPacket, ReadReply, Halt, SendAsyncSignal, Release, Notify,
         SpuriousWakeup, StubResumes, StubAnswers, StubInterrupted, ProcessStops,
         ProcessWrites, Disconnect, vars, link
    <3> QED
      BY <3>1
  <2> QED
    BY <2>0, <2>1, <2>2, <2>3
<1>3. IInv /\ K => PacketsFindItStopped
  <2> SUFFICES ASSUME IInv, Conversation \/ GaveUp,
                      toStub # <<>>, Head(toStub) = "packet"
               PROVE  stub # "running"
    BY DEF PacketsFindItStopped
  <2>1. toStub \in Seq(Packets)
    BY DEF IInv, TypeOK, LinkTypeOK, Packets
  <2>2. CASE Conversation
    <3>1. Asked(toStub)
      BY <2>1, Taken
    <3>2. ~NobodyReads
      BY <2>2, <3>1 DEF Conversation, ToTheStub
    <3> QED
      BY <2>2, <3>2, Apart DEF NobodyReads, Owners
  <2>3. CASE GaveUp
    <3>1. 1 \in 1 .. Len(toStub) + 1 /\ toStub[1] = "packet" /\ 1 .. 1 - 1 = {}
      BY <2>1
    <3> QED
      BY <2>3, <3>1 DEF GaveUp, AllHeard, StopsBefore
  <2> QED
    BY <2>2, <2>3
<1> QED
  BY <1>1, <1>2, <1>3, Invariance, PTL DEF Spec

=============================================================================

----------------------- MODULE WorkerRefinementProofs -----------------------
(***************************************************************************)
(* The worker's steps implement the dispatcher's, for every value of the   *)
(* constants.  The replies are read off the ghost of the invoke ids        *)
(* process_messages has read, all of them answered but the one being       *)
(* served; WorkerRepliesProofs shows this is what stdout shows.          *)
(***************************************************************************)
EXTENDS WorkerRefinement, WorkerProofs

\* The invocations answered: every invoke read, less the one whose
\* js_std_await is running.
Answered ==
    IF pc = "await" THEN SubSeq(consumed, 1, Len(consumed) - 1) ELSE consumed

AbsC == INSTANCE Dispatcher
          WITH state <- Phase, inbox <- stdin, answered <- Answered,
               current <- serving

\* Inductive invariant of the refinement: the invocation being served is
\* the last invoke read.
RefInv ==
    /\ TypeInv
    /\ pc = "await" => consumed # <<>> /\ consumed[Len(consumed)] = serving

\* The safety part of the dispatcher under this mapping.
AbsSafety == AbsC!Init /\ [][AbsC!Next]_AbsC!avars

-----------------------------------------------------------------------------
(* Lemmas on the ghost sequence of invoke ids.                             *)

\* A non-empty sequence is its front with its last element appended.
LEMMA FrontLast ==
    ASSUME NEW S, NEW s \in Seq(S), s # <<>>
    PROVE  s = Append(SubSeq(s, 1, Len(s) - 1), s[Len(s)])
<1>1. Len(s) \in Nat \ {0}
    OBVIOUS
<1>2. SubSeq(s, 1, Len(s)) = SubSeq(s, 1, Len(s) - 1) \o <<s[Len(s)]>>
    BY <1>1, SubSeqRecursiveSecond
<1>3. SubSeq(s, 1, Len(s) - 1) \in Seq(S) /\ s[Len(s)] \in S
    BY <1>1, SubSeqProperties
<1>. QED
    BY <1>2, <1>3, SubSeqFull, AppendIsConcat

\* The front of a sequence with one element appended is the sequence.
LEMMA FrontAppend ==
    ASSUME NEW S, NEW s \in Seq(S), NEW x \in S
    PROVE  SubSeq(Append(s, x), 1, Len(Append(s, x)) - 1) = s
<1>1. Append(s, x) \in Seq(S) /\ Append(s, x) # <<>>
      /\ Len(Append(s, x)) = Len(s) + 1 /\ Append(s, x)[Len(s) + 1] = x
    BY AppendProperties
<1>2. Append(s, x) = Append(SubSeq(Append(s, x), 1, Len(s)), x)
    BY <1>1, FrontLast
<1>3. SubSeq(Append(s, x), 1, Len(s)) \in Seq(S)
    BY <1>1, SubSeqProperties
<1>. QED
    BY <1>1, <1>2, <1>3, AppendInjective

-----------------------------------------------------------------------------
(* The inductive invariant.                                                *)

LEMMA RefInvInit == Init => RefInv
BY InitTypeInv DEF Init, RefInv

LEMMA RefInvNext == RefInv /\ [Next]_vars => RefInv'
<1> SUFFICES ASSUME RefInv, [Next]_vars
             PROVE  pc' = "await" => consumed' # <<>> /\ consumed'[Len(consumed')] = serving'
    BY NextTypeInv DEF RefInv
<1>0. consumed \in Seq(Ids) /\ (pc = "await" <=> serving # NoId)
    BY DEF RefInv, TypeInv, TypeOK
<1>1. CASE CallHandler
    <2> DEFINE id == Head(stdin).id
    <2>1. id \in Ids /\ consumed' = Append(consumed, id)
        BY <1>1, HeadLine DEF RefInv, TypeInv, TypeOK, CallHandler, Invoke, ReadLine
    <2>2. pc' = "await" => serving' = id
        BY <1>1 DEF CallHandler, Invoke, ReadLine
    <2>. QED
        BY <1>0, <2>1, <2>2, AppendProperties
<1>2. CASE InvalidMessage \/ RequestCreationError \/ IgnoreLine
    BY <1>2 DEF InvalidMessage, RequestCreationError, IgnoreLine, Invoke, ReadLine
<1>3. CASE UNCHANGED <<pc, consumed, serving>>
    BY <1>3 DEF RefInv
<1>4. CASE HandlerFulfilled \/ HandlerRejected \/ BootFail \/ Boot \/ LoadFail
            \/ LoadExec \/ LoadDone \/ LoadRejected \/ Exit
    BY <1>4 DEF HandlerFulfilled, HandlerRejected, BootFail, Boot, LoadFail,
                LoadExec, LoadDone, LoadRejected, Exit
<1>. QED
    BY <1>1, <1>2, <1>3, <1>4
    DEF Next, WorkerStep, Supervisor, AwaitJob, AwaitSpin, Send, Close, Terminated, vars

-----------------------------------------------------------------------------
(* The refinement.                                                         *)

LEMMA InitRefines == Init => AbsC!Init
BY DEF Init, AbsC!Init, Phase, Answered

\* Every step of the worker is a step of the dispatcher under the mapping,
\* or leaves the mapped state unchanged.
LEMMA StepRefines == RefInv /\ [Next]_vars => [AbsC!Next]_AbsC!avars
<1> SUFFICES ASSUME RefInv, [Next]_vars PROVE [AbsC!Next]_AbsC!avars
    OBVIOUS
<1>0. /\ consumed \in Seq(Ids) /\ stdin \in Seq(Lines)
      /\ (pc = "await" <=> serving # NoId)
      /\ pc = "await" => consumed # <<>> /\ consumed[Len(consumed)] = serving
    BY DEF RefInv, TypeInv, TypeOK
<1>1. CASE BootFail
    BY <1>1 DEF BootFail, AbsC!Next, AbsC!Fail, Phase, Answered
<1>2. CASE Boot
    BY <1>2 DEF Boot, AbsC!Next, AbsC!Start, Phase, Answered
<1>3. CASE LoadFail \/ LoadRejected
    BY <1>3 DEF LoadFail, LoadRejected, AbsC!Next, AbsC!Fail, Phase, Answered
<1>4. CASE LoadExec
    <2>1. CASE pc' = "exit1"
        BY <1>4, <2>1 DEF LoadExec, AbsC!Next, AbsC!Fail, Phase, Answered
    <2>2. CASE pc' = "loadAwait"
        BY <1>4, <2>2 DEF LoadExec, AbsC!avars, Phase, Answered
    <2>. QED
        BY <1>4, <2>1, <2>2 DEF LoadExec
<1>5. CASE LoadDone
    <2>1. CASE pc' = "exit1"
        BY <1>5, <2>1 DEF LoadDone, AbsC!Next, AbsC!Fail, Phase, Answered
    <2>2. CASE pc' = "idle"
        BY <1>5, <2>2 DEF LoadDone, AbsC!Next, AbsC!Loaded, Phase, Answered
    <2>. QED
        BY <1>5, <2>1, <2>2 DEF LoadDone
<1>6. CASE AwaitJob \/ AwaitSpin \/ Terminated \/ UNCHANGED vars
    BY <1>6 DEF AwaitJob, AwaitSpin, Terminated, vars, AbsC!avars, Phase, Answered
<1>7. CASE IgnoreLine
    BY <1>7 DEF IgnoreLine, ReadLine, AbsC!Next, AbsC!Serve, AbsC!Skip, Phase, Answered
<1>8. CASE Exit
    BY <1>8 DEF Exit, AbsC!Next, AbsC!Serve, AbsC!Stop, Phase, Answered
<1>9. CASE Send \/ Close
    BY <1>9 DEF Send, Close, AbsC!Next, AbsC!Send, AbsC!Close, Phase, Answered
<1>10. CASE InvalidMessage \/ RequestCreationError
    <2>1. pc = "idle" /\ pc' = "idle" /\ consumed' = Append(consumed, Head(stdin).id)
          /\ stdin' = Tail(stdin) /\ stdin # <<>> /\ Head(stdin).kind = "invoke"
          /\ UNCHANGED <<written, eof, serving>>
        BY <1>10 DEF InvalidMessage, RequestCreationError, Invoke, ReadLine
    <2>. QED
        BY <2>1 DEF AbsC!Next, AbsC!Serve, AbsC!Answer, Phase, Answered
<1>11. CASE CallHandler
    <2> DEFINE id == Head(stdin).id
    <2>1. /\ pc = "idle" /\ serving = NoId
          /\ consumed' = Append(consumed, id) /\ id \in Ids
          /\ stdin' = Tail(stdin) /\ stdin # <<>> /\ Head(stdin).kind = "invoke"
          /\ UNCHANGED <<written, eof>>
        BY <1>0, <1>11, HeadLine DEF CallHandler, Invoke, ReadLine
    <2>2. CASE pc' = "idle"
        <3>1. serving' = serving
            BY <1>11, <2>2 DEF CallHandler
        <3>. QED
            BY <2>1, <2>2, <3>1 DEF AbsC!Next, AbsC!Serve, AbsC!Answer, Phase, Answered
    <2>3. CASE pc' = "await"
        <3>1. serving' = id
            BY <1>11, <2>1, <2>3 DEF CallHandler
        <3>2. Answered' = consumed
            BY <1>0, <2>1, <2>3, FrontAppend DEF Answered
        <3>. QED
            BY <2>1, <2>3, <3>1, <3>2 DEF AbsC!Next, AbsC!Serve, AbsC!Begin, Phase, Answered
    <2>. QED
        BY <1>11, <2>1, <2>2, <2>3 DEF CallHandler
<1>12. CASE HandlerFulfilled \/ HandlerRejected
    <2>1. /\ pc = "await" /\ pc' = "idle" /\ serving' = NoId
          /\ UNCHANGED <<stdin, written, eof, consumed>>
        BY <1>12 DEF HandlerFulfilled, HandlerRejected
    <2>2. consumed = Append(Answered, serving)
        BY <1>0, <2>1, FrontLast DEF Answered
    <2>. QED
        BY <2>1, <2>2 DEF AbsC!Next, AbsC!Finish, Phase, Answered
<1>. QED
    BY <1>1, <1>2, <1>3, <1>4, <1>5, <1>6, <1>7, <1>8, <1>9, <1>10, <1>11, <1>12
    DEF Next, WorkerStep, Supervisor

\* For every value of the constants, the worker implements the
\* dispatcher's safety: it starts, loads or fails, takes the stdin lines
\* in order, answers each invoke at once or serves it alone until its
\* answer, and exits 0 only at EOF with every line read.
THEOREM RefinesDispatcher == Spec => AbsSafety
<1>1. Spec => []RefInv
    BY RefInvInit, RefInvNext, PTL DEF Spec
<1>. QED
    BY <1>1, InitRefines, StepRefines, PTL DEF Spec, AbsSafety

=============================================================================

---------------------------- MODULE WorkerProofs ----------------------------
(***************************************************************************)
(* Proofs about Worker for every value of its constants.                  *)
(***************************************************************************)
EXTENDS Worker, SequenceTheorems, TLAPS

\* The values current_invoke_id can hold.
CurIds == {<<>>} \cup {SetCur(i) : i \in Ids}

\* TypeOK, with the fact that an execute_handler frame is awaiting exactly
\* when pc is "await" (needed: the response after the await uses it).
TypeInv ==
    /\ TypeOK
    /\ (pc = "await" <=> serving # NoId)

\* Every invocation id is non-empty and fits current_invoke_id.
IdsFit == \A i \in Ids : i # <<>> /\ Len(i) <= IdCap

\* The records whose id is the one js_bunbase_log should have given them.
TaggedRecords ==
    {r \in Records :
        r.type = "log" =>
            r.id = IF r.during = NoId THEN BundleTag ELSE r.during}

\* Inductive invariant for LogTagging: the slot matches the frame, and so
\* every record written so far is correctly tagged.
TagInv ==
    /\ TypeInv
    /\ SlotMatchesFrame
    /\ out \in Seq(TaggedRecords)

USE WorkerAssumption

-----------------------------------------------------------------------------
(* Lemmas on the records and job sequences the actions append.            *)

LEMMA LogsType ==
    ASSUME NEW lg \in BOOLEAN, NEW cur \in CurIds, NEW d \in Ids \cup {NoId}
    PROVE  Logs(lg, cur, d) \in Seq(Records)
<1>1. LogRec(cur, d) \in Records
    BY DEF LogRec, Tag, Records, CurIds
<1>. QED
    BY <1>1 DEF Logs

LEMMA OneSeq ==
    ASSUME NEW S, NEW x \in S
    PROVE  <<x>> \in Seq(S)
<1>1. <<>> \in Seq(S)
    BY EmptySeq
<1>. QED
    BY <1>1, AppendProperties, AppendIsConcat, ConcatEmptySeq

\* The records the worker writes besides logs.
LEMMA RecordsType ==
    ASSUME NEW id \in Ids, NEW c \in ErrorCodes
    PROVE  /\ ErrorRec(id, c) \in Records
           /\ ErrorRec(LoadTag, "BUNDLE_LOAD_ERROR") \in Records
           /\ ResponseRec(id) \in Records
           /\ ReadyRec \in Records
BY DEF ErrorRec, ResponseRec, ReadyRec, Records, ErrorCodes

LEMMA StraysType ==
    ASSUME NEW n \in {0, 1}
    PROVE  Strays(n) \in Seq(Jobs)
BY DEF Strays, Jobs

LEMMA PromiseStartsType ==
    ASSUME NEW ps \in PromiseStarts
    PROVE  /\ ps[1] \in {"fulfilled", "rejected", "pending"}
           /\ ps[2] \in Seq(Jobs)
<1>1. /\ ps[1] \in {"fulfilled", "rejected", "pending"}
      /\ ps[2] \in {<<>>, <<"fulfill">>, <<"reject">>}
    BY DEF PromiseStarts
<1>2. <<>> \in Seq(Jobs)
    BY EmptySeq
<1>3. <<"fulfill">> \in Seq(Jobs) /\ <<"reject">> \in Seq(Jobs)
    BY <1>2, AppendProperties, AppendIsConcat, ConcatEmptySeq DEF Jobs
<1>. QED
    BY <1>1, <1>2, <1>3

LEMMA StrayChoiceType ==
    ASSUME spawned \in 0..MaxJobs, NEW st \in StrayChoice
    PROVE  /\ st \in {0, 1}
           /\ spawned + st \in 0..MaxJobs
BY DEF StrayChoice

\* Out extended by some console logs and a list of records stays typed.
LEMMA OutConcat ==
    ASSUME NEW s \in Seq(Records), NEW t \in Seq(Records),
           NEW u \in Seq(Records)
    PROVE  (s \o t) \o u \in Seq(Records)
BY ConcatProperties

LEMMA JobsConcat ==
    ASSUME NEW s \in Seq(Jobs), NEW t \in Seq(Jobs), NEW u \in Seq(Jobs)
    PROVE  /\ s \o t \in Seq(Jobs)
           /\ s \o (t \o u) \in Seq(Jobs)
BY ConcatProperties

\* The line process_messages reads is a stdin line; an invoke carries an id.
LEMMA HeadLine ==
    ASSUME NEW s \in Seq(Lines), s # <<>>
    PROVE  /\ Head(s) \in Lines
           /\ Tail(s) \in Seq(Lines)
           /\ Head(s).kind = "invoke" => Head(s).id \in Ids
<1>1. Head(s) \in Lines /\ Tail(s) \in Seq(Lines)
    BY HeadTailProperties
<1>. QED
    BY <1>1 DEF Lines

-----------------------------------------------------------------------------
(* Type correctness.                                                       *)

LEMMA InitTypeInv == Init => TypeInv
<1>1. <<>> \in Seq(Lines) /\ <<>> \in Seq(Records) /\ <<>> \in Seq(Jobs)
      /\ <<>> \in Seq(Ids)
    BY EmptySeq
<1>2. 0 \in 0..MaxLines /\ 0 \in 0..MaxJobs
    OBVIOUS
<1>3. NoId \notin Ids
    OBVIOUS
<1>4. Init => TypeOK
    <2> SUFFICES ASSUME Init PROVE TypeOK
        OBVIOUS
    <2>1. curId \in {<<>>} \cup {SetCur(i) : i \in Ids}
        BY Zenon DEF Init
    <2>2. stdin \in Seq(Lines) /\ out \in Seq(Records) /\ jobs \in Seq(Jobs)
          /\ consumed \in Seq(Ids)
        BY <1>1 DEF Init
    <2>3. written \in 0..MaxLines /\ spawned \in 0..MaxJobs
        BY <1>2 DEF Init
    <2>4. /\ pc \in {"boot", "loading", "loadAwait", "idle", "await",
                        "exit0", "exit1"}
          /\ eof \in BOOLEAN
          /\ serving \in Ids \cup {NoId}
          /\ promise \in {"none", "pending", "fulfilled", "rejected"}
          /\ handler \in {"undefined", "default", "handler"}
        BY Zenon DEF Init
    <2>. QED
        BY <2>1, <2>2, <2>3, <2>4, Zenon DEF TypeOK
<1>5. Init => (pc = "await" <=> serving # NoId)
    BY <1>3 DEF Init
<1>. QED
    BY <1>4, <1>5 DEF TypeInv

LEMMA NextTypeInv == TypeInv /\ [Next]_vars => TypeInv'
<1> SUFFICES ASSUME TypeInv, [Next]_vars PROVE TypeInv'
    OBVIOUS
<1>. USE DEF TypeInv, TypeOK
<1>1. CASE BootFail \/ Boot
    BY <1>1 DEF BootFail, Boot
<1>2. CASE LoadFail
    <2>1. ErrorRec(LoadTag, "BUNDLE_LOAD_ERROR") \in Records
        BY DEF ErrorRec, Records, ErrorCodes
    <2>. QED
        BY <1>2, <2>1, AppendProperties DEF LoadFail
<1>3. CASE LoadExec
    <2>1. PICK lg \in BOOLEAN, st \in StrayChoice :
            \/ /\ out' = (out \o Logs(lg, curId, NoId))
                            \o <<ErrorRec(LoadTag, "BUNDLE_LOAD_ERROR")>>
               /\ jobs' = jobs \o Strays(st)
               /\ spawned' = spawned + st
               /\ pc' = "exit1"
               /\ UNCHANGED promise
            \/ \E ps \in PromiseStarts :
                 /\ out' = out \o Logs(lg, curId, NoId)
                 /\ \E order \in {Strays(st) \o ps[2], ps[2] \o Strays(st)} :
                      jobs' = jobs \o order
                 /\ spawned' = spawned + st
                 /\ promise' = ps[1]
                 /\ pc' = "loadAwait"
        BY <1>3 DEF LoadExec
    <2>2. /\ st \in {0, 1} /\ spawned + st \in 0..MaxJobs
          /\ Logs(lg, curId, NoId) \in Seq(Records)
          /\ Strays(st) \in Seq(Jobs)
          /\ <<ErrorRec(LoadTag, "BUNDLE_LOAD_ERROR")>> \in Seq(Records)
        <3>1. st \in {0, 1} /\ spawned + st \in 0..MaxJobs
            BY StrayChoiceType
        <3>2. Logs(lg, curId, NoId) \in Seq(Records)
            BY LogsType DEF CurIds
        <3>3. ErrorRec(LoadTag, "BUNDLE_LOAD_ERROR") \in Records
            BY DEF ErrorRec, Records, ErrorCodes
        <3>. QED
            BY <3>1, <3>2, <3>3, StraysType, OneSeq
    <2>3. CASE /\ out' = (out \o Logs(lg, curId, NoId))
                            \o <<ErrorRec(LoadTag, "BUNDLE_LOAD_ERROR")>>
               /\ jobs' = jobs \o Strays(st)
               /\ spawned' = spawned + st
               /\ pc' = "exit1"
               /\ UNCHANGED promise
        BY <1>3, <2>2, <2>3, OutConcat, JobsConcat DEF LoadExec
    <2>4. CASE \E ps \in PromiseStarts :
                 /\ out' = out \o Logs(lg, curId, NoId)
                 /\ \E order \in {Strays(st) \o ps[2], ps[2] \o Strays(st)} :
                      jobs' = jobs \o order
                 /\ spawned' = spawned + st
                 /\ promise' = ps[1]
                 /\ pc' = "loadAwait"
        <3>1. PICK ps \in PromiseStarts :
                 /\ out' = out \o Logs(lg, curId, NoId)
                 /\ \E order \in {Strays(st) \o ps[2], ps[2] \o Strays(st)} :
                      jobs' = jobs \o order
                 /\ spawned' = spawned + st
                 /\ promise' = ps[1]
                 /\ pc' = "loadAwait"
            BY <2>4
        <3>2. ps[1] \in {"fulfilled", "rejected", "pending"}
              /\ ps[2] \in Seq(Jobs)
            BY PromiseStartsType
        <3>3. jobs' \in Seq(Jobs)
            <4>1. PICK order \in {Strays(st) \o ps[2], ps[2] \o Strays(st)} :
                    jobs' = jobs \o order
                BY <3>1
            <4>2. /\ Strays(st) \o ps[2] \in Seq(Jobs)
                  /\ ps[2] \o Strays(st) \in Seq(Jobs)
                BY <3>2, <2>2, ConcatProperties
            <4>3. order \in Seq(Jobs)
                BY <4>1, <4>2, Zenon
            <4>. QED
                BY <4>1, <4>3, ConcatProperties
        <3>4. out' \in Seq(Records)
            BY <3>1, <2>2, ConcatProperties
        <3>. QED
            BY <1>3, <2>2, <3>1, <3>2, <3>3, <3>4 DEF LoadExec
    <2>. QED
        BY <2>1, <2>3, <2>4
<1>4. CASE LoadDone \/ LoadRejected
    <2>1. ReadyRec \in Records /\ ErrorRec(LoadTag, "BUNDLE_LOAD_ERROR") \in Records
        BY DEF ReadyRec, ErrorRec, Records, ErrorCodes
    <2>2. out' \in Seq(Records)
        <3>1. out' \in {Append(out, ReadyRec),
                        Append(out, ErrorRec(LoadTag, "BUNDLE_LOAD_ERROR"))}
            BY <1>4, Zenon DEF LoadDone, LoadRejected
        <3>2. /\ Append(out, ReadyRec) \in Seq(Records)
              /\ Append(out, ErrorRec(LoadTag, "BUNDLE_LOAD_ERROR")) \in Seq(Records)
            BY <2>1, AppendProperties
        <3>. QED
            BY <3>1, <3>2, Zenon
    <2>3. handler' \in {"undefined", "default", "handler"}
        BY <1>4 DEF LoadDone, LoadRejected
    <2>4. pc' \in {"idle", "exit1"} /\ serving' = serving /\ serving = NoId
        BY <1>4 DEF LoadDone, LoadRejected
    <2>. QED
        BY <1>4, <2>2, <2>3, <2>4 DEF LoadDone, LoadRejected
<1>5. CASE AwaitJob
    <2>1. PICK lg \in BOOLEAN, st \in StrayChoice :
            /\ out' = out \o Logs(lg, curId, serving)
            /\ jobs' = Tail(jobs) \o Strays(st)
            /\ spawned' = spawned + st
            /\ promise' = CASE Head(jobs) = "fulfill" -> "fulfilled"
                            [] Head(jobs) = "reject"  -> "rejected"
                            [] OTHER                  -> promise
        BY <1>5 DEF AwaitJob
    <2>2. /\ st \in {0, 1} /\ spawned + st \in 0..MaxJobs
          /\ Logs(lg, curId, serving) \in Seq(Records)
          /\ Strays(st) \in Seq(Jobs)
        BY StrayChoiceType, LogsType, StraysType DEF CurIds
    <2>3. jobs # <<>> /\ Tail(jobs) \in Seq(Jobs)
        BY <1>5, HeadTailProperties DEF AwaitJob
    <2>. QED
        BY <1>5, <2>1, <2>2, <2>3, ConcatProperties DEF AwaitJob
<1>6. CASE AwaitSpin
    BY <1>6 DEF AwaitSpin, vars
<1>7. CASE IgnoreLine
    BY <1>7, HeadLine DEF IgnoreLine, ReadLine
<1>8. CASE InvalidMessage
    <2>1. Head(stdin).id \in Ids /\ Tail(stdin) \in Seq(Lines)
        BY <1>8, HeadLine DEF InvalidMessage, ReadLine
    <2>2. ErrorRec(Head(stdin).id, "INVALID_MESSAGE") \in Records
        BY <2>1 DEF ErrorRec, Records, ErrorCodes
    <2>. QED
        BY <1>8, <2>1, <2>2, AppendProperties DEF InvalidMessage, ReadLine
<1>9. CASE RequestCreationError
    <2>1. Head(stdin).id \in Ids /\ Tail(stdin) \in Seq(Lines)
        BY <1>9, HeadLine DEF RequestCreationError, Invoke, ReadLine
    <2>2. ErrorRec(Head(stdin).id, "REQUEST_CREATION_ERROR") \in Records
        BY <2>1 DEF ErrorRec, Records, ErrorCodes
    <2>. QED
        BY <1>9, <2>1, <2>2, AppendProperties
        DEF RequestCreationError, Invoke, ReadLine
<1>10. CASE CallHandler
    <2> DEFINE id == Head(stdin).id
               cur == SetCur(id)
    <2>1. id \in Ids /\ Tail(stdin) \in Seq(Lines) /\ cur \in CurIds
          /\ consumed' \in Seq(Ids) /\ stdin' \in Seq(Lines)
        BY <1>10, HeadLine, AppendProperties DEF CallHandler, Invoke, ReadLine, CurIds
    <2>2. PICK lg \in BOOLEAN, st \in StrayChoice :
          /\ spawned' = spawned + st
          /\ \/ /\ out' = (out \o Logs(lg, cur, id))
                            \o <<ErrorRec(id, "HANDLER_ERROR")>>
                /\ jobs' = jobs \o Strays(st)
                /\ curId' = <<>>
                /\ UNCHANGED <<pc, serving, promise>>
             \/ /\ out' = (out \o Logs(lg, cur, id)) \o <<ResponseRec(id)>>
                /\ jobs' = jobs \o Strays(st)
                /\ curId' = <<>>
                /\ UNCHANGED <<pc, serving, promise>>
             \/ \E ps \in PromiseStarts :
                /\ out' = out \o Logs(lg, cur, id)
                /\ \E order \in {Strays(st) \o ps[2], ps[2] \o Strays(st)} :
                     jobs' = jobs \o order
                /\ curId' = cur
                /\ serving' = id
                /\ promise' = ps[1]
                /\ pc' = "await"
        BY <1>10 DEF CallHandler
    <2>3. /\ st \in {0, 1} /\ spawned' \in 0..MaxJobs
          /\ Logs(lg, cur, id) \in Seq(Records)
          /\ Strays(st) \in Seq(Jobs)
          /\ <<ErrorRec(id, "HANDLER_ERROR")>> \in Seq(Records)
          /\ <<ResponseRec(id)>> \in Seq(Records)
        <3>1. st \in {0, 1} /\ spawned + st \in 0..MaxJobs
            BY StrayChoiceType
        <3>2. Logs(lg, cur, id) \in Seq(Records)
            BY <2>1, LogsType
        <3>3. ErrorRec(id, "HANDLER_ERROR") \in Records
              /\ ResponseRec(id) \in Records
            BY <2>1, RecordsType DEF ErrorCodes
        <3>. QED
            BY <2>2, <3>1, <3>2, <3>3, StraysType, OneSeq
    <2>4. UNCHANGED <<written, eof, handler>> /\ pc = "idle"
        BY <1>10 DEF CallHandler, Invoke, ReadLine
    <2>5. CASE /\ out' = (out \o Logs(lg, cur, id))
                            \o <<ErrorRec(id, "HANDLER_ERROR")>>
               /\ jobs' = jobs \o Strays(st)
               /\ curId' = <<>>
               /\ UNCHANGED <<pc, serving, promise>>
        BY <2>1, <2>3, <2>4, <2>5, OutConcat, JobsConcat
    <2>6. CASE /\ out' = (out \o Logs(lg, cur, id)) \o <<ResponseRec(id)>>
               /\ jobs' = jobs \o Strays(st)
               /\ curId' = <<>>
               /\ UNCHANGED <<pc, serving, promise>>
        BY <2>1, <2>3, <2>4, <2>6, OutConcat, JobsConcat
    <2>7. CASE \E ps \in PromiseStarts :
                /\ out' = out \o Logs(lg, cur, id)
                /\ \E order \in {Strays(st) \o ps[2], ps[2] \o Strays(st)} :
                     jobs' = jobs \o order
                /\ curId' = cur
                /\ serving' = id
                /\ promise' = ps[1]
                /\ pc' = "await"
        <3>1. PICK ps \in PromiseStarts :
                /\ out' = out \o Logs(lg, cur, id)
                /\ \E order \in {Strays(st) \o ps[2], ps[2] \o Strays(st)} :
                     jobs' = jobs \o order
                /\ curId' = cur
                /\ serving' = id
                /\ promise' = ps[1]
                /\ pc' = "await"
            BY <2>7
        <3>2. ps[1] \in {"fulfilled", "rejected", "pending"}
              /\ ps[2] \in Seq(Jobs)
            BY PromiseStartsType
        <3>3. jobs' \in Seq(Jobs)
            <4>1. PICK order \in {Strays(st) \o ps[2], ps[2] \o Strays(st)} :
                    jobs' = jobs \o order
                BY <3>1
            <4>2. /\ Strays(st) \o ps[2] \in Seq(Jobs)
                  /\ ps[2] \o Strays(st) \in Seq(Jobs)
                BY <3>2, <2>3, ConcatProperties
            <4>3. order \in Seq(Jobs)
                BY <4>1, <4>2, Zenon
            <4>. QED
                BY <4>1, <4>3, ConcatProperties
        <3>4. out' \in Seq(Records)
            BY <3>1, <2>3, ConcatProperties
        <3>. QED
            BY <2>1, <2>3, <2>4, <3>1, <3>2, <3>3, <3>4
    <2>. QED
        BY <2>2, <2>5, <2>6, <2>7
<1>11. CASE HandlerFulfilled \/ HandlerRejected
    <2>1. serving \in Ids
        BY <1>11 DEF HandlerFulfilled, HandlerRejected
    <2>2. ResponseRec(serving) \in Records
          /\ ErrorRec(serving, "HANDLER_ERROR") \in Records
        BY <2>1 DEF ResponseRec, ErrorRec, Records, ErrorCodes
    <2>3. out' \in Seq(Records)
        <3>1. out' \in {Append(out, ResponseRec(serving)),
                        Append(out, ErrorRec(serving, "HANDLER_ERROR"))}
            BY <1>11, Zenon DEF HandlerFulfilled, HandlerRejected
        <3>2. /\ Append(out, ResponseRec(serving)) \in Seq(Records)
              /\ Append(out, ErrorRec(serving, "HANDLER_ERROR")) \in Seq(Records)
            BY <2>2, AppendProperties
        <3>. QED
            BY <3>1, <3>2, Zenon
    <2>. QED
        BY <1>11, <2>3 DEF HandlerFulfilled, HandlerRejected
<1>12. CASE Exit
    BY <1>12 DEF Exit
<1>13. CASE Send
    <2>1. PICK l \in Lines : stdin' = Append(stdin, l)
        BY <1>13 DEF Send
    <2>. QED
        BY <1>13, <2>1, AppendProperties DEF Send
<1>14. CASE Close
    BY <1>14 DEF Close
<1>15. CASE Terminated \/ UNCHANGED vars
    BY <1>15 DEF Terminated, vars
<1>. QED
    BY <1>1, <1>2, <1>3, <1>4, <1>5, <1>6, <1>7, <1>8, <1>9, <1>10,
       <1>11, <1>12, <1>13, <1>14, <1>15
    DEF Next, WorkerStep, Supervisor

\* Every reachable state of the worker is well typed: stdout holds only
\* ready, response, error and log records, and a response or error after
\* js_std_await always has the id of the invocation it answers.
THEOREM TypeCorrect == Spec => []TypeOK
<1>1. Spec => []TypeInv
    BY InitTypeInv, NextTypeInv, PTL DEF Spec
<1>. QED
    BY <1>1, PTL DEF TypeInv

-----------------------------------------------------------------------------
(* Log tagging, when every invocation id fits current_invoke_id.          *)

\* A non-empty id that fits the slot is copied whole and tags as itself.
LEMMA FitTag ==
    ASSUME IdsFit, NEW i \in Ids
    PROVE  SetCur(i) = i /\ Tag(i) = i
<1>1. i \in Seq(Chars) /\ i # <<>> /\ Len(i) <= IdCap
    BY DEF IdsFit
<1>2. SetCur(i) = SubSeq(i, 1, Len(i))
    BY <1>1 DEF SetCur
<1>3. SubSeq(i, 1, Len(i)) = i
    BY <1>1, SubSeqFull
<1>. QED
    BY <1>1, <1>2, <1>3 DEF Tag

\* The console records made while the slot matches the frame are tagged.
LEMMA LogsTagged ==
    ASSUME IdsFit, NEW lg \in BOOLEAN, NEW d \in Ids \cup {NoId}
    PROVE  Logs(lg, IF d = NoId THEN <<>> ELSE SetCur(d), d)
               \in Seq(TaggedRecords)
<1> DEFINE cur == IF d = NoId THEN <<>> ELSE SetCur(d)
<1>1. LogRec(cur, d) \in Records
    BY DEF LogRec, Tag, Records
<1>2. Tag(cur) = IF d = NoId THEN BundleTag ELSE d
    <2>1. CASE d = NoId
        BY <2>1 DEF Tag
    <2>2. CASE d # NoId
        BY <2>2, FitTag
    <2>. QED
        BY <2>1, <2>2
<1>3. LogRec(cur, d) \in TaggedRecords
    BY <1>1, <1>2 DEF TaggedRecords, LogRec
<1>4. <<>> \in Seq(TaggedRecords)
    BY EmptySeq
<1>. QED
    BY <1>3, <1>4, OneSeq DEF Logs

\* A record other than a log is tagged whatever its id.
LEMMA NonLogTagged ==
    ASSUME NEW r \in Records, r.type # "log"
    PROVE  <<r>> \in Seq(TaggedRecords)
<1>1. r \in TaggedRecords
    BY DEF TaggedRecords
<1>. QED
    BY <1>1, OneSeq

LEMMA TaggedConcat ==
    ASSUME NEW s \in Seq(TaggedRecords), NEW t \in Seq(TaggedRecords),
           NEW u \in Seq(TaggedRecords)
    PROVE  /\ s \o t \in Seq(TaggedRecords)
           /\ (s \o t) \o u \in Seq(TaggedRecords)
BY ConcatProperties

LEMMA TaggedAppend ==
    ASSUME NEW s \in Seq(TaggedRecords), NEW r \in Records, r.type # "log"
    PROVE  Append(s, r) \in Seq(TaggedRecords)
<1>1. r \in TaggedRecords
    BY DEF TaggedRecords
<1>. QED
    BY <1>1, AppendProperties

LEMMA InitTagInv == Init => TagInv
<1>1. Init => out \in Seq(TaggedRecords)
    BY EmptySeq DEF Init
<1>2. Init => SlotMatchesFrame
    BY DEF Init, SlotMatchesFrame
<1>. QED
    BY <1>1, <1>2, InitTypeInv DEF TagInv

\* The slot js_bunbase_log reads follows the frame the worker is in on
\* every step, whatever the ids look like.
LEMMA NextSlot == TypeInv /\ SlotMatchesFrame /\ [Next]_vars => SlotMatchesFrame'
<1> SUFFICES ASSUME TypeInv, SlotMatchesFrame, [Next]_vars
             PROVE  SlotMatchesFrame'
    OBVIOUS
<1>. USE DEF TypeInv, TypeOK
<1>1. CASE BootFail \/ Boot \/ AwaitSpin \/ IgnoreLine \/ Exit \/ Send
              \/ Close \/ Terminated \/ UNCHANGED vars
    BY <1>1 DEF BootFail, Boot, AwaitSpin, IgnoreLine, Exit, Send, Close,
                Terminated, vars, SlotMatchesFrame
<1>2. CASE LoadFail \/ LoadDone \/ LoadRejected \/ LoadExec \/ AwaitJob
    BY <1>2 DEF LoadFail, LoadDone, LoadRejected, LoadExec, AwaitJob,
                SlotMatchesFrame
<1>3. CASE InvalidMessage \/ RequestCreationError
    <2>1. serving = NoId
        BY <1>3 DEF InvalidMessage, RequestCreationError, Invoke, ReadLine
    <2>. QED
        BY <1>3, <2>1
        DEF InvalidMessage, RequestCreationError, SlotMatchesFrame
<1>4. CASE CallHandler
    <2> DEFINE id == Head(stdin).id
    <2>1. id \in Ids /\ id # NoId /\ serving = NoId
        BY <1>4, HeadLine DEF CallHandler, Invoke, ReadLine
    <2>2. \/ curId' = <<>> /\ serving' = serving
          \/ curId' = SetCur(id) /\ serving' = id
        BY <1>4 DEF CallHandler
    <2>. QED
        BY <2>1, <2>2 DEF SlotMatchesFrame
<1>5. CASE HandlerFulfilled \/ HandlerRejected
    BY <1>5 DEF HandlerFulfilled, HandlerRejected, SlotMatchesFrame
<1>. QED
    BY <1>1, <1>2, <1>3, <1>4, <1>5 DEF Next, WorkerStep, Supervisor

LEMMA NextTagInv == IdsFit /\ TagInv /\ [Next]_vars => TagInv'
<1> SUFFICES ASSUME IdsFit, TagInv, [Next]_vars
             PROVE  out' \in Seq(TaggedRecords)
    BY NextTypeInv, NextSlot DEF TagInv
<1>. USE DEF TagInv, TypeInv, TypeOK
<1>1. CASE BootFail \/ Boot \/ AwaitSpin \/ IgnoreLine \/ Exit \/ Send
              \/ Close \/ Terminated \/ UNCHANGED vars
    BY <1>1 DEF BootFail, Boot, AwaitSpin, IgnoreLine, Exit, Send, Close,
                Terminated, vars
<1>2. CASE LoadFail \/ LoadDone \/ LoadRejected
    <2>1. /\ ErrorRec(LoadTag, "BUNDLE_LOAD_ERROR") \in Records
          /\ ErrorRec(LoadTag, "BUNDLE_LOAD_ERROR").type # "log"
          /\ ReadyRec \in Records /\ ReadyRec.type # "log"
        BY DEF ErrorRec, ReadyRec, Records, ErrorCodes
    <2>2. /\ Append(out, ReadyRec) \in Seq(TaggedRecords)
          /\ Append(out, ErrorRec(LoadTag, "BUNDLE_LOAD_ERROR"))
               \in Seq(TaggedRecords)
        BY <2>1, TaggedAppend
    <2>3. out' \in {Append(out, ReadyRec),
                    Append(out, ErrorRec(LoadTag, "BUNDLE_LOAD_ERROR"))}
        BY <1>2, Zenon DEF LoadFail, LoadDone, LoadRejected
    <2>. QED
        BY <2>2, <2>3, Zenon
<1>3. CASE LoadExec
    <2>1. serving = NoId /\ curId = <<>>
        BY <1>3 DEF LoadExec, SlotMatchesFrame
    <2>2. PICK lg \in BOOLEAN, st \in StrayChoice :
            \/ out' = (out \o Logs(lg, curId, NoId))
                         \o <<ErrorRec(LoadTag, "BUNDLE_LOAD_ERROR")>>
            \/ out' = out \o Logs(lg, curId, NoId)
        BY <1>3 DEF LoadExec
    <2>3. Logs(lg, curId, NoId) \in Seq(TaggedRecords)
        BY <2>1, LogsTagged
    <2>4. <<ErrorRec(LoadTag, "BUNDLE_LOAD_ERROR")>> \in Seq(TaggedRecords)
        <3>1. ErrorRec(LoadTag, "BUNDLE_LOAD_ERROR") \in Records
              /\ ErrorRec(LoadTag, "BUNDLE_LOAD_ERROR").type # "log"
            BY DEF ErrorRec, Records, ErrorCodes
        <3>. QED
            BY <3>1, NonLogTagged
    <2>5. /\ (out \o Logs(lg, curId, NoId))
               \o <<ErrorRec(LoadTag, "BUNDLE_LOAD_ERROR")>>
               \in Seq(TaggedRecords)
          /\ out \o Logs(lg, curId, NoId) \in Seq(TaggedRecords)
        BY <2>3, <2>4, TaggedConcat
    <2>. QED
        BY <2>2, <2>5, Zenon
<1>4. CASE AwaitJob
    <2>1. PICK lg \in BOOLEAN : out' = out \o Logs(lg, curId, serving)
        BY <1>4 DEF AwaitJob
    <2>2. Logs(lg, curId, serving) \in Seq(TaggedRecords)
        BY LogsTagged DEF SlotMatchesFrame
    <2>. QED
        BY <2>1, <2>2, ConcatProperties
<1>5. CASE InvalidMessage \/ RequestCreationError
    <2>1. Head(stdin).id \in Ids
        BY <1>5, HeadLine DEF InvalidMessage, RequestCreationError, Invoke,
                              ReadLine
    <2>2. /\ ErrorRec(Head(stdin).id, "INVALID_MESSAGE") \in Records
          /\ ErrorRec(Head(stdin).id, "REQUEST_CREATION_ERROR") \in Records
          /\ ErrorRec(Head(stdin).id, "INVALID_MESSAGE").type # "log"
          /\ ErrorRec(Head(stdin).id, "REQUEST_CREATION_ERROR").type # "log"
        BY <2>1 DEF ErrorRec, Records, ErrorCodes
    <2>. QED
        BY <1>5, <2>2, TaggedAppend
        DEF InvalidMessage, RequestCreationError
<1>6. CASE CallHandler
    <2> DEFINE id == Head(stdin).id
    <2>1. id \in Ids /\ id # NoId /\ serving = NoId
        BY <1>6, HeadLine DEF CallHandler, Invoke, ReadLine
    <2>2. PICK lg \in BOOLEAN, st \in StrayChoice :
          \/ /\ out' = (out \o Logs(lg, SetCur(id), id))
                        \o <<ErrorRec(id, "HANDLER_ERROR")>>
             /\ curId' = <<>>
             /\ serving' = serving
          \/ /\ out' = (out \o Logs(lg, SetCur(id), id))
                        \o <<ResponseRec(id)>>
             /\ curId' = <<>>
             /\ serving' = serving
          \/ /\ out' = out \o Logs(lg, SetCur(id), id)
             /\ curId' = SetCur(id)
             /\ serving' = id
        BY <1>6 DEF CallHandler
    <2>3. Logs(lg, SetCur(id), id) \in Seq(TaggedRecords)
        BY <2>1, LogsTagged
    <2>4. /\ <<ErrorRec(id, "HANDLER_ERROR")>> \in Seq(TaggedRecords)
          /\ <<ResponseRec(id)>> \in Seq(TaggedRecords)
        <3>1. /\ ErrorRec(id, "HANDLER_ERROR") \in Records
              /\ ResponseRec(id) \in Records
              /\ ErrorRec(id, "HANDLER_ERROR").type # "log"
              /\ ResponseRec(id).type # "log"
            BY <2>1 DEF ErrorRec, ResponseRec, Records, ErrorCodes
        <3>. QED
            BY <3>1, NonLogTagged
    <2>5. /\ (out \o Logs(lg, SetCur(id), id)) \o <<ErrorRec(id, "HANDLER_ERROR")>>
               \in Seq(TaggedRecords)
          /\ (out \o Logs(lg, SetCur(id), id)) \o <<ResponseRec(id)>>
               \in Seq(TaggedRecords)
          /\ out \o Logs(lg, SetCur(id), id) \in Seq(TaggedRecords)
        BY <2>3, <2>4, TaggedConcat
    <2>. QED
        BY <2>2, <2>5, Zenon
<1>7. CASE HandlerFulfilled \/ HandlerRejected
    <2>1. serving \in Ids
        BY <1>7 DEF HandlerFulfilled, HandlerRejected
    <2>2. /\ ResponseRec(serving) \in Records
          /\ ErrorRec(serving, "HANDLER_ERROR") \in Records
          /\ ResponseRec(serving).type # "log"
          /\ ErrorRec(serving, "HANDLER_ERROR").type # "log"
        BY <2>1 DEF ResponseRec, ErrorRec, Records, ErrorCodes
    <2>3. /\ Append(out, ResponseRec(serving)) \in Seq(TaggedRecords)
          /\ Append(out, ErrorRec(serving, "HANDLER_ERROR"))
               \in Seq(TaggedRecords)
        BY <2>2, TaggedAppend
    <2>4. out' \in {Append(out, ResponseRec(serving)),
                    Append(out, ErrorRec(serving, "HANDLER_ERROR"))}
        BY <1>7, Zenon DEF HandlerFulfilled, HandlerRejected
    <2>. QED
        BY <2>3, <2>4, Zenon
<1>. QED
    BY <1>1, <1>2, <1>3, <1>4, <1>5, <1>6, <1>7
    DEF Next, WorkerStep, Supervisor

\* When every invocation id is non-empty and at most IdCap (63) characters
\* long, every log record js_bunbase_log writes carries the id of the
\* invocation whose handler or continuation made the console call, and
\* "bundle" for calls made while the module is evaluated.
THEOREM LogTaggingHolds ==
    ASSUME IdsFit
    PROVE  Spec => []LogTagging
<1>1. Init => TagInv
    BY InitTagInv
<1>2. TagInv /\ [Next]_vars => TagInv'
    BY NextTagInv
<1>3. TagInv => LogTagging
    <2> SUFFICES ASSUME TagInv, NEW i \in 1..Len(out), out[i].type = "log"
                 PROVE  out[i].id = IF out[i].during = NoId THEN BundleTag
                                                           ELSE out[i].during
        BY DEF LogTagging
    <2>1. out[i] \in TaggedRecords
        BY DEF TagInv
    <2>. QED
        BY <2>1 DEF TaggedRecords
<1>. QED
    BY <1>1, <1>2, <1>3, PTL DEF Spec

\* Whatever the invocation ids are, js_bunbase_log always reads the id of
\* the frame the worker is in: current_invoke_id holds the (truncated) id
\* of the invocation being served while it is served, and is empty while
\* the module is evaluated and between invocations; every exit path of
\* handle_invoke clears it.
THEOREM SlotMatchesFrameHolds == Spec => []SlotMatchesFrame
<1>1. Init => TypeInv /\ SlotMatchesFrame
    BY InitTypeInv DEF Init, SlotMatchesFrame
<1>2. TypeInv /\ SlotMatchesFrame /\ [Next]_vars
        => TypeInv' /\ SlotMatchesFrame'
    BY NextTypeInv, NextSlot
<1>. QED
    BY <1>1, <1>2, PTL DEF Spec

=============================================================================

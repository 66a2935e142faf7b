------------------------- MODULE WorkerStdoutProofs -------------------------
(***************************************************************************)
(* Stdout, for every value of the constants: its shape (StdoutShape), and  *)
(* the lemmas on appended records that WorkerRepliesProofs rests on.       *)
(***************************************************************************)
EXTENDS WorkerProofs

\* The record main sends when load_bundle fails.
LoadError == ErrorRec(LoadTag, "BUNDLE_LOAD_ERROR")

\* A console record made outside any invocation.
BundleLog(r) == r.type = "log" /\ r.id = BundleTag

\* A record that may follow ready: neither a second ready nor a load error.
Quiet(r) == r.type # "ready" /\ r # LoadError

BundleLogs(s) == \A i \in 1..Len(s) : BundleLog(s[i])

QuietSeq(s) == \A i \in 1..Len(s) : Quiet(s[i])

\* s has ready at k, only module-time logs before it, and nothing after
\* it that is a ready or a load error.
ReadyAt(s, k) ==
    /\ k \in 1..Len(s)
    /\ s[k] = ReadyRec
    /\ \A i \in 1..(k - 1) : BundleLog(s[i])
    /\ \A j \in (k + 1)..Len(s) : Quiet(s[j])

\* s is module-time logs followed by the load error.
LoadFailed(s) ==
    /\ s # <<>>
    /\ s[Len(s)] = LoadError
    /\ \A i \in 1..(Len(s) - 1) : BundleLog(s[i])

\* Inductive invariant for StdoutShape, by the phase p of main and the
\* records s on stdout: before ready
\* stdout holds only module-time logs; exit 1 adds at most a load error at
\* the end; from ready on, the single ready is followed only by quiet
\* records.
Shaped(p, s) ==
    /\ p \in {"boot", "loading", "loadAwait"} => BundleLogs(s)
    /\ p = "exit1" => BundleLogs(s) \/ LoadFailed(s)
    /\ p \in {"idle", "await", "exit0"} => \E k \in 1..Len(s) : ReadyAt(s, k)

ShapeInv == TypeInv /\ SlotMatchesFrame /\ Shaped(pc, out)

-----------------------------------------------------------------------------
(* Lemmas on what the actions append to stdout.                           *)

\* Module-time logs followed by module-time logs.
LEMMA BundleConcat ==
    ASSUME NEW s \in Seq(Records), NEW t \in Seq(Records),
           BundleLogs(s), BundleLogs(t)
    PROVE  BundleLogs(s \o t)
BY DEF BundleLogs

\* Quiet records appended after ready keep it the single ready.
LEMMA QuietConcat ==
    ASSUME NEW s \in Seq(Records), NEW t \in Seq(Records), NEW k \in Nat,
           ReadyAt(s, k), QuietSeq(t)
    PROVE  ReadyAt(s \o t, k)
BY DEF ReadyAt, QuietSeq

\* Ready sent after module-time logs.
LEMMA ReadyAppend ==
    ASSUME NEW s \in Seq(Records), BundleLogs(s)
    PROVE  ReadyAt(Append(s, ReadyRec), Len(s) + 1)
BY DEF ReadyAt, BundleLogs

\* console.* outside an invocation tags "bundle".
LEMMA LogsBundle ==
    ASSUME NEW lg \in BOOLEAN, NEW d
    PROVE  BundleLogs(Logs(lg, <<>>, d))
BY DEF BundleLogs, BundleLog, Logs, LogRec, Tag

\* Logs are quiet, and so is every answer to an invocation.
LEMMA LogsQuiet ==
    ASSUME NEW lg \in BOOLEAN, NEW cur, NEW d
    PROVE  QuietSeq(Logs(lg, cur, d))
BY DEF QuietSeq, Quiet, Logs, LogRec, LoadError, ErrorRec

LEMMA AnswerQuiet ==
    ASSUME NEW id, NEW c \in ErrorCodes \ {"BUNDLE_LOAD_ERROR"}
    PROVE  /\ QuietSeq(<<ErrorRec(id, c)>>)
           /\ QuietSeq(<<ResponseRec(id)>>)
BY DEF QuietSeq, Quiet, LoadError, ErrorRec, ResponseRec

\* A load error sent after module-time logs.
LEMMA LoadErrorAppend ==
    ASSUME NEW s \in Seq(Records), BundleLogs(s)
    PROVE  LoadFailed(Append(s, LoadError))
BY DEF LoadFailed, BundleLogs

\* Stdout after ready stays in shape when quiet records are added.
LEMMA ReadyExtend ==
    ASSUME NEW s \in Seq(Records), NEW t \in Seq(Records),
           \E k \in 1..Len(s) : ReadyAt(s, k), QuietSeq(t)
    PROVE  \E k \in 1..Len(s \o t) : ReadyAt(s \o t, k)
<1>1. PICK k \in 1..Len(s) : ReadyAt(s, k)
    OBVIOUS
<1>2. ReadyAt(s \o t, k)
    BY <1>1, QuietConcat
<1>. QED
    BY <1>2 DEF ReadyAt

\* A log or an answer written once ready is out.
LEMMA QuietOne ==
    ASSUME NEW r \in Records, Quiet(r)
    PROVE  <<r>> \in Seq(Records) /\ QuietSeq(<<r>>)
BY OneSeq DEF QuietSeq

-----------------------------------------------------------------------------
(* The invariant.                                                          *)

LEMMA ShapeInit == Init => ShapeInv
<1> SUFFICES ASSUME Init PROVE ShapeInv
    OBVIOUS
<1>1. TypeInv /\ SlotMatchesFrame
    BY InitTypeInv, InitTagInv DEF TagInv
<1>. QED
    BY <1>1 DEF Init, ShapeInv, Shaped, BundleLogs

LEMMA ShapeNext == ShapeInv /\ [Next]_vars => ShapeInv'
<1> SUFFICES ASSUME ShapeInv, [Next]_vars PROVE Shaped(pc', out')
    BY NextTypeInv, NextSlot DEF ShapeInv
<1>0. /\ out \in Seq(Records)
      /\ curId \in CurIds
      /\ serving \in Ids \cup {NoId}
      /\ pc # "await" => curId = <<>>
    BY DEF ShapeInv, TypeInv, TypeOK, SlotMatchesFrame, CurIds
<1>1. CASE BootFail \/ Boot
    BY <1>1 DEF BootFail, Boot, ShapeInv, Shaped
<1>2. CASE LoadFail \/ LoadRejected
    <2>1. BundleLogs(out)
        BY <1>2 DEF LoadFail, LoadRejected, ShapeInv, Shaped
    <2>. QED
        BY <1>2, <2>1, <1>0, LoadErrorAppend DEF LoadFail, LoadRejected, Shaped, LoadError
<1>3. CASE LoadExec
    <2>1. BundleLogs(out) /\ curId = <<>>
        BY <1>3, <1>0 DEF LoadExec, ShapeInv, Shaped
    <2>2. PICK lg \in BOOLEAN :
            \/ out' = (out \o Logs(lg, curId, NoId)) \o <<LoadError>> /\ pc' = "exit1"
            \/ out' = out \o Logs(lg, curId, NoId) /\ pc' = "loadAwait"
        BY <1>3 DEF LoadExec, LoadError
    <2> DEFINE pre == out \o Logs(lg, <<>>, NoId)
    <2>3. pre \in Seq(Records) /\ BundleLogs(pre)
        BY <1>0, <2>1, LogsType, LogsBundle, BundleConcat, ConcatProperties DEF CurIds
    <2>4. LoadError \in Records
        BY DEF LoadError, ErrorRec, Records, ErrorCodes
    <2>5. pre \o <<LoadError>> = Append(pre, LoadError)
        BY <2>3, <2>4, AppendIsConcat
    <2>. QED
        BY <2>1, <2>2, <2>3, <2>5, LoadErrorAppend DEF Shaped
<1>4. CASE LoadDone
    <2>1. BundleLogs(out)
        BY <1>4 DEF LoadDone, ShapeInv, Shaped
    <2>2. \/ out' = Append(out, ReadyRec) /\ pc' = "idle"
          \/ out' = Append(out, LoadError) /\ pc' = "exit1"
        BY <1>4 DEF LoadDone, LoadError
    <2>3. ReadyAt(Append(out, ReadyRec), Len(out) + 1)
        BY <1>0, <2>1, ReadyAppend
    <2>4. Len(out) + 1 \in 1..Len(Append(out, ReadyRec))
        BY <1>0, RecordsType, AppendProperties
    <2>. QED
        BY <1>0, <2>1, <2>2, <2>3, <2>4, LoadErrorAppend DEF Shaped
<1>5. CASE AwaitJob
    <2>1. PICK lg \in BOOLEAN : out' = out \o Logs(lg, curId, serving)
        BY <1>5 DEF AwaitJob
    <2>2. Logs(lg, curId, serving) \in Seq(Records) /\ QuietSeq(Logs(lg, curId, serving))
        BY <1>0, LogsType, LogsQuiet
    <2>3. CASE pc = "loadAwait"
        <3>1. BundleLogs(out) /\ curId = <<>>
            BY <2>3, <1>0 DEF ShapeInv, Shaped
        <3>2. BundleLogs(out \o Logs(lg, curId, serving))
            BY <1>0, <2>2, <3>1, LogsBundle, BundleConcat
        <3>. QED
            BY <1>5, <2>1, <2>3, <3>2 DEF AwaitJob, Shaped
    <2>4. CASE pc = "await"
        <3>1. \E k \in 1..Len(out) : ReadyAt(out, k)
            BY <2>4 DEF ShapeInv, Shaped
        <3>. QED
            BY <1>5, <1>0, <2>1, <2>2, <2>4, <3>1, ReadyExtend DEF AwaitJob, Shaped
    <2>. QED
        BY <1>5, <2>3, <2>4 DEF AwaitJob
<1>6. CASE AwaitSpin \/ IgnoreLine \/ Exit \/ Send \/ Close \/ Terminated
            \/ UNCHANGED vars
    <2>1. out' = out
        BY <1>6 DEF AwaitSpin, IgnoreLine, Exit, Send, Close, Terminated, vars
    <2>2. pc' = pc \/ (pc = "idle" /\ pc' = "exit0")
        BY <1>6 DEF AwaitSpin, IgnoreLine, Exit, Send, Close, Terminated, vars
    <2>. QED
        BY <2>1, <2>2 DEF ShapeInv, Shaped
<1>7. CASE InvalidMessage \/ RequestCreationError \/ HandlerFulfilled \/ HandlerRejected
    <2>1. PICK r \in Records : Quiet(r) /\ out' = Append(out, r)
        <3>1. CASE InvalidMessage \/ RequestCreationError
            <4>1. Head(stdin).id \in Ids
                BY <3>1, HeadLine DEF ShapeInv, TypeInv, TypeOK, InvalidMessage,
                                     RequestCreationError, Invoke, ReadLine
            <4>2. PICK c \in {"INVALID_MESSAGE", "REQUEST_CREATION_ERROR"} :
                    out' = Append(out, ErrorRec(Head(stdin).id, c))
                BY <3>1 DEF InvalidMessage, RequestCreationError
            <4>3. ErrorRec(Head(stdin).id, c) \in Records
                BY <4>1, RecordsType DEF ErrorCodes
            <4>4. Quiet(ErrorRec(Head(stdin).id, c))
                BY DEF Quiet, LoadError, ErrorRec
            <4>. QED
                BY <4>2, <4>3, <4>4
        <3>2. CASE HandlerFulfilled \/ HandlerRejected
            <4>1. serving \in Ids
                BY <3>2 DEF ShapeInv, TypeInv, TypeOK, HandlerFulfilled, HandlerRejected
            <4>2. \/ out' = Append(out, ResponseRec(serving))
                  \/ out' = Append(out, ErrorRec(serving, "HANDLER_ERROR"))
                BY <3>2 DEF HandlerFulfilled, HandlerRejected
            <4>3. /\ ResponseRec(serving) \in Records
                  /\ ErrorRec(serving, "HANDLER_ERROR") \in Records
                BY <4>1, RecordsType DEF ErrorCodes
            <4>4. Quiet(ResponseRec(serving)) /\ Quiet(ErrorRec(serving, "HANDLER_ERROR"))
                BY DEF Quiet, LoadError, ErrorRec, ResponseRec
            <4>. QED
                BY <4>2, <4>3, <4>4
        <3>. QED
            BY <1>7, <3>1, <3>2
    <2>2. pc \in {"idle", "await"} /\ pc' \in {"idle", "await"}
        BY <1>7 DEF InvalidMessage, RequestCreationError, HandlerFulfilled,
                    HandlerRejected, Invoke, ReadLine
    <2>3. \E k \in 1..Len(out) : ReadyAt(out, k)
        BY <2>2 DEF ShapeInv, Shaped
    <2>4. out' = out \o <<r>> /\ <<r>> \in Seq(Records) /\ QuietSeq(<<r>>)
        BY <1>0, <2>1, AppendIsConcat, QuietOne
    <2>. QED
        BY <1>0, <2>2, <2>3, <2>4, ReadyExtend DEF Shaped
<1>8. CASE CallHandler
    <2> DEFINE id == Head(stdin).id
    <2>1. pc = "idle" /\ pc' \in {"idle", "await"} /\ id \in Ids
        BY <1>8, HeadLine DEF CallHandler, Invoke, ReadLine, ShapeInv, TypeInv, TypeOK
    <2>2. PICK lg \in BOOLEAN :
            \/ out' = (out \o Logs(lg, SetCur(id), id)) \o <<ErrorRec(id, "HANDLER_ERROR")>>
            \/ out' = (out \o Logs(lg, SetCur(id), id)) \o <<ResponseRec(id)>>
            \/ out' = out \o Logs(lg, SetCur(id), id)
        BY <1>8 DEF CallHandler
    <2> DEFINE pre == out \o Logs(lg, SetCur(id), id)
    <2>3. Logs(lg, SetCur(id), id) \in Seq(Records)
          /\ QuietSeq(Logs(lg, SetCur(id), id))
        BY <2>1, LogsType, LogsQuiet DEF CurIds
    <2>4. \E k \in 1..Len(pre) : ReadyAt(pre, k)
        BY <1>0, <2>1, <2>3, ReadyExtend DEF ShapeInv, Shaped
    <2>5. pre \in Seq(Records)
        BY <1>0, <2>3, ConcatProperties
    <2>6. /\ <<ErrorRec(id, "HANDLER_ERROR")>> \in Seq(Records)
          /\ QuietSeq(<<ErrorRec(id, "HANDLER_ERROR")>>)
          /\ <<ResponseRec(id)>> \in Seq(Records)
          /\ QuietSeq(<<ResponseRec(id)>>)
        BY <2>1, RecordsType, AnswerQuiet, OneSeq DEF ErrorCodes
    <2>. QED
        BY <2>1, <2>2, <2>4, <2>5, <2>6, ReadyExtend DEF Shaped
<1>. QED
    BY <1>1, <1>2, <1>3, <1>4, <1>5, <1>6, <1>7, <1>8 DEF Next, WorkerStep, Supervisor

\* Each phase of the invariant gives the three clauses of StdoutShape.
LEMMA ShapeImplies == ShapeInv => StdoutShape
<1> SUFFICES ASSUME ShapeInv PROVE StdoutShape
    OBVIOUS
<1>0. /\ pc \in {"boot", "loading", "loadAwait", "idle", "await", "exit0", "exit1"}
      /\ out \in Seq(Records)
    BY DEF ShapeInv, TypeInv, TypeOK
<1>1. ~IsReply(LoadError) /\ LoadError.type = "error" /\ ReadyRec # LoadError
      /\ ~IsReply(ReadyRec)
    BY DEF IsReply, LoadError, ErrorRec, ReadyRec
<1>2. \A r : BundleLog(r) => ~IsReply(r) /\ r.type = "log" /\ r.id = BundleTag
    BY DEF BundleLog, IsReply
<1>3. CASE BundleLogs(out)
    <2>1. \A j \in 1..Len(out) : out[j].type = "log" /\ out[j].id = BundleTag
        BY <1>3 DEF BundleLogs, BundleLog
    <2>. QED
        BY <2>1 DEF StdoutShape, IsReply, ErrorRec
<1>4. CASE LoadFailed(out)
    <2>1. Len(out) \in Nat \ {0} /\ out[Len(out)] = LoadError
        BY <1>0, <1>4 DEF LoadFailed
    <2>2. \A j \in 1..(Len(out) - 1) : out[j].type = "log" /\ out[j].id = BundleTag
        BY <1>4 DEF LoadFailed, BundleLog
    <2>3. \A j \in 1..Len(out) : out[j].type # "ready" /\ ~IsReply(out[j])
                                /\ (out[j].type = "log" => out[j].id = BundleTag)
        BY <1>1, <2>1, <2>2 DEF IsReply
    <2>4. \A j \in 1..Len(out) : out[j] = LoadError => j = Len(out)
        BY <2>2 DEF LoadError, ErrorRec
    <2>. QED
        BY <2>3, <2>4 DEF StdoutShape, LoadError
<1>5. CASE \E k \in 1..Len(out) : ReadyAt(out, k)
    <2>1. PICK k \in 1..Len(out) : ReadyAt(out, k)
        BY <1>5
    <2>2. \A j \in 1..Len(out) :
             \/ j < k /\ BundleLog(out[j])
             \/ j = k /\ out[j] = ReadyRec
             \/ j > k /\ Quiet(out[j])
        BY <2>1 DEF ReadyAt
    <2>3. ReadyRec.type = "ready"
        BY DEF ReadyRec
    <2>4. \A j \in 1..Len(out) : out[j].type = "ready" => j = k
        BY <2>2, <2>3 DEF BundleLog, Quiet
    <2>5. \A j \in 1..Len(out) : out[j] # LoadError
        BY <1>1, <2>2 DEF BundleLog, Quiet, LoadError, ErrorRec
    <2>6. \A j \in 1..Len(out) :
             (IsReply(out[j]) \/ (out[j].type = "log" /\ out[j].id # BundleTag)) => j > k
        BY <1>1, <2>2, <2>3 DEF BundleLog, IsReply
    <2>7. k \in Nat /\ out[k].type = "ready"
        BY <2>1, <2>3 DEF ReadyAt
    <2>. QED
        BY <2>1, <2>2, <2>4, <2>5, <2>6, <2>7 DEF StdoutShape, LoadError, BundleLog
<1>. QED
    BY <1>0, <1>3, <1>4, <1>5 DEF ShapeInv, Shaped

\* Stdout of every run, for every value of the constants: nothing but
\* module-time logs precedes the single ready record of load_bundle, a
\* BUNDLE_LOAD_ERROR is the last record and comes without a ready, and
\* no reply or invocation log is written before ready.
THEOREM StdoutShapeHolds == Spec => []StdoutShape
BY ShapeInit, ShapeNext, ShapeImplies, PTL DEF Spec

-----------------------------------------------------------------------------
(* One reply per step.                                                     *)

\* Records none of which is a response or an error answering an invoke.
NoReplies(t) == \A i \in 1..Len(t) : ~IsReply(t[i])

\* u extends s, and the records after s contain no reply.
QuietAfter(s, u) ==
    /\ Len(s) <= Len(u)
    /\ SubSeq(u, 1, Len(s)) = s
    /\ \A i \in (Len(s) + 1)..Len(u) : ~IsReply(u[i])

\* u extends s, and its last record is the only candidate reply after s.
LastAfter(s, u) ==
    /\ Len(s) < Len(u)
    /\ SubSeq(u, 1, Len(s)) = s
    /\ \A i \in (Len(s) + 1)..(Len(u) - 1) : ~IsReply(u[i])

LEMMA ConcatQuiet ==
    ASSUME NEW s \in Seq(Records), NEW t \in Seq(Records), NoReplies(t)
    PROVE  QuietAfter(s, s \o t)
<1>1. Len(s \o t) = Len(s) + Len(t)
      /\ \A i \in 1..(Len(s) + Len(t)) :
            (s \o t)[i] = IF i <= Len(s) THEN s[i] ELSE t[i - Len(s)]
    BY ConcatProperties
<1>2. SubSeq(s \o t, 1, Len(s)) = s
    BY <1>1, SubSeqProperties
<1>. QED
    BY <1>1, <1>2 DEF QuietAfter, NoReplies

LEMMA ConcatLast ==
    ASSUME NEW s \in Seq(Records), NEW t \in Seq(Records), NoReplies(t),
           NEW r \in Records
    PROVE  /\ LastAfter(s, (s \o t) \o <<r>>)
           /\ ((s \o t) \o <<r>>)[Len((s \o t) \o <<r>>)] = r
<1>1. <<r>> \in Seq(Records)
    BY OneSeq
<1>2. s \o t \in Seq(Records) /\ Len(s \o t) = Len(s) + Len(t)
      /\ \A i \in 1..(Len(s) + Len(t)) :
            (s \o t)[i] = IF i <= Len(s) THEN s[i] ELSE t[i - Len(s)]
    BY ConcatProperties
<1>3. Len((s \o t) \o <<r>>) = Len(s) + Len(t) + 1
      /\ \A i \in 1..(Len(s) + Len(t) + 1) :
            ((s \o t) \o <<r>>)[i] = IF i <= Len(s) + Len(t) THEN (s \o t)[i] ELSE r
    BY <1>1, <1>2, ConcatProperties
<1>4. SubSeq((s \o t) \o <<r>>, 1, Len(s)) = s
    BY <1>2, <1>3, SubSeqProperties
<1>. QED
    BY <1>2, <1>3, <1>4 DEF LastAfter, NoReplies

LEMMA AppendLast ==
    ASSUME NEW s \in Seq(Records), NEW r \in Records
    PROVE  /\ LastAfter(s, Append(s, r))
           /\ Append(s, r)[Len(Append(s, r))] = r
<1>1. Len(Append(s, r)) = Len(s) + 1
      /\ \A i \in 1..Len(s) : Append(s, r)[i] = s[i]
      /\ Append(s, r)[Len(s) + 1] = r
    BY AppendProperties
<1>2. SubSeq(Append(s, r), 1, Len(s)) = s
    BY <1>1, SubSeqProperties
<1>. QED
    BY <1>1, <1>2 DEF LastAfter

LEMMA LogsNoReplies ==
    ASSUME NEW lg \in BOOLEAN, NEW cur, NEW d
    PROVE  NoReplies(Logs(lg, cur, d))
BY DEF NoReplies, Logs, LogRec, IsReply

=============================================================================

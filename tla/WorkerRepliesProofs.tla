------------------------- MODULE WorkerRepliesProofs -------------------------
(***************************************************************************)
(* Stdout answers the invokes: RepliesMatchInvokes for every value of the *)
(* constants, and with it the refinement of Dispatcher under the mapping   *)
(* that reads the answered ids off the replies on stdout.                  *)
(*                                                                         *)
(* The argument counts replies.  Every step of the worker only appends to *)
(* stdout (QuietAfter / LastAfter of WorkerStdoutProofs); the count of    *)
(* replies in a prefix of stdout is then never changed by a step, and a   *)
(* step that writes a reply writes it last and adds one to the count of   *)
(* the whole.  RepliesMatchInvokes alone is not inductive: the reply of   *)
(* HandlerFulfilled needs the served id to be the last invoke read        *)
(* (RefInv), and reading ReplyIds off stdout needs every count up to the *)
(* total to be reached by some reply (Reach).                             *)
(***************************************************************************)
EXTENDS WorkerRefinementProofs, WorkerStdoutProofs, FiniteSetTheorems

\* The replies among the first k records of a sequence of records.
Cnt(s, k) == Cardinality({j \in 1..k : IsReply(s[j])})

\* The replies of s answer the ids of e, in order and one for one.
Match(s, e) ==
    /\ Cnt(s, Len(s)) = Len(e)
    /\ \A i \in 1..Len(s) : IsReply(s[i]) => s[i].id = e[Cnt(s, i)]

\* Every count up to the total is the count at some reply.
Reach(s) ==
    \A k \in 1..Cnt(s, Len(s)) :
        \E i \in 1..Len(s) : IsReply(s[i]) /\ Cnt(s, i) = k

\* Inductive invariant for RepliesMatchInvokes.
ReplyInv ==
    /\ RefInv
    /\ Match(out, Answered)
    /\ Reach(out)

-----------------------------------------------------------------------------
(* Counting replies.                                                       *)

\* The replies of a prefix form a finite set, counted by a natural.
LEMMA CntNat ==
    ASSUME NEW s, NEW k \in Nat
    PROVE  /\ IsFiniteSet({j \in 1..k : IsReply(s[j])})
           /\ Cnt(s, k) \in Nat
<1>1. IsFiniteSet(1..k)
    BY FS_Interval
<1>2. IsFiniteSet({j \in 1..k : IsReply(s[j])})
    BY <1>1, FS_Subset
<1>. QED
    BY <1>2, FS_CardinalityType DEF Cnt

\* The count grows with the prefix, and a reply is counted in its own.
LEMMA CntMono ==
    ASSUME NEW s, NEW i \in Nat, NEW k \in Nat, i <= k
    PROVE  /\ Cnt(s, i) <= Cnt(s, k)
           /\ i \in 1..k /\ IsReply(s[i]) => Cnt(s, i) \in 1..Cnt(s, k)
<1>1. IsFiniteSet({j \in 1..k : IsReply(s[j])})
    BY CntNat
<1>2. Cnt(s, i) <= Cnt(s, k)
    BY <1>1, FS_Subset DEF Cnt
<1>3. ASSUME i \in 1..k, IsReply(s[i]) PROVE Cnt(s, i) # 0
    <2>1. IsFiniteSet({j \in 1..i : IsReply(s[j])})
        BY CntNat
    <2>2. {j \in 1..i : IsReply(s[j])} # {}
        BY <1>3
    <2>. QED
        BY <2>1, <2>2, FS_EmptySet DEF Cnt
<1>4. Cnt(s, i) \in Nat /\ Cnt(s, k) \in Nat
    BY CntNat
<1>. QED
    BY <1>2, <1>3, <1>4

\* Appending to a sequence leaves the counts of its prefixes alone.
LEMMA CntPrefix ==
    ASSUME NEW s \in Seq(Records), NEW u \in Seq(Records),
           Len(s) <= Len(u), SubSeq(u, 1, Len(s)) = s,
           NEW k \in 0..Len(s)
    PROVE  /\ Cnt(u, k) = Cnt(s, k)
           /\ \A i \in 1..Len(s) : u[i] = s[i]
<1>1. \A i \in 1..Len(s) : u[i] = s[i]
    BY SubSeqProperties
<1>2. {j \in 1..k : IsReply(u[j])} = {j \in 1..k : IsReply(s[j])}
    BY <1>1
<1>. QED
    BY <1>1, <1>2 DEF Cnt

\* Records without a reply add nothing to the count.
LEMMA CntQuiet ==
    ASSUME NEW s \in Seq(Records), NEW u \in Seq(Records), QuietAfter(s, u)
    PROVE  Cnt(u, Len(u)) = Cnt(s, Len(s))
<1>1. \A i \in 1..Len(s) : u[i] = s[i]
    BY CntPrefix DEF QuietAfter
<1>2. {j \in 1..Len(u) : IsReply(u[j])} = {j \in 1..Len(s) : IsReply(s[j])}
    BY <1>1 DEF QuietAfter
<1>. QED
    BY <1>2 DEF Cnt

\* A reply written last adds one to the count.
LEMMA CntLast ==
    ASSUME NEW s \in Seq(Records), NEW u \in Seq(Records), LastAfter(s, u),
           IsReply(u[Len(u)])
    PROVE  Cnt(u, Len(u)) = Cnt(s, Len(s)) + 1
<1> DEFINE S == {j \in 1..Len(s) : IsReply(s[j])}
<1>1. \A i \in 1..Len(s) : u[i] = s[i]
    BY CntPrefix DEF LastAfter
<1>2. {j \in 1..Len(u) : IsReply(u[j])} = S \cup {Len(u)}
    BY <1>1 DEF LastAfter
<1>3. IsFiniteSet(S)
    <2>1. Len(s) \in Nat
        OBVIOUS
    <2>. QED
        BY <2>1, CntNat
<1>4. Len(u) \notin S
    BY DEF LastAfter
<1>. QED
    BY <1>2, <1>3, <1>4, FS_AddElement DEF Cnt

-----------------------------------------------------------------------------
(* Replies matched against the ids they answer.                           *)

\* Records without a reply keep the match and the counts reached.
LEMMA MatchQuiet ==
    ASSUME NEW s \in Seq(Records), NEW u \in Seq(Records), QuietAfter(s, u),
           NEW e, Match(s, e), Reach(s)
    PROVE  Match(u, e) /\ Reach(u)
<1>1. Cnt(u, Len(u)) = Cnt(s, Len(s))
    BY CntQuiet
<1>2. \A i \in 1..Len(s) : u[i] = s[i] /\ Cnt(u, i) = Cnt(s, i)
    BY CntPrefix DEF QuietAfter
<1>3. \A i \in (Len(s) + 1)..Len(u) : ~IsReply(u[i])
    BY DEF QuietAfter
<1>4. Match(u, e)
    BY <1>1, <1>2, <1>3 DEF Match
<1>5. Reach(u)
    <2> SUFFICES ASSUME NEW k \in 1..Cnt(u, Len(u))
                 PROVE  \E i \in 1..Len(u) : IsReply(u[i]) /\ Cnt(u, i) = k
        BY DEF Reach
    <2>1. PICK i \in 1..Len(s) : IsReply(s[i]) /\ Cnt(s, i) = k
        BY <1>1 DEF Reach
    <2>. QED
        BY <1>2, <2>1 DEF QuietAfter
<1>. QED
    BY <1>4, <1>5

\* A reply written last answers the next id.
LEMMA MatchLast ==
    ASSUME NEW s \in Seq(Records), NEW u \in Seq(Records), LastAfter(s, u),
           IsReply(u[Len(u)]), NEW S, NEW e \in Seq(S), u[Len(u)].id \in S,
           Match(s, e), Reach(s)
    PROVE  Match(u, Append(e, u[Len(u)].id)) /\ Reach(u)
<1> DEFINE x == u[Len(u)].id
           n == Len(s)
<1>1. Cnt(u, Len(u)) = Cnt(s, n) + 1 /\ Cnt(s, n) = Len(e)
    BY CntLast DEF Match
<1>2. \A i \in 1..n : u[i] = s[i] /\ Cnt(u, i) = Cnt(s, i)
    BY CntPrefix DEF LastAfter
<1>3. \A i \in (n + 1)..(Len(u) - 1) : ~IsReply(u[i])
    BY DEF LastAfter
<1>4. Len(Append(e, x)) = Len(e) + 1 /\ Append(e, x)[Len(e) + 1] = x
      /\ \A k \in 1..Len(e) : Append(e, x)[k] = e[k]
    BY AppendProperties
<1>5. \A i \in 1..n : IsReply(s[i]) => Cnt(s, i) \in 1..Len(e)
    BY <1>1, CntMono
<1>6. Match(u, Append(e, x))
    <2> SUFFICES ASSUME NEW i \in 1..Len(u), IsReply(u[i])
                 PROVE  u[i].id = Append(e, x)[Cnt(u, i)]
        BY <1>1, <1>4 DEF Match
    <2>1. CASE i <= n
        BY <1>2, <1>4, <1>5, <2>1 DEF Match
    <2>2. CASE i = Len(u)
        BY <1>1, <1>4, <2>2
    <2>3. CASE i \in (n + 1)..(Len(u) - 1)
        BY <1>3, <2>3
    <2>4. i <= n \/ i = Len(u) \/ i \in (n + 1)..(Len(u) - 1)
        <3>1. n \in Nat /\ Len(u) \in Nat /\ i \in Nat
            OBVIOUS
        <3>. QED
            BY <3>1
    <2>. QED
        BY <2>1, <2>2, <2>3, <2>4
<1>7. Reach(u)
    <2> SUFFICES ASSUME NEW k \in 1..Cnt(u, Len(u))
                 PROVE  \E i \in 1..Len(u) : IsReply(u[i]) /\ Cnt(u, i) = k
        BY DEF Reach
    <2>1. CASE k <= Cnt(s, n)
        <3>1. PICK i \in 1..n : IsReply(s[i]) /\ Cnt(s, i) = k
            BY <2>1, CntNat DEF Reach
        <3>. QED
            BY <1>2, <3>1 DEF LastAfter
    <2>2. CASE k = Cnt(s, n) + 1
        BY <1>1, <2>2 DEF LastAfter
    <2>. QED
        BY <1>1, <2>1, <2>2, CntNat
<1>. QED
    BY <1>6, <1>7

-----------------------------------------------------------------------------
(* The inductive invariant.                                                *)

\* A record that is not a reply, written last, keeps stdout quiet.
LEMMA LastQuiet ==
    ASSUME NEW s, NEW u, LastAfter(s, u), ~IsReply(u[Len(u)])
    PROVE  QuietAfter(s, u)
BY DEF LastAfter, QuietAfter

LEMMA ReplyInvInit == Init => ReplyInv
<1> SUFFICES ASSUME Init PROVE ReplyInv
    OBVIOUS
<1>1. Len(out) = 0 /\ Answered = <<>>
    BY DEF Init, Answered
<1>2. {j \in 1..Len(out) : IsReply(out[j])} = {}
    BY <1>1
<1>3. Cnt(out, Len(out)) = 0
    BY <1>2, FS_EmptySet DEF Cnt
<1>4. Match(out, Answered) /\ Reach(out)
    BY <1>1, <1>3 DEF Match, Reach
<1>. QED
    BY <1>4, RefInvInit DEF ReplyInv

\* A step that writes no reply and leaves the answered ids alone.
LEMMA KeepStep ==
    ASSUME ReplyInv, RefInv', QuietAfter(out, out'), Answered' = Answered
    PROVE  ReplyInv'
<1>1. out \in Seq(Records) /\ out' \in Seq(Records)
    BY DEF ReplyInv, RefInv, TypeInv, TypeOK
<1>. QED
    BY <1>1, MatchQuiet DEF ReplyInv

\* A step that writes a reply last, answering the next id.
LEMMA AnswerStep ==
    ASSUME ReplyInv, RefInv', LastAfter(out, out'), IsReply(out'[Len(out')]),
           Answered' = Append(Answered, out'[Len(out')].id),
           out'[Len(out')].id \in Ids, Answered \in Seq(Ids)
    PROVE  ReplyInv'
<1>1. out \in Seq(Records) /\ out' \in Seq(Records)
    BY DEF ReplyInv, RefInv, TypeInv, TypeOK
<1>. QED
    BY <1>1, MatchLast DEF ReplyInv


\* The answered ids are invocation ids.
LEMMA AnsweredType ==
    ASSUME RefInv
    PROVE  Answered \in Seq(Ids)
<1>1. consumed \in Seq(Ids)
    BY DEF RefInv, TypeInv, TypeOK
<1>2. pc = "await" => Len(consumed) - 1 \in 0..Len(consumed)
    BY <1>1 DEF RefInv
<1>. QED
    BY <1>1, <1>2, SubSeqProperties DEF Answered

LEMMA ReplyInvNext == ReplyInv /\ [Next]_vars => ReplyInv'
<1> SUFFICES ASSUME ReplyInv, [Next]_vars PROVE ReplyInv'
    OBVIOUS
<1>0. /\ RefInv'
      /\ out \in Seq(Records) /\ consumed \in Seq(Ids)
      /\ curId \in CurIds
      /\ serving \in Ids \cup {NoId}
      /\ Answered \in Seq(Ids)
      /\ pc = "await" <=> serving # NoId
      /\ pc = "await" => consumed # <<>> /\ consumed[Len(consumed)] = serving
      /\ ~IsReply(LoadError) /\ ~IsReply(ReadyRec)
      /\ LoadError \in Records /\ ReadyRec \in Records
    BY RefInvNext, AnsweredType
    DEF ReplyInv, RefInv, TypeInv, TypeOK, CurIds, IsReply, LoadError, ErrorRec,
        ReadyRec, Records, ErrorCodes
<1>1. CASE out' = out /\ Answered' = Answered
    BY <1>0, <1>1, SubSeqFull, KeepStep DEF QuietAfter
<1>2. CASE BootFail \/ Boot \/ AwaitSpin \/ IgnoreLine \/ Exit \/ Send \/ Close
            \/ Terminated \/ UNCHANGED vars
    <2>1. out' = out /\ Answered' = Answered
        BY <1>2 DEF BootFail, Boot, AwaitSpin, IgnoreLine, ReadLine, Exit, Send,
                    Close, Terminated, vars, Answered
    <2>. QED
        BY <2>1, <1>1
<1>3. CASE LoadFail \/ LoadRejected \/ LoadDone
    <2>1. PICK r \in {LoadError, ReadyRec} : out' = Append(out, r)
        BY <1>3 DEF LoadFail, LoadRejected, LoadDone, LoadError
    <2>2. Answered' = Answered
        BY <1>3 DEF LoadFail, LoadRejected, LoadDone, Answered
    <2>3. QuietAfter(out, out')
        BY <1>0, <2>1, AppendLast, LastQuiet
    <2>. QED
        BY <1>0, <2>2, <2>3, KeepStep
<1>4. CASE LoadExec \/ AwaitJob
    <2>1. PICK lg \in BOOLEAN, d \in Ids \cup {NoId} :
            \/ out' = (out \o Logs(lg, curId, d)) \o <<LoadError>>
            \/ out' = out \o Logs(lg, curId, d)
        BY <1>0, <1>4 DEF LoadExec, AwaitJob, LoadError
    <2>2. Logs(lg, curId, d) \in Seq(Records) /\ NoReplies(Logs(lg, curId, d))
        BY <1>0, LogsType, LogsNoReplies
    <2>3. QuietAfter(out, out')
        <3>1. CASE out' = (out \o Logs(lg, curId, d)) \o <<LoadError>>
            BY <1>0, <2>2, <3>1, ConcatLast, LastQuiet
        <3>2. CASE out' = out \o Logs(lg, curId, d)
            BY <1>0, <2>2, <3>2, ConcatQuiet
        <3>. QED
            BY <2>1, <3>1, <3>2
    <2>4. Answered' = Answered
        BY <1>4 DEF LoadExec, AwaitJob, Answered
    <2>. QED
        BY <1>0, <2>3, <2>4, KeepStep
<1>5. CASE InvalidMessage \/ RequestCreationError
    <2> DEFINE id == Head(stdin).id
    <2>1. id \in Ids /\ consumed' = Append(consumed, id)
          /\ pc = "idle" /\ pc' = "idle"
        BY <1>5, HeadLine DEF ReplyInv, RefInv, TypeInv, TypeOK, InvalidMessage,
                              RequestCreationError, Invoke, ReadLine
    <2>2. PICK c \in {"INVALID_MESSAGE", "REQUEST_CREATION_ERROR"} :
            out' = Append(out, ErrorRec(id, c))
        BY <1>5 DEF InvalidMessage, RequestCreationError
    <2>3. ErrorRec(id, c) \in Records /\ ErrorRec(id, c).id = id
          /\ IsReply(ErrorRec(id, c))
        <3>1. ErrorRec(id, c) \in Records
            BY <2>1, RecordsType DEF ErrorCodes
        <3>2. id # LoadTag
            BY <2>1, WorkerAssumption
        <3>. QED
            BY <3>1, <3>2 DEF ErrorRec, IsReply
    <2>4. LastAfter(out, out') /\ out'[Len(out')] = ErrorRec(id, c)
        BY <1>0, <2>2, <2>3, AppendLast
    <2>5. Answered' = Append(Answered, id)
        BY <2>1 DEF Answered
    <2>. QED
        BY <1>0, <2>1, <2>3, <2>4, <2>5, AnswerStep
<1>6. CASE CallHandler
    <2> DEFINE id == Head(stdin).id
    <2>1. id \in Ids /\ consumed' = Append(consumed, id) /\ pc = "idle"
        BY <1>6, HeadLine DEF ReplyInv, RefInv, TypeInv, TypeOK, CallHandler,
                              Invoke, ReadLine
    <2>2. PICK lg \in BOOLEAN :
            \/ /\ out' = (out \o Logs(lg, SetCur(id), id))
                           \o <<ErrorRec(id, "HANDLER_ERROR")>>
               /\ pc' = pc
            \/ /\ out' = (out \o Logs(lg, SetCur(id), id)) \o <<ResponseRec(id)>>
               /\ pc' = pc
            \/ /\ out' = out \o Logs(lg, SetCur(id), id)
               /\ pc' = "await"
        BY <1>6 DEF CallHandler
    <2> DEFINE L == Logs(lg, SetCur(id), id)
    <2>3. L \in Seq(Records) /\ NoReplies(L)
        BY <2>1, LogsType, LogsNoReplies DEF CurIds
    <2>4. ASSUME NEW r \in Records, r.id = id, IsReply(r),
                 out' = (out \o L) \o <<r>>, pc' = pc
          PROVE  ReplyInv'
        <3>1. LastAfter(out, out') /\ out'[Len(out')] = r
            BY <1>0, <2>3, <2>4, ConcatLast
        <3>2. Answered' = Append(Answered, id)
            BY <2>1, <2>4 DEF Answered
        <3>. QED
            BY <1>0, <2>1, <2>4, <3>1, <3>2, AnswerStep
    <2>5. /\ ErrorRec(id, "HANDLER_ERROR") \in Records
          /\ ErrorRec(id, "HANDLER_ERROR").id = id
          /\ IsReply(ErrorRec(id, "HANDLER_ERROR"))
          /\ ResponseRec(id) \in Records /\ ResponseRec(id).id = id
          /\ IsReply(ResponseRec(id))
        <3>1. ErrorRec(id, "HANDLER_ERROR") \in Records /\ ResponseRec(id) \in Records
            BY <2>1, RecordsType DEF ErrorCodes
        <3>2. id # LoadTag
            BY <2>1, WorkerAssumption
        <3>. QED
            BY <3>1, <3>2 DEF ErrorRec, ResponseRec, IsReply
    <2>6. CASE out' = out \o L /\ pc' = "await"
        <3>1. QuietAfter(out, out')
            BY <1>0, <2>3, <2>6, ConcatQuiet
        <3>2. Answered' = consumed
            BY <1>0, <2>1, <2>6, FrontAppend DEF Answered
        <3>3. Answered = consumed
            BY <2>1 DEF Answered
        <3>. QED
            BY <1>0, <3>1, <3>2, <3>3, KeepStep
    <2>. QED
        BY <2>2, <2>4, <2>5, <2>6
<1>7. CASE HandlerFulfilled \/ HandlerRejected
    <2>1. /\ serving \in Ids /\ pc = "await" /\ pc' = "idle"
          /\ consumed' = consumed
        BY <1>0, <1>7 DEF HandlerFulfilled, HandlerRejected
    <2>2. PICK r \in {ResponseRec(serving), ErrorRec(serving, "HANDLER_ERROR")} :
            out' = Append(out, r)
        BY <1>7 DEF HandlerFulfilled, HandlerRejected
    <2>3. r \in Records /\ r.id = serving /\ IsReply(r)
        <3>1. ErrorRec(serving, "HANDLER_ERROR") \in Records
              /\ ResponseRec(serving) \in Records
            BY <2>1, RecordsType DEF ErrorCodes
        <3>2. serving # LoadTag
            BY <2>1, WorkerAssumption
        <3>. QED
            BY <2>2, <3>1, <3>2 DEF ErrorRec, ResponseRec, IsReply
    <2>4. LastAfter(out, out') /\ out'[Len(out')] = r
        BY <1>0, <2>2, <2>3, AppendLast
    <2>5. Answered' = Append(Answered, serving)
        <3>1. Answered' = consumed /\ Answered = SubSeq(consumed, 1, Len(consumed) - 1)
            BY <2>1 DEF Answered
        <3>. QED
            BY <1>0, <2>1, <3>1, FrontLast
    <2>. QED
        BY <1>0, <2>1, <2>3, <2>4, <2>5, AnswerStep
<1>. QED
    BY <1>2, <1>3, <1>4, <1>5, <1>6, <1>7 DEF Next, WorkerStep, Supervisor

\* For every value of the constants, each invoke process_messages reads
\* gets exactly one response or error on stdout, with its id and in the
\* order of the invokes, except the one whose js_std_await is running.
THEOREM RepliesMatchInvokesHolds == Spec => []RepliesMatchInvokes
<1>1. ReplyInv => RepliesMatchInvokes
    BY DEF ReplyInv, Match, Cnt, ReplyCount, RepliesMatchInvokes, Answered
<1>. QED
    BY <1>1, ReplyInvInit, ReplyInvNext, PTL DEF Spec


-----------------------------------------------------------------------------
(* The refinement under the mapping of WorkerRefinement.                  *)

\* The safety part of DispatcherRefined: the dispatcher's initial state
\* and steps, with the answered ids read off the replies on stdout.
MappedSafety == Abs!Init /\ [][Abs!Next]_Abs!avars

\* ReplyIds, for a sequence of records o.
IdsOf(o) ==
    [k \in 1..Cnt(o, Len(o)) |->
        o[CHOOSE i \in 1..Len(o) : IsReply(o[i]) /\ Cnt(o, i) = k].id]

\* The ids read off the replies of o are the ids they match.
LEMMA IdsOfMatch ==
    ASSUME NEW o \in Seq(Records), NEW S, NEW a \in Seq(S), Match(o, a), Reach(o)
    PROVE  IdsOf(o) = a
<1> DEFINE Pos(k) == CHOOSE i \in 1..Len(o) : IsReply(o[i]) /\ Cnt(o, i) = k
<1>1. Cnt(o, Len(o)) = Len(a)
    BY DEF Match
<1>2. ASSUME NEW k \in 1..Len(a)
      PROVE  o[Pos(k)].id = a[k]
    <2>1. \E i \in 1..Len(o) : IsReply(o[i]) /\ Cnt(o, i) = k
        BY <1>1 DEF Reach
    <2>2. Pos(k) \in 1..Len(o) /\ IsReply(o[Pos(k)]) /\ Cnt(o, Pos(k)) = k
        BY <2>1
    <2>. QED
        BY <2>2 DEF Match
<1>3. IdsOf(o) = [k \in 1..Len(a) |-> o[Pos(k)].id]
    BY <1>1 DEF IdsOf
<1>4. a = [k \in 1..Len(a) |-> a[k]]
    OBVIOUS
<1>. QED
    BY <1>2, <1>3, <1>4

\* The ids read off stdout are the invokes answered.
LEMMA ReplyIdsAnswered ==
    ASSUME ReplyInv
    PROVE  ReplyIds = Answered
<1>1. ReplyIds = IdsOf(out)
    BY DEF ReplyIds, IdsOf, ReplyCount, Cnt
<1>2. out \in Seq(Records) /\ Answered \in Seq(Ids)
    BY AnsweredType DEF ReplyInv, RefInv, TypeInv, TypeOK
<1>. QED
    BY <1>1, <1>2, IdsOfMatch DEF ReplyInv

\* For every value of the constants, the worker implements the
\* dispatcher's safety under the mapping DispatcherRefined is checked
\* with: the answered ids are the replies stdout shows, so every step of
\* the worker answers, begins or finishes an invocation exactly as the
\* dispatcher does, in the order the invokes arrive.
THEOREM MappedSafetyHolds == Spec => MappedSafety
<1>1. Spec => []ReplyInv
    BY ReplyInvInit, ReplyInvNext, PTL DEF Spec
<1>2. Init => Abs!Init
    <2> SUFFICES ASSUME Init PROVE Abs!Init
        OBVIOUS
    <2>1. ReplyIds = Answered
        BY ReplyInvInit, ReplyIdsAnswered
    <2>. QED
        BY <2>1, InitRefines DEF AbsC!Init, Abs!Init
<1>3. ReplyInv /\ ReplyInv' /\ [Next]_vars => [Abs!Next]_Abs!avars
    <2> SUFFICES ASSUME ReplyInv, ReplyInv', [Next]_vars
                 PROVE  [Abs!Next]_Abs!avars
        OBVIOUS
    <2>1. ReplyIds = Answered
        BY ReplyIdsAnswered
    <2>2. ReplyIds' = Answered'
        <3>1. ReplyIds' = IdsOf(out')
            BY DEF ReplyIds, IdsOf, ReplyCount, Cnt
        <3>2. out' \in Seq(Records) /\ Answered' \in Seq(Ids)
              /\ Match(out', Answered') /\ Reach(out')
            <4>1. consumed' \in Seq(Ids) /\ (pc' = "await" => consumed' # <<>>)
                BY DEF ReplyInv, RefInv, TypeInv, TypeOK
            <4>2. Answered' \in Seq(Ids)
                <5>1. pc' = "await" => Len(consumed') - 1 \in 0..Len(consumed')
                    BY <4>1
                <5>. QED
                    BY <4>1, <5>1, SubSeqProperties DEF Answered
            <4>. QED
                BY <4>2 DEF ReplyInv, RefInv, TypeInv, TypeOK
        <3>. QED
            BY <3>1, <3>2, IdsOfMatch
    <2>3. [AbsC!Next]_AbsC!avars
        BY StepRefines DEF ReplyInv
    <2>. QED
        BY <2>1, <2>2, <2>3
        DEF AbsC!Next, AbsC!Start, AbsC!Fail, AbsC!Loaded, AbsC!Serve, AbsC!Skip,
            AbsC!Answer, AbsC!Begin, AbsC!Finish, AbsC!Stop, AbsC!Send,
            AbsC!Close, AbsC!avars,
            Abs!Next, Abs!Start, Abs!Fail, Abs!Loaded, Abs!Serve, Abs!Skip,
            Abs!Answer, Abs!Begin, Abs!Finish, Abs!Stop, Abs!Send,
            Abs!Close, Abs!avars
<1>. QED
    BY <1>1, <1>2, <1>3, PTL DEF Spec, MappedSafety

=============================================================================

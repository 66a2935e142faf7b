-------------------------------- MODULE Wire --------------------------------
(***************************************************************************)
(* The NDJSON codec of main.c, byte by byte: how send_message, send_ready, *)
(* send_error, send_log (through escape_json_str) and send_response turn  *)
(* one record into text on stdout, and how the supervisor reads stdout    *)
(* back, one line at a time, with a JSON reader.  A byte is a             *)
(* one-character string; the fields of the records come from small sets   *)
(* of C strings (no NUL: JS_ToCString has already cut them there).        *)
(***************************************************************************)
EXTENDS Naturals, Sequences, SequencesExt

CONSTANTS
    WorkerIds,  \* values of worker_id
    Ids,        \* record ids: invoke ids as JS_ToCString returns them, "bundle"
    Levels,     \* console levels passed to __bunbase_log
    Messages,   \* console messages after stringifyArgs
    Errors,     \* messages passed to send_error (exception texts, constants)
    NullText,   \* a NULL message pointer
    Codes,      \* error codes
    Statuses,   \* the texts "%d" prints for the status
    HeaderTexts,\* headers JSON from JS_JSONStringify, or "{}"
    Bodies,     \* base64 bodies
    LogEscCap,  \* sizeof(msg_escaped), 768
    LogCap,     \* sizeof(payload) in send_log, 1024
    ErrCap,     \* sizeof(payload) in send_error, 1024
    BodyEscCap, \* sizeof(escaped_body) in send_response, 16384
    RespCap,    \* sizeof(payload) in send_response, 32768
    MaxRecords  \* records the worker writes in a behaviour

ASSUME WireAssumption ==
    /\ NullText \notin Seq(STRING)
    /\ \A n \in {LogEscCap, LogCap, ErrCap, BodyEscCap, RespCap} : n \in Nat \ {0}
    /\ MaxRecords \in Nat

VARIABLES
    sent,    \* what each record written so far means: its expected tokens
    stream,  \* bytes on the stdout pipe not yet read by the supervisor
    reader,  \* the supervisor's JSON reader, part way through a line
    got      \* what the reader made of each line it finished

vars == <<sent, stream, reader, got>>

Q == "\""
BS == "\\"

\* The fixed words of the templates ("id", "type", "payload", "message",
\* "code", "level", "status", "headers", "body", the four type names and
\* "Unknown error"), one distinct byte each: only their place matters.
KId == <<"i">>
KType == <<"t">>
KPayload == <<"p">>
KMessage == <<"m">>
KCode == <<"c">>
KLevel == <<"l">>
KStatus == <<"s">>
KHeaders == <<"h">>
KBody == <<"b">>
TReady == <<"R">>
TError == <<"E">>
TLog == <<"L">>
TResponse == <<"P">>
UnknownError == <<"U">>
EmptyObject == <<"{", "}">>

Quoted(s) == <<Q>> \o s \o <<Q>>
Member(k, v) == Quoted(k) \o <<":">> \o v
Object2(m1, m2) == <<"{">> \o m1 \o <<",">> \o m2 \o <<"}">>

\* snprintf(buf, size, ...): at most size - 1 bytes of the text.
Snprintf(text, size) ==
    SubSeq(text, 1, IF Len(text) < size THEN Len(text) ELSE size - 1)

-----------------------------------------------------------------------------
(* The code.                                                               *)

\* The second byte of the escape for '"', '\\', '\n', '\r'.
EscapeOf == (Q :> Q) @@ (BS :> BS) @@ ("\n" :> "n") @@ ("\r" :> "r")

\* escape_json_str: escape '"', '\\', '\n', '\r'; copy every other byte
\* as it is; stop before an escape that does not fit, or when the buffer
\* (one byte kept for the NUL) is full.
EscapeJsonStr(in, size) ==
    LET f[k \in 0..Len(in)] ==
          IF k = 0 THEN [out |-> <<>>, stop |-> FALSE]
          ELSE LET p == f[k - 1]
                   c == in[k]
               IN  IF p.stop \/ Len(p.out) >= size - 1 THEN [p EXCEPT !.stop = TRUE]
                   ELSE IF c \in DOMAIN EscapeOf
                        THEN IF Len(p.out) + 2 >= size THEN [p EXCEPT !.stop = TRUE]
                             ELSE [p EXCEPT !.out = @ \o <<BS, EscapeOf[c]>>]
                        ELSE [p EXCEPT !.out = Append(@, c)]
    IN  f[Len(in)].out

\* send_response's own escaping loop: the same escapes, no room check
\* (the loop bound alone keeps j below the buffer's last byte).
EscapeBody(in) ==
    LET f[k \in 0..Len(in)] ==
          IF k = 0 THEN <<>>
          ELSE IF Len(f[k - 1]) >= BodyEscCap - 1 THEN f[k - 1]
          ELSE IF in[k] \in DOMAIN EscapeOf THEN f[k - 1] \o <<BS, EscapeOf[in[k]]>>
          ELSE Append(f[k - 1], in[k])
    IN  f[Len(in)]

\* send_message: {"id":"<id>","type":"<type>","payload":<payload>} and a
\* newline, by printf, which has no size limit.
SendMessage(type, id, payload) ==
    <<"{">> \o Member(KId, Quoted(id)) \o <<",">>
            \o Member(KType, Quoted(type)) \o <<",">>
            \o Member(KPayload, payload) \o <<"}", "\n">>

SendReady(wid) == SendMessage(TReady, wid, EmptyObject)

ErrorText(m) == IF m = NullText THEN UnknownError ELSE m

\* send_error: the message is pasted in as it is.
SendError(id, m, code) ==
    SendMessage(TError, id,
        Snprintf(Object2(Member(KMessage, Quoted(ErrorText(m))),
                         Member(KCode, Quoted(code))), ErrCap))

\* Fault model: send_log pasting the message in without escape_json_str,
\* as send_error does.
SendLogUnescaped(id, level, m) ==
    SendMessage(TLog, id,
        Snprintf(Object2(Member(KLevel, Quoted(level)), Member(KMessage, Quoted(m))),
                 LogCap))

SendLog(id, level, m) ==
    SendMessage(TLog, id,
        Snprintf(Object2(Member(KLevel, Quoted(level)),
                         Member(KMessage, Quoted(EscapeJsonStr(m, LogEscCap)))),
                 LogCap))

SendResponse(id, status, headers, body) ==
    SendMessage(TResponse, id,
        Snprintf(<<"{">> \o Member(KStatus, status) \o <<",">>
                         \o Member(KHeaders, headers) \o <<",">>
                         \o Member(KBody, Quoted(EscapeBody(body))) \o <<"}">>,
                 RespCap))

-----------------------------------------------------------------------------
(* The supervisor's side: a JSON reader applied to one line of stdout.     *)
(* It checks the lexical structure JSON.parse insists on (strings closed, *)
(* escapes valid, no raw control byte inside a string, nothing but        *)
(* punctuation and numbers outside strings, one object) and returns the   *)
(* decoded strings with the object depth at which each occurs.            *)

Digits == {"0", "1", "2", "3", "4", "5", "6", "7", "8", "9"}
Controls == {"\n", "\r", "\t"}
UnescapeOf == (Q :> Q) @@ (BS :> BS) @@ ("/" :> "/") @@ ("n" :> "\n")
                @@ ("r" :> "\r") @@ ("t" :> "\t")

Tok(d, text) == [depth |-> d, text |-> text]

LexStep(s, c) ==
    CASE s.st = "out" /\ c = Q /\ s.depth > 0 -> [s EXCEPT !.st = "str", !.cur = <<>>]
      [] s.st = "out" /\ c = "{" /\ ~(s.depth = 0 /\ s.opened) ->
            [s EXCEPT !.depth = @ + 1, !.opened = TRUE]
      [] s.st = "out" /\ c = "}" /\ s.depth > 0 -> [s EXCEPT !.depth = @ - 1]
      [] s.st = "out" /\ c \in {":", ",", "-"} \cup Digits /\ s.depth > 0 -> s
      [] s.st = "str" /\ c = Q ->
            [s EXCEPT !.st = "out", !.toks = Append(@, Tok(s.depth, s.cur))]
      [] s.st = "str" /\ c = BS -> [s EXCEPT !.st = "esc"]
      [] s.st = "str" /\ c \notin Controls -> [s EXCEPT !.cur = Append(@, c)]
      [] s.st = "esc" /\ c \in DOMAIN UnescapeOf ->
            [s EXCEPT !.st = "str", !.cur = Append(@, UnescapeOf[c])]
      [] OTHER -> [s EXCEPT !.st = "bad"]

Fresh == [st |-> "out", depth |-> 0, opened |-> FALSE, toks |-> <<>>, cur |-> <<>>]

\* What the reader returns for the line it has read: whether it parsed
\* as one JSON object, and its strings.
Result(s) == [ok |-> s.st = "out" /\ s.depth = 0 /\ s.opened, toks |-> s.toks]

\* The reader applied to a whole text (used for the headers JSON, which
\* comes from JS_JSONStringify and is read back as part of a response).
ParseText(text) ==
    LET f[k \in 0..Len(text)] ==
          IF k = 0 THEN Fresh ELSE LexStep(f[k - 1], text[k])
    IN  Result(f[Len(text)])

\* What a record means to the supervisor: the strings it must read back.
Top(type, id) ==
    <<Tok(1, KId), Tok(1, id), Tok(1, KType), Tok(1, type), Tok(1, KPayload)>>
Nested(ts, n) == [k \in 1..Len(ts) |-> Tok(ts[k].depth + n, ts[k].text)]

ReadyMeaning(wid) == Top(TReady, wid)
LogMeaning(id, level, m) ==
    Top(TLog, id) \o <<Tok(2, KLevel), Tok(2, level), Tok(2, KMessage), Tok(2, m)>>
ErrorMeaning(id, m, code) ==
    Top(TError, id) \o <<Tok(2, KMessage), Tok(2, ErrorText(m)),
                         Tok(2, KCode), Tok(2, code)>>
ResponseMeaning(id, status, headers, body) ==
    Top(TResponse, id) \o <<Tok(2, KStatus), Tok(2, KHeaders)>>
        \o Nested(ParseText(headers).toks, 2) \o <<Tok(2, KBody), Tok(2, body)>>

\* A line read agrees with the record written when it parses and yields the
\* same strings at the same depths, a string being allowed to come back
\* cut short (escape_json_str truncates a long message on purpose).
Agrees(r, meaning) ==
    /\ r.ok
    /\ Len(r.toks) = Len(meaning)
    /\ \A i \in 1..Len(meaning) :
          /\ r.toks[i].depth = meaning[i].depth
          /\ IsPrefix(r.toks[i].text, meaning[i].text)

-----------------------------------------------------------------------------
(* The worker writes records; the supervisor reads lines.                 *)

Init ==
    /\ sent = <<>>
    /\ stream = <<>>
    /\ reader = Fresh
    /\ got = <<>>

Write(line, meaning) ==
    /\ Len(sent) < MaxRecords
    /\ sent' = Append(sent, meaning)
    /\ stream' = stream \o line
    /\ UNCHANGED <<reader, got>>

WriteReady == \E w \in WorkerIds : Write(SendReady(w), ReadyMeaning(w))

WriteLog ==
    \E id \in Ids, l \in Levels, m \in Messages :
        Write(SendLog(id, l, m), LogMeaning(id, l, m))

WriteError ==
    \E id \in Ids, m \in Errors, c \in Codes :
        Write(SendError(id, m, c), ErrorMeaning(id, m, c))

WriteResponse ==
    \E id \in Ids, st \in Statuses, h \in HeaderTexts, b \in Bodies :
        Write(SendResponse(id, st, h, b), ResponseMeaning(id, st, h, b))

\* The supervisor reads the next byte: a newline ends the record.
ReadByte ==
    /\ stream # <<>>
    /\ IF Head(stream) = "\n"
       THEN /\ got' = Append(got, Result(reader))
            /\ reader' = Fresh
       ELSE /\ reader' = LexStep(reader, Head(stream))
            /\ UNCHANGED got
    /\ stream' = Tail(stream)
    /\ UNCHANGED sent

\* The worker has written its records and the supervisor has read them all.
Drained ==
    /\ Len(sent) = MaxRecords
    /\ stream = <<>>
    /\ UNCHANGED vars

Next ==
    \/ WriteReady \/ WriteLog \/ WriteError \/ WriteResponse
    \/ ReadByte \/ Drained

Spec == Init /\ [][Next]_vars

-----------------------------------------------------------------------------
(* Properties.                                                             *)

\* Spec 3 and 8: every record the worker writes reaches the supervisor as
\* exactly one line that parses as one JSON object and yields back the id,
\* type and payload strings the worker meant (send_message, send_log,
\* send_error, send_response): the k-th line read is the k-th record
\* written, and once the pipe is drained there are as many lines as
\* records.
WireFaithful ==
    /\ Len(got) <= Len(sent)
    /\ \A k \in 1..Len(got) : Agrees(got[k], sent[k])
    /\ stream = <<>> => Len(got) = Len(sent)

=============================================================================

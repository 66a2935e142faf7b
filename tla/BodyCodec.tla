------------------------------ MODULE BodyCodec ------------------------------
(***************************************************************************)
(* The path of one invocation's body through the worker: the supervisor   *)
(* sends base64(b); execute_handler pastes the text twice into the        *)
(* request template (request_code, snprintf); the guest atob polyfill     *)
(* (add_base64_polyfills) decodes it for req.body; the handler answers    *)
(* with a body; execute_handler takes it with JS_ToCString and strlen,    *)
(* base64-encodes it into encoded_body, and send_response copies that     *)
(* into escaped_body.                                                     *)
(*                                                                         *)
(* A base64 text is a sequence of alphabet indices: 0..63 for the         *)
(* characters of "A..Za..z0..9+/" and Pad (64) for '=', the index '='     *)
(* has in the polyfill's chars string.  A JavaScript string is the        *)
(* sequence of its code units, a C string the sequence of its bytes.      *)
(***************************************************************************)
EXTENDS Naturals, Sequences, SequencesExt

CONSTANTS
    Bytes,      \* byte values of the request bodies the supervisor sends
    Units,      \* code units of the bodies a handler makes itself
    MaxBody,    \* longest request body, in bytes
    MaxResp,    \* longest handler-made body, in code units
    TplCap,     \* sizeof(request_code), 8192 in the code
    TplBase,    \* template characters other than the two body copies
    EncCap,     \* sizeof(encoded_body), 16384 in the code
    EscCap,     \* sizeof(escaped_body), 16384 in the code
    NoBody      \* JavaScript null

ASSUME BodyCodecAssumption ==
    /\ Bytes \subseteq 0..255
    /\ Units \subseteq 0..255
    /\ MaxBody \in Nat /\ MaxResp \in Nat
    /\ TplCap \in Nat /\ TplBase \in Nat
    /\ EncCap \in Nat /\ EncCap >= 5
    /\ EscCap \in Nat /\ EscCap >= 1

VARIABLES
    pc,        \* "invoke", "handler", "respond", "replied"
    sent,      \* the bytes b whose base64 text is the payload body
    reqBody,   \* req.body as the handler sees it
    kind,      \* what the handler answers with: "none", "echo", "generated"
    respBody,  \* the body field of the handler's Response
    cstr,      \* body_str after JS_ToCString, as strlen sees it
    reply      \* the record send_response / send_error writes

vars == <<pc, sent, reqBody, kind, respBody, cstr, reply>>

Pad == 64

-----------------------------------------------------------------------------
(* Reference: RFC 4648 section 4, defined bit by bit.                      *)

BitOf(bytes, k) ==
    IF k < 8 * Len(bytes) THEN (bytes[k \div 8 + 1] \div 2^(7 - (k % 8))) % 2
                          ELSE 0

RefEncode(bytes) ==
    LET n == (8 * Len(bytes) + 5) \div 6
        Sextet(m) == 32 * BitOf(bytes, 6 * m) + 16 * BitOf(bytes, 6 * m + 1)
                     + 8 * BitOf(bytes, 6 * m + 2) + 4 * BitOf(bytes, 6 * m + 3)
                     + 2 * BitOf(bytes, 6 * m + 4) + BitOf(bytes, 6 * m + 5)
    IN  [m \in 1 .. ((n + 3) \div 4) * 4 |-> IF m <= n THEN Sextet(m - 1)
                                                      ELSE Pad]

RefDecode(text) ==
    LET s == SelectSeq(text, LAMBDA c : c # Pad)
        TBit(k) == (s[k \div 6 + 1] \div 2^(5 - (k % 6))) % 2
        Octet(o) == 128 * TBit(8 * o) + 64 * TBit(8 * o + 1)
                    + 32 * TBit(8 * o + 2) + 16 * TBit(8 * o + 3)
                    + 8 * TBit(8 * o + 4) + 4 * TBit(8 * o + 5)
                    + 2 * TBit(8 * o + 6) + TBit(8 * o + 7)
    IN  [o \in 1 .. (6 * Len(s)) \div 8 |-> Octet(o - 1)]

-----------------------------------------------------------------------------
(* The code.                                                               *)

\* snprintf into request_code[TplCap]: the template, with the body text
\* pasted twice ('%s' ? atob('%s') : null), fits with its NUL.  Cut, it is
\* not a complete expression and JS_Eval throws.
TemplateFits(text) == TplBase + 2 * Len(text) <= TplCap - 1

\* JavaScript's `s || null` for a string or null.
OrNull(s) == IF s = <<>> \/ s = NoBody THEN NoBody ELSE s

\* Fault model: the sign of the shift is lost.
AtobShiftNegated(bc) == (2 * (bc % 4)) % 8

\* The shift `-2 * bc & 6` of the polyfill, after bc has been incremented.
AtobShift(bc) == (8 - 2 * (bc % 4)) % 8

\* atob: String(input).replace(/=+$/, ''), then one pass per character:
\* bs collects sextets, and from the second sextet of every group of four
\* one byte `255 & bs >> shift` is output.  (The check `length % 4 == 1`
\* and the skipping of characters outside chars never apply to the text
\* the supervisor encodes.)
Atob(text) ==
    LET keep == {k \in 0..Len(text) :
                   \A m \in (k + 1)..Len(text) : text[m] = Pad}
        s == SubSeq(text, 1, Min(keep))
        st[i \in Nat] ==
            IF i = 0 THEN [bc |-> 0, bs |-> 0, out |-> <<>>]
            ELSE LET p  == st[i - 1]
                     bs == IF p.bc % 4 # 0 THEN p.bs * 64 + s[i] ELSE s[i]
                 IN  [bc  |-> p.bc + 1,
                      bs  |-> bs,
                      out |-> IF p.bc % 4 # 0
                              THEN Append(p.out,
                                          (bs \div 2^AtobShift(p.bc + 1)) % 256)
                              ELSE p.out]
    IN  st[Len(s)].out

\* Fault model: the continuation byte keeps the unit's high bits.
Utf8Unmasked(u) == IF u < 128 THEN <<u>> ELSE <<192 + u \div 64, 128 + u>>

\* JS_ToCString of a code unit <= 0xFF: one UTF-8 byte, or two.
Utf8(u) == IF u < 128 THEN <<u>> ELSE <<192 + u \div 64, 128 + (u % 64)>>

\* body_str = JS_ToCString(body), as far as strlen reads it.
CString(units) ==
    LET bytes == FlattenSeq([k \in 1..Len(units) |-> Utf8(units[k])])
        nul   == {k \in 1..Len(bytes) : bytes[k] = 0}
    IN  IF nul = {} THEN bytes ELSE SubSeq(bytes, 1, Min(nul) - 1)

\* Fault model: the third character is padded on the test of the fourth.
QuadPadEarly(bytes, i) ==
    LET len == Len(bytes)
        b == bytes[i + 1] * 65536
               + (IF i + 1 < len THEN bytes[i + 2] * 256 ELSE 0)
               + (IF i + 2 < len THEN bytes[i + 3] ELSE 0)
    IN  << (b \div 262144) % 64, (b \div 4096) % 64,
           IF i + 2 < len THEN (b \div 64) % 64 ELSE Pad,
           IF i + 2 < len THEN b % 64 ELSE Pad >>

\* One pass of the encoder loop at offset i (0-based): 24 bits b, four
\* characters, '=' for the bytes past the end.
Quad(bytes, i) ==
    LET len == Len(bytes)
        b == bytes[i + 1] * 65536
               + (IF i + 1 < len THEN bytes[i + 2] * 256 ELSE 0)
               + (IF i + 2 < len THEN bytes[i + 3] ELSE 0)
    IN  << (b \div 262144) % 64, (b \div 4096) % 64,
           IF i + 1 < len THEN (b \div 64) % 64 ELSE Pad,
           IF i + 2 < len THEN b % 64 ELSE Pad >>

\* Fault model: the loop bound leaves no room for the NUL.
EncodeBoundOffByOne(bytes) ==
    LET enc[i \in Nat, j \in Nat] ==
            IF i < Len(bytes) /\ j < EncCap - 3
            THEN Quad(bytes, i) \o enc[i + 3, j + 4] ELSE <<>>
    IN  enc[0, 0]

\* for (i = 0; i < len && j < sizeof(encoded_body) - 4; i += 3) ...
Encode(bytes) ==
    LET enc[i \in Nat, j \in Nat] ==
            IF i < Len(bytes) /\ j < EncCap - 4
            THEN Quad(bytes, i) \o enc[i + 3, j + 4] ELSE <<>>
    IN  enc[0, 0]

\* send_response's escaping copy: no character of the base64 alphabet is
\* escaped, so it copies while j < sizeof(escaped_body) - 1.
Escape(text) ==
    SubSeq(text, 1, IF Len(text) < EscCap - 1 THEN Len(text) ELSE EscCap - 1)

-----------------------------------------------------------------------------

Init ==
    /\ pc = "invoke"
    /\ sent \in BoundedSeq(Bytes, MaxBody)
    /\ reqBody = NoBody
    /\ kind = "none"
    /\ respBody = NoBody
    /\ cstr = <<>>
    /\ reply = [type |-> "none"]

\* The template with two copies of the body text does not fit:
\* REQUEST_CREATION_ERROR, the handler is not called.
RequestTooLarge ==
    /\ pc = "invoke"
    /\ ~TemplateFits(RefEncode(sent))
    /\ reply' = [type |-> "error", code |-> "REQUEST_CREATION_ERROR"]
    /\ pc' = "replied"
    /\ UNCHANGED <<sent, reqBody, kind, respBody, cstr>>

\* The template evaluates: body = '%s' ? atob('%s') : null, and the
\* Request keeps init.body || this.body || null.
BuildRequest ==
    /\ pc = "invoke"
    /\ TemplateFits(RefEncode(sent))
    /\ reqBody' = IF RefEncode(sent) = <<>> THEN NoBody
                                          ELSE OrNull(Atob(RefEncode(sent)))
    /\ pc' = "handler"
    /\ UNCHANGED <<sent, kind, respBody, cstr, reply>>

\* The handler returns new Response(body), whose constructor keeps
\* body || null: its request's body, or one it makes.
Handle ==
    /\ pc = "handler"
    /\ \/ /\ kind' = "echo"
          /\ respBody' = OrNull(reqBody)
       \/ /\ kind' = "generated"
          /\ \E u \in BoundedSeq(Units, MaxResp) : respBody' = OrNull(u)
    /\ pc' = "respond"
    /\ UNCHANGED <<sent, reqBody, cstr, reply>>

\* execute_handler: a string body goes through JS_ToCString, strlen and
\* the encoder; null gives "".  send_response copies the text.
Respond ==
    /\ pc = "respond"
    /\ cstr' = IF respBody = NoBody THEN <<>> ELSE CString(respBody)
    /\ reply' = [type |-> "response",
                 enc  |-> Encode(cstr'),
                 body |-> Escape(Encode(cstr'))]
    /\ pc' = "replied"
    /\ UNCHANGED <<sent, reqBody, kind, respBody>>

\* The invocation is over.
Done ==
    /\ pc = "replied"
    /\ UNCHANGED vars

Next == RequestTooLarge \/ BuildRequest \/ Handle \/ Respond \/ Done

Spec == Init /\ [][Next]_vars

-----------------------------------------------------------------------------
(* Properties.                                                             *)

\* Every variable holds a value of its intended kind; in particular
\* body_str holds bytes, none of them NUL.
TypeOK ==
    /\ pc \in {"invoke", "handler", "respond", "replied"}
    /\ sent \in Seq(Bytes)
    /\ reqBody \in Seq(0..255) \cup {NoBody}
    /\ kind \in {"none", "echo", "generated"}
    /\ respBody \in Seq(0..255) \cup {NoBody}
    /\ cstr \in Seq(1..255)
    /\ reply.type \in {"none", "error", "response"}

\* The bytes of body_str the encoder keeps: whole groups of three, as
\* many as the loop bound of main.c:800 lets through (12285 for 16384).
EncBytes == 3 * ((EncCap - 5) \div 4 + 1)

\* The encoder loop (main.c:800) and the escaping copy of send_response
\* (main.c:86) never write past their buffers, NUL included, whatever
\* body the handler returns.
BufferFits ==
    reply.type = "response" =>
        /\ Len(reply.enc) + 1 <= EncCap
        /\ Len(reply.body) + 1 <= EscCap

\* Whenever the request template fits, the handler's req.body is exactly
\* the bytes the supervisor base64-encoded, as Latin-1 code units (null
\* for no bytes): the atob polyfill inverts standard base64.
RequestBodyExact ==
    pc # "invoke" /\ TemplateFits(RefEncode(sent)) => reqBody = OrNull(sent)

\* The response body decodes, by standard base64, to the first EncBytes
\* bytes of body_str: the encoder is standard base64 with '=' padding,
\* and its truncation cuts whole groups without corrupting them.
ResponseFaithful ==
    reply.type = "response" =>
        RefDecode(reply.body) =
            SubSeq(cstr, 1, IF Len(cstr) < EncBytes THEN Len(cstr)
                                                   ELSE EncBytes)

\* Spec 8 (base64 round trip): a handler that echoes its request body
\* answers with a response whose body base64-decodes to the bytes sent.
RoundTrip ==
    pc = "replied" /\ kind # "generated" =>
        /\ reply.type = "response"
        /\ RefDecode(reply.body) = sent

\* Spec 9 (scratch buffers): the response carries all of body_str; a body
\* the buffers cannot hold is reported, not cut.
ResponseComplete ==
    reply.type = "response" => RefDecode(reply.body) = cstr

=============================================================================

------------------------------ MODULE Lifetime ------------------------------
(***************************************************************************)
(* Reference counts of the engine values process_messages takes for one   *)
(* stdin line: the parsed message, its type, id and payload properties,   *)
(* the payload's five fields, the two JSON strings made from headers and  *)
(* query, and the C strings taken from them.  A count includes the        *)
(* reference an object holds to each of its properties; a value whose    *)
(* count drops to 0 is freed and releases what it holds.                  *)
(*                                                                         *)
(* JS_ToCString (quickjs) returns, for a string whose bytes are all       *)
(* ASCII, the engine string itself with one more reference, and for any   *)
(* other string a fresh copy with a count of 1; it returns NULL when the  *)
(* conversion throws.  JS_FreeCString releases one reference of the       *)
(* string the pointer belongs to.  Which case a string falls in is part   *)
(* of the input line.                                                      *)
(***************************************************************************)
EXTENDS Integers, Sequences

CONSTANTS
    MaxLines,   \* stdin lines before EOF
    Null,       \* a NULL C string
    Encodings   \* how JS_ToCString treats a string: "ascii" (all bytes
                \* ASCII), "other", or "throws"

ASSUME LifetimeAssumption ==
    MaxLines \in Nat /\ Encodings \subseteq {"ascii", "other", "throws"} /\ "ascii" \in Encodings

Fields == {"method", "path", "headers", "query", "body"}
JsonFields == {"headers", "query"}
\* The C strings of one iteration, by the variable that holds them.
CNames == {"type", "id", "method", "path", "headers", "query", "body"}

\* msg_val, and the type, id and payload properties of the message.
Msg == <<"msg", "msg">>
Prop(k) == <<"prop", k>>

Cells ==
    {Msg} \cup {Prop(k) : k \in {"type", "id", "payload"}}
    \cup {<<"val", f>> : f \in Fields}
    \cup {<<"json", f>> : f \in JsonFields}
    \cup {<<"copy", n>> : n \in CNames}

\* A NULL C string points into no value.
ASSUME NullAssumption == Null \notin Cells

\* What each value holds a reference to.
Children(c) ==
    CASE c = Msg -> {Prop(k) : k \in {"type", "id", "payload"}}
      [] c = Prop("payload") -> {<<"val", f>> : f \in Fields}
      [] OTHER -> {}


\* The stdin lines: not JSON, a record whose type is not "invoke", an invoke
\* without a payload, an invoke with one.
Kinds == {"bad", "other", "nopayload", "invoke"}

VARIABLES
    pc,     \* "read", "type", "id", "fields", "nopayload", "free_fields",
            \* "free_invoke", "cleanup", "done"
    lines,  \* lines read so far
    kind,   \* the kind of the line being processed
    rc,     \* references taken less references released, by value; a
            \* value of a new line adds to the balance of its role
    cstr    \* the value each C string variable points into, or Null

vars == <<pc, lines, kind, rc, cstr>>

\* The values JS_ParseJSON creates for a line of each kind.
Parsed(k) ==
    CASE k = "bad" -> {}
      [] k = "invoke" -> {Msg, Prop("type"), Prop("id"), Prop("payload")}
                         \cup {<<"val", f>> : f \in Fields}
      [] OTHER -> {Msg, Prop("type"), Prop("id")}

Dec(m, S) == [x \in Cells |-> IF x \in S THEN m[x] - 1 ELSE m[x]]

Inc(m, S) == [x \in Cells |-> IF x \in S THEN m[x] + 1 ELSE m[x]]

\* JS_FreeValue / JS_FreeCString: one reference less; a value that reaches 0
\* releases the properties it holds (those among held), and they theirs
\* (two levels: msg, payload).
Release(m, c, held) ==
    LET m1 == Dec(m, {c})
        dead1 == IF m[c] = 1 THEN Children(c) \cap held ELSE {}
        m2 == Dec(m1, dead1)
        dead2 == UNION {Children(x) \cap held : x \in {y \in dead1 : m1[y] = 1}}
    IN  Dec(m2, dead2)

FreeCString(m, p, held) == IF p = Null THEN m ELSE Release(m, p, held)

\* The value the C string variable n is converted from.
Src(n) ==
    IF n \in JsonFields THEN <<"json", n>>
    ELSE IF n \in Fields THEN <<"val", n>> ELSE Prop(n)

\* The pointer JS_ToCString gives the C string variable n.
CPtr(n, enc) ==
    CASE enc = "ascii" -> Src(n)
      [] enc = "other" -> <<"copy", n>>
      [] enc = "throws" -> Null

\* JS_ToCString into the C string variables N: one reference more on the
\* value each non-NULL pointer belongs to (the string itself, or its fresh
\* copy); the variables' pointers are into different values.
ToCString(m, N, enc) == Inc(m, {CPtr(n, enc[n]) : n \in N} \ {Null})

\* JS_FreeCString of several C strings, each into a different value that
\* holds nothing; the NULL ones are skipped.
FreeCStrings(m, P) == Dec(m, P \ {Null})

Init ==
    /\ pc = "read"
    /\ lines = 0
    /\ kind = "bad"
    /\ rc = [c \in Cells |-> 0]
    /\ cstr = [n \in CNames |-> Null]


\* getline and JS_ParseJSON: a line that is not JSON is reported on stderr
\* and dropped (the exception and its text are released at once); a
\* parsed message holds its type and id, and an invoke's payload holds
\* its five fields.
ReadLine ==
    /\ pc = "read"
    /\ lines < MaxLines
    /\ \E k \in Kinds :
          /\ kind' = k
          /\ rc' = Inc(rc, Parsed(k))
          /\ pc' = IF k = "bad" THEN "read" ELSE "type"
    /\ lines' = lines + 1
    /\ cstr' = [n \in CNames |-> Null]

\* type_val and type_str; only a type_str equal to "invoke" goes on.
GetType ==
    /\ pc = "type"
    /\ \E e \in [{"type"} -> Encodings] :
          \* "invoke" itself is ASCII
          /\ kind \in {"invoke", "nopayload"} => e["type"] = "ascii"
          /\ rc' = ToCString([rc EXCEPT ![Prop("type")] = @ + 1], {"type"}, e)
          /\ cstr' = [cstr EXCEPT !["type"] = CPtr("type", e["type"])]
    /\ pc' = IF kind \in {"invoke", "nopayload"} THEN "id" ELSE "cleanup"
    /\ UNCHANGED <<lines, kind>>

\* id_val, invoke_id and payload_val.
GetId ==
    /\ pc = "id"
    /\ \E e \in [{"id"} -> Encodings] :
          /\ LET m == ToCString([rc EXCEPT ![Prop("id")] = @ + 1], {"id"}, e)
             IN  rc' = IF kind = "invoke" THEN [m EXCEPT ![Prop("payload")] = @ + 1] ELSE m
          /\ cstr' = [cstr EXCEPT !["id"] = CPtr("id", e["id"])]
    /\ pc' = IF kind = "invoke" THEN "fields" ELSE "nopayload"
    /\ UNCHANGED <<lines, kind>>

\* The five fields, headers and query stringified, their C strings; then
\* execute_handler, which only borrows them.
ReadFields ==
    /\ pc = "fields"
    /\ LET m == [c \in Cells |->
                   CASE c \in {<<"val", f>> : f \in Fields} -> rc[c] + 1
                     [] c \in {<<"json", f>> : f \in JsonFields} -> 1
                     [] OTHER -> rc[c]]
       IN  \E e \in [Fields -> Encodings] :
              /\ rc' = ToCString(m, Fields, e)
              /\ cstr' = [n \in CNames |-> IF n \in Fields THEN CPtr(n, e[n]) ELSE cstr[n]]
    /\ pc' = "free_fields"
    /\ UNCHANGED <<lines, kind>>

\* "Free C strings" and "Free JS values" after execute_handler.
FreeFields ==
    /\ pc = "free_fields"
    /\ rc' = Dec(FreeCStrings(rc, {cstr[n] : n \in {"id"} \cup Fields}),
                 {<<"val", f>> : f \in Fields} \cup {<<"json", f>> : f \in JsonFields})
    /\ pc' = "free_invoke"
    /\ UNCHANGED <<lines, kind, cstr>>

\* send_error(INVALID_MESSAGE) borrows invoke_id.
NoPayload ==
    /\ pc = "nopayload"
    /\ pc' = "free_invoke"
    /\ UNCHANGED <<lines, kind, rc, cstr>>

\* Mutant: payload_val is not released.
FreeInvokeKeepPayload ==
    /\ pc = "free_invoke"
    /\ rc' = Release(FreeCString(rc, cstr["id"], Parsed(kind)), Prop("id"), Parsed(kind))
    /\ pc' = "cleanup"
    /\ UNCHANGED <<lines, kind, cstr>>

\* invoke_id, id_val and payload_val (undefined when there is none).
FreeInvoke ==
    /\ pc = "free_invoke"
    /\ LET held == Parsed(kind)
           m == Release(FreeCString(rc, cstr["id"], held), Prop("id"), held)
       IN  rc' = IF kind = "invoke" THEN Release(m, Prop("payload"), held) ELSE m
    /\ pc' = "cleanup"
    /\ UNCHANGED <<lines, kind, cstr>>

\* type_str, type_val and msg_val; msg_val releases what it still holds.
Cleanup ==
    /\ pc = "cleanup"
    /\ LET held == Parsed(kind)
       IN  rc' = Release(Release(FreeCString(rc, cstr["type"], held), Prop("type"), held),
                         Msg, held)
    /\ pc' = "read"
    /\ UNCHANGED <<lines, kind, cstr>>

\* getline reports EOF; main frees the engine and exits.
EndOfInput ==
    /\ pc = "read"
    /\ lines = MaxLines
    /\ pc' = "done"
    /\ UNCHANGED <<lines, kind, rc, cstr>>

Terminated ==
    /\ pc = "done"
    /\ UNCHANGED vars

Next ==
    \/ ReadLine \/ GetType \/ GetId \/ ReadFields \/ FreeFields \/ NoPayload
    \/ FreeInvoke \/ Cleanup \/ EndOfInput \/ Terminated

Spec == Init /\ [][Next]_vars

-----------------------------------------------------------------------------
(* Properties.                                                             *)

\* Spec 4.3 (value lifetimes): every reference process_messages takes for a
\* line, on every path through the loop body (not JSON, not an invoke,
\* NULL type or id, no payload, a payload), has been released by the
\* time the loop reads the next line or exits.
NoLeak ==
    pc \in {"read", "done"} => \A c \in Cells : rc[c] <= 0

\* No value is released more often than it was referenced: a count below
\* 0 is a JS_FreeValue or JS_FreeCString of freed memory.
NoDoubleRelease ==
    \A c \in Cells : rc[c] >= 0

=============================================================================

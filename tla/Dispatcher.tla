------------------------------ MODULE Dispatcher ------------------------------
(***************************************************************************)
(* What the worker promises the supervisor (spec 4.6 and 4.7): start, load *)
(* or fail, then take stdin lines one at a time in arrival order; each    *)
(* invoke is answered at once or becomes the one invocation being served  *)
(* until it is answered; at EOF, with nothing left to read, exit.         *)
(* Logs, jobs, promises and the text of records are not visible here.     *)
(***************************************************************************)
EXTENDS Naturals, Sequences

CONSTANTS
    Lines,      \* the stdin lines; an invoke line has kind "invoke" and an id
    MaxLines,   \* lines the supervisor writes before it closes stdin
    NoId        \* no invocation is being served

VARIABLES
    state,      \* "init", "loading", "ready", "serving", "exited", "failed"
    inbox,      \* lines written and not yet taken
    written,    \* lines the supervisor has written
    eof,        \* the supervisor has closed stdin
    answered,   \* ids of the replies sent, in order
    current     \* the invocation being served, or NoId

avars == <<state, inbox, written, eof, answered, current>>

Init ==
    /\ state = "init"
    /\ inbox = <<>>
    /\ written = 0
    /\ eof = FALSE
    /\ answered = <<>>
    /\ current = NoId

\* Init -> Loading: the engine is up.
Start ==
    /\ state = "init"
    /\ state' = "loading"
    /\ UNCHANGED <<inbox, written, eof, answered, current>>

\* Any start-up or load failure: exit 1.
Fail ==
    /\ state \in {"init", "loading"}
    /\ state' = "failed"
    /\ UNCHANGED <<inbox, written, eof, answered, current>>

\* Loading -> Ready: the handler is retained and ready is sent.
Loaded ==
    /\ state = "loading"
    /\ state' = "ready"
    /\ UNCHANGED <<inbox, written, eof, answered, current>>

\* A line that is not an invoke is dropped.
Skip ==
    /\ state = "ready"
    /\ inbox # <<>>
    /\ Head(inbox).kind # "invoke"
    /\ inbox' = Tail(inbox)
    /\ UNCHANGED <<state, written, eof, answered, current>>

\* An invoke answered before the worker reads on.
Answer ==
    /\ state = "ready"
    /\ inbox # <<>>
    /\ Head(inbox).kind = "invoke"
    /\ answered' = Append(answered, Head(inbox).id)
    /\ inbox' = Tail(inbox)
    /\ UNCHANGED <<state, written, eof, current>>

\* Ready -> Serving(id).
Begin ==
    /\ state = "ready"
    /\ inbox # <<>>
    /\ Head(inbox).kind = "invoke"
    /\ current' = Head(inbox).id
    /\ state' = "serving"
    /\ inbox' = Tail(inbox)
    /\ UNCHANGED <<written, eof, answered>>

\* Serving(id) -> Ready: exactly one reply for id.
Finish ==
    /\ state = "serving"
    /\ answered' = Append(answered, current)
    /\ current' = NoId
    /\ state' = "ready"
    /\ UNCHANGED <<inbox, written, eof>>

\* EOF with nothing left to read: exit 0.
Stop ==
    /\ state = "ready"
    /\ inbox = <<>>
    /\ eof
    /\ state' = "exited"
    /\ UNCHANGED <<inbox, written, eof, answered, current>>

Send ==
    /\ ~eof
    /\ written < MaxLines
    /\ \E l \in Lines : inbox' = Append(inbox, l)
    /\ written' = written + 1
    /\ UNCHANGED <<state, eof, answered, current>>

Close ==
    /\ ~eof
    /\ eof' = TRUE
    /\ UNCHANGED <<state, inbox, written, answered, current>>

\* Taking the next line, or exiting at EOF, once the worker is ready.
Serve == Skip \/ Answer \/ Begin \/ Stop

Next ==
    \/ Start \/ Fail \/ Loaded \/ Serve \/ Finish
    \/ Send \/ Close

\* A ready worker does not stop reading: nothing in the dispatcher waits
\* on anything but stdin.  Loading and serving may hang (a promise nobody
\* settles), so they get no fairness.
Spec == Init /\ [][Next]_avars /\ WF_avars(Serve)

=============================================================================

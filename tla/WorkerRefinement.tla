--------------------------- MODULE WorkerRefinement ---------------------------
(***************************************************************************)
(* Worker implements Dispatcher.  The abstract state is read off the      *)
(* worker: its phase from pc, the inbox from stdin, the answered ids from *)
(* the replies on stdout, and the invocation being served from the       *)
(* execute_handler frame.  Loading the bundle, driving the job queue and  *)
(* console output are stuttering steps of the abstract machine.           *)
(***************************************************************************)
EXTENDS Worker

\* The phase of spec 4.7 the worker's control point is in.
Phase ==
    CASE pc = "boot"                      -> "init"
      [] pc \in {"loading", "loadAwait"}  -> "loading"
      [] pc = "idle"                      -> "ready"
      [] pc = "await"                     -> "serving"
      [] pc = "exit0"                     -> "exited"
      [] pc = "exit1"                     -> "failed"

Abs == INSTANCE Dispatcher
         WITH state <- Phase, inbox <- stdin, answered <- ReplyIds,
              current <- serving

\* Every behaviour of the worker, read through the mapping, is a behaviour
\* of the dispatcher: lines are taken in order, each invoke gets exactly
\* one reply, immediately or when the one invocation in service finishes,
\* the worker exits 0 only at EOF with nothing left unread, and once ready
\* it keeps taking lines.
DispatcherRefined == Abs!Spec

=============================================================================

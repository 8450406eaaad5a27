----------------------------- MODULE Lifecycle -----------------------------
(***************************************************************************)
(* One process of the system: main, which is the same in the four          *)
(* services, the access log of Handler.Middleware and the two outputs of   *)
(* the logger.  A goroutine runs per request; stdout is written at once,   *)
(* the OpenTelemetry SDK exports from a bounded queue.                     *)
(***************************************************************************)
EXTENDS Naturals, Sequences, SequencesExt

CONSTANTS
  Requests,
  Static,      \* those for a file under /static/, which only the gateway has
  Codes,       \* the statuses that handlers answer with, 200 if they set none
  QueueLimit   \* records that the batch processor holds

ASSUME LifecycleAssumption ==
  QueueLimit \in Nat \ {0} /\ 200 \in Codes /\ Static \subseteq Requests

VARIABLES
  phase,      \* where main is: starting, serving, draining, flushing, gone
  listened,   \* the listener has been open: there may be connections
  stop,       \* why main is to leave its select: {"signal", "server error"}
  req,        \* req[r]: none, handler, written, logged; answered or cut
  got,        \* the requests whose clients have the whole answer
  statusCode, \* statusCode[r]: the field of responseWriter, for the access log
  sent,       \* sent[r]: the status that the wrapped writer sends
  stdout,     \* the records written to stdout
  queue,      \* the records that wait for the exporter
  exported,   \* the records that the collector got
  lost,       \* those that fell out of the queue or whose export failed
  late,       \* those logged after the provider's Shutdown began
  forced      \* what was not waited for: {"drain", "kill"}

vars == <<phase, listened, stop, req, got, statusCode, sent,
          stdout, queue, exported, lost, late, forced>>

requestVars == <<req, got, statusCode, sent>>
logVars == <<stdout, queue, exported, lost, late>>

\* A record: its request or "main", its message, and the status in its fields.
Line(who, message, code) == [who |-> who, message |-> message, status |-> code]
MainLine(message) == Line("main", message, 0)

Init ==
  /\ phase = "starting"
  /\ listened = FALSE
  /\ stop = {}
  /\ req = [r \in Requests |-> "none"]
  /\ got = {}
  /\ statusCode = [r \in Requests |-> 200]
  /\ sent = [r \in Requests |-> 200]
  /\ stdout = {} /\ queue = <<>> /\ exported = {} /\ lost = {} /\ late = {}
  /\ forced = {}

-----------------------------------------------------------------------------
(* The logger: NewTee writes to stdout and emits to the batch processor,   *)
(* which drops its oldest records when it is full and everything once it   *)
(* has been shut down.                                                     *)

\* Faulty variant of Emit: a queue without a limit.
EmitUnbounded(records) ==
  queue' = queue \o records /\ UNCHANGED <<exported, lost, late>>

Emit(records) ==
  LET all == queue \o records
      over == IF Len(all) > QueueLimit THEN Len(all) - QueueLimit ELSE 0
  IN /\ queue' = SubSeq(all, over + 1, Len(all))
     /\ lost' = lost \cup ToSet(SubSeq(all, 1, over))
     /\ UNCHANGED <<exported, late>>

Log(records) ==
  /\ stdout' = stdout \cup ToSet(records)
  /\ IF phase # "flushing" THEN Emit(records)
     ELSE /\ late' = late \cup ToSet(records)
          /\ UNCHANGED <<queue, exported, lost>>

\* The exporter posts what is queued; the collector may be unreachable.
Export ==
  /\ phase \notin {"gone", "flushing"}
  /\ queue # <<>>
  /\ queue' = <<>>
  /\ \/ exported' = exported \cup ToSet(queue) /\ UNCHANGED lost
     \/ lost' = lost \cup ToSet(queue) /\ UNCHANGED exported
  /\ UNCHANGED <<phase, listened, stop, requestVars, stdout, late, forced>>

-----------------------------------------------------------------------------
(* A request under Middleware.                                             *)

Alive == phase # "gone"

Goes(r, from, to) == req[r] = from /\ req' = [req EXCEPT ![r] = to]

\* A connection brings a request.  While Shutdown runs, one that it has not
\* closed yet still may: it gives a new connection 5 s to send its first one.
Accept(r) ==
  /\ listened
  /\ phase \in {"serving", "draining"}
  /\ Goes(r, "none", "handler")
  /\ UNCHANGED <<phase, listened, stop, got, statusCode, sent, logVars, forced>>

\* Faulty variant of WriteHeader: the wrapper does not keep the code.
WriteHeaderThrough(r, code) ==
  /\ sent' = [sent EXCEPT ![r] = code]
  /\ UNCHANGED statusCode

\* responseWriter.WriteHeader
WriteHeader(r, code) ==
  /\ statusCode' = [statusCode EXCEPT ![r] = code]
  /\ sent' = [sent EXCEPT ![r] = code]

\* The handler logs, if it has something to say, and writes its response, with
\* or without a call of WriteHeader.  At least the end of what it writes waits in
\* the server's buffer, as the length is not known before the handler returns;
\* but FileServer announces it, and a file that exceeds the buffer leaves whole.
Respond(r) ==
  /\ Alive
  /\ Goes(r, "handler", "written")
  /\ Log(<<>>) \/ Log(<<Line(r, "handler", 0)>>)
  /\ \/ \E code \in Codes : WriteHeader(r, code)
     \/ UNCHANGED <<statusCode, sent>>
  /\ got' = got \/ (r \in Static /\ got' = got \cup {r})
  /\ UNCHANGED <<phase, listened, stop, forced>>

\* "request completed"
AccessLog(r) ==
  /\ Alive
  /\ Goes(r, "written", "logged")
  /\ Log(<<Line(r, "request completed", statusCode[r])>>)
  /\ UNCHANGED <<phase, listened, stop, got, statusCode, sent, forced>>

\* net/http flushes what is left of the response when the outermost handler has
\* returned.
Answer(r) ==
  /\ Alive
  /\ Goes(r, "logged", "answered")
  /\ got' = got \cup {r}
  /\ UNCHANGED <<phase, listened, stop, statusCode, sent, logVars, forced>>

-----------------------------------------------------------------------------
(* main                                                                    *)

\* logger.New fails and main exits, or it logs and starts the server.
Start ==
  /\ phase = "starting"
  /\ \/ /\ phase' = "gone"
        /\ UNCHANGED logVars
     \/ /\ phase' = "serving"
        /\ Log(<<MainLine("starting")>>)
  /\ UNCHANGED <<listened, stop, requestVars, forced>>

\* The goroutine of ListenAndServe: it listens, or reports an error, then or
\* later.
Listen ==
  /\ phase = "serving"
  /\ "server error" \notin stop
  /\ \/ listened' = TRUE /\ UNCHANGED stop
     \/ stop' = stop \cup {"server error"} /\ UNCHANGED listened
  /\ UNCHANGED <<phase, requestVars, logVars, forced>>

\* SIGTERM or an interrupt cancels ctx; later ones are swallowed.
Signal ==
  /\ Alive
  /\ "signal" \notin stop
  /\ stop' = stop \cup {"signal"}
  /\ UNCHANGED <<phase, listened, requestVars, logVars, forced>>

\* select, then the first part of Shutdown: the listener is closed.
StopServing ==
  /\ phase = "serving"
  /\ \E why \in stop : Log(<<MainLine(why)>>)
  /\ phase' = "draining"
  /\ UNCHANGED <<listened, stop, requestVars, forced>>

Running == {r \in Requests : req[r] \in {"handler", "written", "logged"}}

Leave(records) ==
  /\ phase' = "flushing"
  /\ Log(records)
  /\ UNCHANGED <<listened, stop, requestVars>>

\* Faulty variant of Drained: main does not wait for Shutdown.
DrainedAtOnce ==
  /\ phase = "draining"
  /\ Leave(<<MainLine("stopped")>>)
  /\ UNCHANGED forced

\* Shutdown returns nil: no connection is active any more.
Drained ==
  /\ phase = "draining"
  /\ Running = {}
  /\ Leave(<<MainLine("stopped")>>)
  /\ UNCHANGED forced

\* Faulty variant of DrainTimeout: Shutdown with context.Background().
NeverTimesOut == phase = "draining" /\ FALSE /\ UNCHANGED vars

\* Shutdown returns DeadlineExceeded after 10 s.
DrainTimeout ==
  /\ phase = "draining"
  /\ Running # {}
  /\ Leave(<<MainLine("shutdown error"), MainLine("stopped")>>)
  /\ forced' = forced \cup {"drain"}

\* The process is gone, its goroutines with it.
Exit ==
  /\ phase' = "gone"
  /\ req' = [r \in Requests |-> IF r \in Running THEN "cut" ELSE req[r]]
  /\ UNCHANGED <<listened, stop, got, statusCode, sent>>

\* Faulty variant of Flushed: main returns without the deferred call.
NotFlushed ==
  /\ phase = "flushing"
  /\ Exit
  /\ UNCHANGED <<logVars, forced>>

\* The deferred provider.Shutdown exports the queue, or fails within its 5 s,
\* which main can only tell stdout; then main returns.
Flushed ==
  /\ phase = "flushing"
  /\ Exit
  /\ queue' = <<>>
  /\ \/ /\ exported' = exported \cup ToSet(queue)
        /\ UNCHANGED <<stdout, late, lost>>
     \/ /\ lost' = lost \cup ToSet(queue)
        /\ stdout' = stdout \cup {MainLine("failed to shut down logger")}
        /\ late' = late \cup {MainLine("failed to shut down logger")}
        /\ UNCHANGED exported
  /\ UNCHANGED forced

\* A crash, or Docker's SIGKILL when its own patience ends.
Killed ==
  /\ Alive
  /\ Exit
  /\ lost' = lost \cup ToSet(queue)
  /\ queue' = <<>>
  /\ forced' = forced \cup {"kill"}
  /\ UNCHANGED <<stdout, exported, late>>

MainStep == Start \/ StopServing \/ Drained \/ DrainTimeout \/ Flushed

Next ==
  \/ MainStep \/ Listen \/ Signal \/ Killed \/ Export
  \/ \E r \in Requests : Accept(r) \/ Respond(r) \/ AccessLog(r) \/ Answer(r)

\* main goes on: Shutdown and the flush return at the latest by their
\* contexts' deadlines.  Nothing is assumed of the handlers or the collector.
Spec == Init /\ [][Next]_vars /\ WF_vars(MainStep)

-----------------------------------------------------------------------------

TypeOK ==
  /\ phase \in {"starting", "serving", "draining", "flushing", "gone"}
  /\ listened \in BOOLEAN
  /\ stop \subseteq {"signal", "server error"}
  /\ req \in [Requests -> {"none", "handler", "written", "logged",
                           "answered", "cut"}]
  /\ got \subseteq Requests
  /\ statusCode \in [Requests -> Codes]
  /\ sent \in [Requests -> Codes]
  /\ Len(queue) <= QueueLimit
  /\ forced \subseteq {"drain", "kill"}
  /\ Running # {} => listened /\ phase # "starting"
  /\ phase = "gone" => Running = {}

\* A request that was accepted is answered although the process is told to
\* stop: it is cut off only when Shutdown ran out of its 10 s or the process
\* was killed.
DrainedOrForced == forced = {} => \A r \in Requests : req[r] # "cut"

\* A client that has its whole answer finds it in the access log on stdout, with
\* the status it got.  Only a static file may be with its client before the line
\* is written; the line then follows, unless the process is killed or the
\* handler outlives Shutdown.
AnsweredIsLogged ==
  \A r \in got :
    \/ Line(r, "request completed", sent[r]) \in stdout
    \/ r \in Static /\ req[r] = "written"
    \/ r \in Static /\ req[r] = "cut" /\ forced # {}

\* No record disappears without a reason: when the process is gone, what is
\* on stdout is at the collector too, or was dropped with its batch or the full
\* queue, or came after the flush had begun, from a handler that outlived
\* Shutdown or from the failed flush itself.  Nothing reaches the collector
\* that stdout does not show.
LossAccounted ==
  /\ exported \subseteq stdout
  /\ phase = "gone" => stdout = exported \cup lost \cup late
  /\ "drain" \notin forced => late \subseteq {MainLine("failed to shut down logger")}

\* After SIGTERM or a server error the process ends, though a handler hangs and
\* the collector does not answer.
Terminates == stop # {} ~> phase = "gone"
=============================================================================

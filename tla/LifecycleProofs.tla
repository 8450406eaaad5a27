-------------------------- MODULE LifecycleProofs --------------------------
(***************************************************************************)
(* The safety properties of Lifecycle for any number of requests and any   *)
(* length of the queue.  The books of the logger balance at every step,    *)
(* not only at the end: that is the invariant Stream.                      *)
(***************************************************************************)
EXTENDS Lifecycle, SequenceTheorems, TLAPS

Messages == {"handler", "request completed", "starting", "stopped", "signal",
             "server error", "shutdown error", "failed to shut down logger"}

LogRecord == [who : Requests \cup {"main"}, message : Messages, status : Codes \cup {0}]

Goodbye == MainLine("failed to shut down logger")

\* Each record of stdout is at one of the four places it can come to.
Stream ==
  /\ queue \in Seq(LogRecord)
  /\ Len(queue) <= QueueLimit
  /\ exported \subseteq stdout
  /\ stdout = exported \cup lost \cup late \cup ToSet(queue)

Types ==
  /\ phase \in {"starting", "serving", "draining", "flushing", "gone"}
  /\ listened \in BOOLEAN
  /\ stop \subseteq {"signal", "server error"}
  /\ req \in [Requests -> {"none", "handler", "written", "logged",
                           "answered", "cut"}]
  /\ got \subseteq Requests
  /\ statusCode \in [Requests -> Codes]
  /\ sent = statusCode
  /\ forced \subseteq {"drain", "kill"}

\* Where requests may run, and when one may have been cut off.
RunInv ==
  /\ Running # {} => listened /\ phase \notin {"starting", "gone"}
  /\ phase = "flushing" /\ "drain" \notin forced => Running = {}
  /\ DrainedOrForced

\* When the queue is empty, and what may have come too late for it.
EndInv ==
  /\ phase \in {"starting", "gone"} => queue = <<>>
  /\ "drain" \notin forced => late \subseteq {Goodbye}

\* A request past its log line has it, and only a static file is with its client
\* before the handlers are through.
LoggedInv ==
  /\ \A r \in Requests : req[r] \in {"logged", "answered"} =>
       Line(r, "request completed", sent[r]) \in stdout
  /\ \A r \in got :
       \/ req[r] = "answered"
       \/ r \in Static /\ req[r] \in {"written", "logged", "cut"}

IInv == Types /\ Stream /\ RunInv /\ EndInv /\ LoggedInv

USE LifecycleAssumption

-----------------------------------------------------------------------------

\* What ToSet yields of two parts of a sequence.
LEMMA ToSetSplit ==
  ASSUME NEW S, NEW s \in Seq(S), NEW k \in 0 .. Len(s)
  PROVE  /\ SubSeq(s, k + 1, Len(s)) \in Seq(S)
         /\ Len(SubSeq(s, k + 1, Len(s))) = Len(s) - k
         /\ ToSet(s) = ToSet(SubSeq(s, 1, k)) \cup ToSet(SubSeq(s, k + 1, Len(s)))
<1> DEFINE front == SubSeq(s, 1, k)
           back == SubSeq(s, k + 1, Len(s))
<1>1. /\ front \in Seq(S) /\ Len(front) = k
      /\ \A i \in 1 .. k : front[i] = s[i]
  BY SubSeqProperties
<1>2. /\ back \in Seq(S) /\ Len(back) = Len(s) - k
      /\ \A i \in 1 .. Len(s) - k : back[i] = s[k + i]
  BY SubSeqProperties
<1> HIDE DEF front, back
<1>3. ToSet(front) = {s[i] : i \in 1 .. k}
  BY <1>1 DEF ToSet
<1>4. ToSet(back) = {s[i] : i \in k + 1 .. Len(s)}
  <2>1. \A i \in k + 1 .. Len(s) : i - k \in 1 .. Len(s) - k /\ back[i - k] = s[i]
    BY <1>2
  <2>2. \A i \in 1 .. Len(s) - k : k + i \in k + 1 .. Len(s) /\ back[i] = s[k + i]
    BY <1>2
  <2>3. ToSet(back) = {back[i] : i \in 1 .. Len(s) - k}
    <3>1. DOMAIN back = 1 .. Len(s) - k
      BY <1>2
    <3>2. QED
      BY <3>1, Zenon DEF ToSet
  <2>4. QED
    BY <2>1, <2>2, <2>3
<1>5. ToSet(s) = {s[i] : i \in 1 .. k} \cup {s[i] : i \in k + 1 .. Len(s)}
  <2>1. \A i \in 1 .. Len(s) : i \in 1 .. k \/ i \in k + 1 .. Len(s)
    OBVIOUS
  <2>2. (1 .. k) \cup (k + 1 .. Len(s)) \subseteq 1 .. Len(s)
    OBVIOUS
  <2>3. ToSet(s) = {s[i] : i \in 1 .. Len(s)}
    BY DEF ToSet
  <2>4. QED
    BY <2>1, <2>2, <2>3
<1>6. QED
  BY <1>2, <1>3, <1>4, <1>5 DEF front, back

LEMMA ToSetConcat ==
  ASSUME NEW S, NEW s \in Seq(S), NEW t \in Seq(S)
  PROVE  s \o t \in Seq(S) /\ ToSet(s \o t) = ToSet(s) \cup ToSet(t)
<1>1. /\ s \o t \in Seq(S) /\ Len(s \o t) = Len(s) + Len(t)
      /\ \A i \in 1 .. Len(s) : (s \o t)[i] = s[i]
      /\ \A i \in 1 .. Len(t) : (s \o t)[Len(s) + i] = t[i]
  BY ConcatProperties
<1>2. \A i \in 1 .. Len(s) + Len(t) :
        i \in 1 .. Len(s) \/ (i - Len(s) \in 1 .. Len(t) /\ (s \o t)[i] = t[i - Len(s)])
  BY <1>1
<1>3. ToSet(s \o t) = {(s \o t)[i] : i \in 1 .. Len(s) + Len(t)}
  <2>1. DOMAIN (s \o t) = 1 .. Len(s) + Len(t)
    BY <1>1
  <2>2. QED
    BY <2>1, Zenon DEF ToSet
<1>4. ToSet(s) = {s[i] : i \in 1 .. Len(s)} /\ ToSet(t) = {t[i] : i \in 1 .. Len(t)}
  BY DEF ToSet
<1>5. ToSet(s \o t) \subseteq ToSet(s) \cup ToSet(t)
  BY <1>1, <1>2, <1>3, <1>4
<1>6. ToSet(s) \subseteq ToSet(s \o t)
  BY <1>1, <1>3, <1>4
<1>7. ToSet(t) \subseteq ToSet(s \o t)
  <2>1. \A i \in 1 .. Len(t) : Len(s) + i \in 1 .. Len(s) + Len(t)
    OBVIOUS
  <2>2. QED
    BY <1>1, <1>3, <1>4, <2>1
<1>8. QED
  BY <1>1, <1>5, <1>6, <1>7

\* Emitting neither invents nor forgets a record.
LEMMA EmitFacts ==
  ASSUME queue \in Seq(LogRecord), NEW records \in Seq(LogRecord), Emit(records)
  PROVE  /\ queue' \in Seq(LogRecord) /\ Len(queue') <= QueueLimit
         /\ lost' \cup ToSet(queue') = lost \cup ToSet(queue) \cup ToSet(records)
         /\ exported' = exported /\ late' = late
<1> DEFINE all == queue \o records
           over == IF Len(all) > QueueLimit THEN Len(all) - QueueLimit ELSE 0
<1>1. all \in Seq(LogRecord) /\ ToSet(all) = ToSet(queue) \cup ToSet(records)
  BY ToSetConcat
<1>2. /\ queue' = SubSeq(all, over + 1, Len(all))
      /\ lost' = lost \cup ToSet(SubSeq(all, 1, over))
      /\ exported' = exported /\ late' = late
  BY DEF Emit
<1> HIDE DEF all
<1>3. over \in 0 .. Len(all) /\ Len(all) - over <= QueueLimit
  BY <1>1
<1> HIDE DEF over
<1>4. /\ queue' \in Seq(LogRecord) /\ Len(queue') = Len(all) - over
      /\ ToSet(all) = ToSet(SubSeq(all, 1, over)) \cup ToSet(queue')
  BY <1>1, <1>2, <1>3, ToSetSplit
<1>5. QED
  BY <1>1, <1>2, <1>3, <1>4

\* What a log call does, whatever the phase.
LEMMA LogFacts ==
  ASSUME Stream, NEW records \in Seq(LogRecord), Log(records)
  PROVE  /\ Stream'
         /\ stdout' = stdout \cup ToSet(records)
         /\ phase # "flushing" => late' = late
<1>1. stdout' = stdout \cup ToSet(records)
  BY DEF Log
<1>2. CASE phase # "flushing"
  BY <1>1, <1>2, EmitFacts DEF Log, Stream
<1>3. CASE phase = "flushing"
  BY <1>1, <1>3 DEF Log, Stream
<1>4. QED
  BY <1>1, <1>2, <1>3

LEMMA RecordFacts ==
  /\ \A m \in Messages : <<MainLine(m)>> \in Seq(LogRecord)
  /\ \A r \in Requests, m \in Messages, c \in Codes \cup {0} :
       <<Line(r, m, c)>> \in Seq(LogRecord)
  /\ <<MainLine("shutdown error"), MainLine("stopped")>> \in Seq(LogRecord)
  /\ <<>> \in Seq(LogRecord)
<1>1. \A m \in Messages : MainLine(m) \in LogRecord
  BY DEF MainLine, Line, LogRecord
<1>2. \A r \in Requests, m \in Messages, c \in Codes \cup {0} : Line(r, m, c) \in LogRecord
  BY DEF Line, LogRecord
<1>3. \A e \in LogRecord : <<e>> \in Seq(LogRecord)
  OBVIOUS
<1>4. \A d, e \in LogRecord : <<d, e>> \in Seq(LogRecord)
  OBVIOUS
<1>5. "shutdown error" \in Messages /\ "stopped" \in Messages
  BY DEF Messages
<1>6. <<MainLine("shutdown error"), MainLine("stopped")>> \in Seq(LogRecord)
  BY <1>1, <1>4, <1>5
<1>7. <<>> \in Seq(LogRecord)
  OBVIOUS
<1>8. QED
  BY <1>1, <1>2, <1>3, <1>6, <1>7

LEMMA OneRecord == \A e : ToSet(<<e>>) = {e}
BY DEF ToSet

LEMMA NoRecord == ToSet(<<>>) = {}
BY DEF ToSet

LEMMA EmptyQueue ==
  ASSUME NEW q, q = <<>>
  PROVE  q \in Seq(LogRecord) /\ Len(q) <= QueueLimit /\ ToSet(q) = {}
<1>1. q \in Seq(LogRecord) /\ Len(q) <= QueueLimit
  OBVIOUS
<1>2. QED
  BY <1>1, NoRecord

-----------------------------------------------------------------------------

LEMMA Initial == Init => IInv
<1> SUFFICES ASSUME Init PROVE IInv
  OBVIOUS
<1> USE DEF Init
<1>1. Types
  BY DEF Types
<1>2. Stream
  BY EmptyQueue DEF Stream
<1>3. RunInv /\ EndInv /\ LoggedInv
  BY DEF RunInv, EndInv, LoggedInv, Running, DrainedOrForced
<1>4. QED
  BY <1>1, <1>2, <1>3 DEF IInv

\* A step that leaves the requests alone and only adds to stdout keeps the
\* access log complete.
LEMMA LoggedStays ==
  ASSUME LoggedInv, req' = req, got' = got, sent' = sent, stdout \subseteq stdout'
  PROVE  LoggedInv'
BY DEF LoggedInv

LEMMA AcceptStep == ASSUME IInv, NEW r \in Requests, Accept(r) PROVE IInv'
<1> USE DEF IInv, Types, Accept, Goes, requestVars, logVars
<1>1. Types'
  OBVIOUS
<1>2. Stream'
  BY DEF Stream
<1>3. RunInv'
  BY DEF RunInv, Running, DrainedOrForced
<1>4. EndInv' /\ LoggedInv'
  BY DEF EndInv, LoggedInv
<1>5. QED
  BY <1>1, <1>2, <1>3, <1>4

LEMMA RespondStep == ASSUME IInv, NEW r \in Requests, Respond(r) PROVE IInv'
<1> USE DEF IInv, Types
<1>1. /\ phase' = phase /\ listened' = listened /\ stop' = stop /\ forced' = forced
      /\ req' = [req EXCEPT ![r] = "written"] /\ req[r] = "handler"
      /\ phase # "gone"
  BY DEF Respond, Goes, Alive
<1>2. Types'
  <2>1. req' \in [Requests -> {"none", "handler", "written", "logged", "answered", "cut"}]
    BY <1>1
  <2>2. statusCode' \in [Requests -> Codes] /\ sent' = statusCode'
    <3>1. CASE UNCHANGED <<statusCode, sent>>
      BY <3>1
    <3>2. CASE \E code \in Codes : WriteHeader(r, code)
      <4>1. PICK code \in Codes : /\ statusCode' = [statusCode EXCEPT ![r] = code]
                                  /\ sent' = [sent EXCEPT ![r] = code]
        BY <3>2 DEF WriteHeader
      <4>2. sent = statusCode /\ statusCode \in [Requests -> Codes]
        OBVIOUS
      <4>3. sent' = statusCode'
        BY <4>1, <4>2
      <4>4. QED
        BY <4>1, <4>2, <4>3
    <3>3. QED
      BY <3>1, <3>2 DEF Respond
  <2>3. got' \subseteq Requests
    BY DEF Respond
  <2>4. QED
    BY <1>1, <2>1, <2>2, <2>3
<1>3. PICK records \in {<<>>, <<Line(r, "handler", 0)>>} : Log(records)
  BY DEF Respond
<1>4. records \in Seq(LogRecord)
  BY <1>3, RecordFacts DEF Messages
<1>5. Stream' /\ stdout \subseteq stdout' /\ (phase # "flushing" => late' = late)
  BY <1>3, <1>4, LogFacts
<1>6. RunInv'
  BY <1>1 DEF RunInv, Running, DrainedOrForced
<1>7. EndInv'
  BY <1>1, <1>5 DEF EndInv, RunInv, Running
<1>8. LoggedInv'
  BY <1>1, <1>5 DEF LoggedInv, Respond, WriteHeader
<1>9. QED
  BY <1>2, <1>5, <1>6, <1>7, <1>8

LEMMA AccessLogStep == ASSUME IInv, NEW r \in Requests, AccessLog(r) PROVE IInv'
<1> USE DEF IInv, Types
<1>1. /\ phase' = phase /\ listened' = listened /\ stop' = stop /\ forced' = forced
      /\ got' = got /\ statusCode' = statusCode /\ sent' = sent
      /\ req' = [req EXCEPT ![r] = "logged"] /\ req[r] = "written"
      /\ phase # "gone"
  BY DEF AccessLog, Goes, Alive
<1>2. Types'
  BY <1>1
<1> DEFINE entry == Line(r, "request completed", statusCode[r])
<1>3. Log(<<entry>>) /\ <<entry>> \in Seq(LogRecord)
  BY RecordFacts DEF AccessLog, Messages
<1> HIDE DEF entry
<1>4. /\ Stream' /\ stdout' = stdout \cup {entry}
      /\ phase # "flushing" => late' = late
  BY <1>3, LogFacts, OneRecord
<1>5. RunInv'
  BY <1>1 DEF RunInv, Running, DrainedOrForced
<1>6. EndInv'
  BY <1>1, <1>4 DEF EndInv, RunInv, Running
<1>7. LoggedInv'
  BY <1>1, <1>4 DEF LoggedInv, entry
<1>8. QED
  BY <1>2, <1>4, <1>5, <1>6, <1>7

LEMMA AnswerStep == ASSUME IInv, NEW r \in Requests, Answer(r) PROVE IInv'
<1> USE DEF IInv, Types, Answer, Goes, Alive, logVars
<1>1. Types'
  OBVIOUS
<1>2. Stream'
  BY DEF Stream
<1>3. RunInv'
  BY DEF RunInv, Running, DrainedOrForced
<1>4. EndInv' /\ LoggedInv'
  BY DEF EndInv, LoggedInv
<1>5. QED
  BY <1>1, <1>2, <1>3, <1>4

LEMMA ExportStep == IInv /\ Export => IInv'
<1> SUFFICES ASSUME IInv, Export PROVE IInv'
  OBVIOUS
<1> USE DEF IInv, Types, Export, requestVars
<1>1. Types'
  OBVIOUS
<1>2. Stream'
  <2>1. queue' \in Seq(LogRecord) /\ Len(queue') <= QueueLimit /\ ToSet(queue') = {}
    BY EmptyQueue
  <2>2. QED
    BY <2>1 DEF Stream
<1>3. RunInv' /\ EndInv'
  BY DEF RunInv, Running, DrainedOrForced, EndInv
<1>4. LoggedInv'
  BY LoggedStays
<1>5. QED
  BY <1>1, <1>2, <1>3, <1>4

LEMMA OutsideStep == IInv /\ (Listen \/ Signal) => IInv'
<1> SUFFICES ASSUME IInv, Listen \/ Signal PROVE IInv'
  OBVIOUS
<1> USE DEF IInv, Types, Listen, Signal, requestVars, logVars
<1>1. Types'
  OBVIOUS
<1>2. Stream'
  BY DEF Stream
<1>3. RunInv' /\ EndInv'
  BY DEF RunInv, Running, DrainedOrForced, EndInv
<1>4. LoggedInv'
  BY LoggedStays
<1>5. QED
  BY <1>1, <1>2, <1>3, <1>4

LEMMA StartStep == IInv /\ Start => IInv'
<1> SUFFICES ASSUME IInv, Start PROVE IInv'
  OBVIOUS
<1> USE DEF IInv, Types, Start, requestVars, logVars
<1>1. Types'
  OBVIOUS
<1>2. Stream' /\ stdout \subseteq stdout' /\ late' = late
  <2>1. <<MainLine("starting")>> \in Seq(LogRecord)
    BY RecordFacts DEF Messages
  <2>2. QED
    BY <2>1, LogFacts DEF Stream
<1>3. RunInv'
  BY DEF RunInv, Running, DrainedOrForced
<1>4. EndInv'
  BY <1>2 DEF EndInv
<1>5. LoggedInv'
  BY <1>2, LoggedStays
<1>6. QED
  BY <1>1, <1>2, <1>3, <1>4, <1>5

LEMMA StopServingStep == IInv /\ StopServing => IInv'
<1> SUFFICES ASSUME IInv, StopServing PROVE IInv'
  OBVIOUS
<1> USE DEF IInv, Types, StopServing, requestVars
<1>1. Types'
  OBVIOUS
<1>2. Stream' /\ stdout \subseteq stdout' /\ late' = late
  <2>1. PICK why \in stop : Log(<<MainLine(why)>>)
    OBVIOUS
  <2>2. <<MainLine(why)>> \in Seq(LogRecord)
    BY RecordFacts DEF Messages
  <2>3. QED
    BY <2>1, <2>2, LogFacts
<1>3. RunInv' /\ EndInv'
  BY <1>2 DEF RunInv, Running, DrainedOrForced, EndInv
<1>4. LoggedInv'
  BY <1>2, LoggedStays
<1>5. QED
  BY <1>1, <1>2, <1>3, <1>4

LEMMA DrainStep == IInv /\ (Drained \/ DrainTimeout) => IInv'
<1> SUFFICES ASSUME IInv, Drained \/ DrainTimeout PROVE IInv'
  OBVIOUS
<1> USE DEF IInv, Types
<1>1. /\ phase = "draining" /\ phase' = "flushing"
      /\ UNCHANGED <<listened, stop, requestVars>>
      /\ forced' = forced \/ forced' = forced \cup {"drain"}
      /\ "drain" \notin forced' => Running = {}
  BY DEF Drained, DrainTimeout, Leave
<1>2. Types'
  BY <1>1 DEF requestVars
<1>3. Stream' /\ stdout \subseteq stdout' /\ late' = late
  <2>1. PICK records \in {<<MainLine("stopped")>>,
                          <<MainLine("shutdown error"), MainLine("stopped")>>} :
          Log(records)
    BY DEF Drained, DrainTimeout, Leave
  <2>2. records \in Seq(LogRecord)
    BY RecordFacts DEF Messages
  <2>3. QED
    BY <1>1, <2>1, <2>2, LogFacts
<1>4. RunInv'
  BY <1>1 DEF RunInv, Running, DrainedOrForced, requestVars
<1>5. EndInv'
  BY <1>1, <1>3 DEF EndInv
<1>6. LoggedInv'
  BY <1>1, <1>3, LoggedStays DEF requestVars
<1>7. QED
  BY <1>2, <1>3, <1>4, <1>5, <1>6

\* The process ends: an answer that was cut off was not given.
LEMMA ExitFacts ==
  ASSUME IInv, Exit, stdout \subseteq stdout',
         Running = {} \/ forced' # {},
         forced' = forced \/ forced' = forced \cup {"kill"}
  PROVE  Types' /\ RunInv' /\ LoggedInv'
<1> USE DEF IInv, Types, Exit
<1>1. Types'
  OBVIOUS
<1>2. Running' = {}
  BY DEF Running
<1>3. RunInv'
  BY <1>2 DEF RunInv, DrainedOrForced, Running
<1>4. LoggedInv'
  <2>1. /\ \A q \in Requests : req'[q] = (IF q \in Running THEN "cut" ELSE req[q])
        /\ got' = got /\ got \subseteq Requests /\ sent' = sent
    OBVIOUS
  <2>2. \A q \in Requests :
          q \in Running <=> req[q] \in {"handler", "written", "logged"}
    BY DEF Running
  <2>3. \A q \in Requests : req'[q] \in {"logged", "answered"} => req'[q] = req[q]
    BY <2>1
  <2>4. \A q \in Requests : req'[q] \in {"logged", "answered"} =>
          Line(q, "request completed", sent'[q]) \in stdout'
    BY <2>1, <2>3 DEF LoggedInv
  <2>5. \A q \in got' :
          \/ req'[q] = "answered"
          \/ q \in Static /\ req'[q] \in {"written", "logged", "cut"}
    BY <2>1, <2>2 DEF LoggedInv
  <2>6. QED
    BY <2>4, <2>5 DEF LoggedInv
<1>5. QED
  BY <1>1, <1>3, <1>4

LEMMA FlushedStep == IInv /\ Flushed => IInv'
<1> SUFFICES ASSUME IInv, Flushed PROVE IInv'
  OBVIOUS
<1>1. /\ phase' = "gone" /\ queue' = <<>> /\ forced' = forced
      /\ stdout \subseteq stdout' /\ late' \subseteq late \cup {Goodbye}
  BY DEF Flushed, Exit, Goodbye
<1>2. Running = {} \/ forced' # {}
  BY <1>1 DEF IInv, RunInv, Flushed
<1>3. Stream'
  <2>1. queue' \in Seq(LogRecord) /\ Len(queue') <= QueueLimit /\ ToSet(queue') = {}
    BY <1>1, EmptyQueue
  <2>2. QED
    BY <2>1 DEF IInv, Stream, Flushed
<1>4. EndInv'
  BY <1>1 DEF IInv, EndInv
<1>5. QED
  BY <1>1, <1>2, <1>3, <1>4, ExitFacts DEF IInv, Flushed

LEMMA KilledStep == IInv /\ Killed => IInv'
<1> SUFFICES ASSUME IInv, Killed PROVE IInv'
  OBVIOUS
<1>1. /\ phase' = "gone" /\ queue' = <<>> /\ forced' = forced \cup {"kill"}
      /\ stdout' = stdout /\ late' = late
  BY DEF Killed, Exit
<1>2. Stream'
  <2>1. queue' \in Seq(LogRecord) /\ Len(queue') <= QueueLimit /\ ToSet(queue') = {}
    BY <1>1, EmptyQueue
  <2>2. QED
    BY <2>1 DEF IInv, Stream, Killed
<1>3. EndInv'
  BY <1>1 DEF IInv, EndInv
<1>4. QED
  BY <1>1, <1>2, <1>3, ExitFacts DEF IInv, Killed

LEMMA StutterStep == IInv /\ UNCHANGED vars => IInv'
<1> SUFFICES ASSUME IInv, UNCHANGED vars PROVE IInv'
  OBVIOUS
<1> USE DEF IInv, vars
<1>1. Types' /\ Stream'
  BY DEF Types, Stream
<1>2. RunInv' /\ EndInv' /\ LoggedInv'
  BY DEF RunInv, EndInv, LoggedInv, Running, DrainedOrForced
<1>3. QED
  BY <1>1, <1>2

THEOREM Invariance == Spec => []IInv
<1>1. Init => IInv
  BY Initial
<1>2. IInv /\ [Next]_vars => IInv'
  BY AcceptStep, RespondStep, AccessLogStep, AnswerStep, ExportStep, OutsideStep,
     StartStep, StopServingStep, DrainStep, FlushedStep, KilledStep, StutterStep
  DEF Next, MainStep
<1>3. QED
  BY <1>1, <1>2, PTL DEF Spec

-----------------------------------------------------------------------------

\* Type correctness of a process for any requests, statuses and queue length.
THEOREM TypeSafety == Spec => []TypeOK
<1>1. IInv => TypeOK
  BY DEF IInv, Types, Stream, RunInv, TypeOK
<1>2. QED
  BY <1>1, Invariance, PTL

\* A graceful end cuts off no request that was accepted.
THEOREM DrainSafety == Spec => []DrainedOrForced
<1>1. IInv => DrainedOrForced
  BY DEF IInv, RunInv
<1>2. QED
  BY <1>1, Invariance, PTL

\* Whoever got an answer is in the access log with the status of that answer; a
\* static file may run ahead of its line, and loses it only with the process.
THEOREM AccessLogSafety == Spec => []AnsweredIsLogged
<1>1. IInv => AnsweredIsLogged
  BY DEF IInv, Types, RunInv, DrainedOrForced, LoggedInv, AnsweredIsLogged
<1>2. QED
  BY <1>1, Invariance, PTL

\* Every record that does not reach the collector has a reason not to.
THEOREM LossSafety == Spec => []LossAccounted
<1>1. IInv => LossAccounted
  BY NoRecord DEF IInv, Stream, EndInv, LossAccounted, Goodbye
<1>2. QED
  BY <1>1, Invariance, PTL
=============================================================================

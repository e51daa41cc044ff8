----------------------------- MODULE Telemetry -----------------------------
(***************************************************************************)
(* A call of a logger (nestjs-telemetry, logger/): what goes to Sentry and *)
(* to the transport (NestjsLogger.apply), the entry's header (utils.ts),   *)
(* and the loggers of a job, of its events and of a queue (nestjs-dmq,     *)
(* TrackedJobTelemetry.ts, MessageQueueTelemetry.ts).  How a context is    *)
(* found is in LogContext.                                                 *)
(*                                                                         *)
(* The wording of lines and of callers is left out.                        *)
(***************************************************************************)
EXTENDS Logged, Filtering, Sequences, SequencesExt

CONSTANTS
  ContextOfCall(_, _),   \* the context that a parent and parameters give,
  ContextInEntry(_, _),  \* and the one in a formatted entry: LogContext.ts
  Attributes,            \* contextAttributes
  Params,                \* what a call may be given after its message
  Messages,              \* messages whose handlers log
  Requests,              \* contexts of requests
  Foreign                \* the tenant of a message that is another than its context's

VARIABLES
  reached,     \* how far the call is
  log,         \* the call
  context,     \* its log context
  captured,    \* what Sentry was given, in order
  entry,       \* what the transport was given
  jobLog       \* lines of the job's own log

logVars == <<reached, log, context, captured, entry, jobLog>>

\* What Sentry is given of a call without an error, and of a warning.
Message == AnError("message")
Warning == Value("warning")

(* An error that is made for the call is not in the call.                  *)
ASSUME ParamsAssumption ==
  \A params \in Params : params \in Seq(ToSet(params)) /\ Message \notin ToSet(params)

-----------------------------------------------------------------------------
(* The contexts the loggers of the message queue are built with.           *)

Tenant(m) == IF m.tenantid = m.contextTenant THEN m.contextTenant ELSE Foreign
JobContext(m) ==
  LET tags == [tenantId |-> Tenant(m), messageId |-> m.id, jobEventId |-> Falsy]
      fromData == {k \in DOMAIN m.data : m.data[k] # Falsy /\ k \in Attributes}
  IN  [k \in DOMAIN tags \cup fromData |->
         IF k \in fromData /\ (k \in DOMAIN tags => tags[k] = Falsy) THEN m.data[k] ELSE tags[k]]
EventContext(m) == [tenantId |-> m.tenantid, jobEventId |-> m.id, messageId |-> Falsy]
QueueContext == [queueId |-> "queue"]

-----------------------------------------------------------------------------
(* The call.  Nest's own logger passes its caller before what was logged.  *)
WithoutCaller(call) ==
  IF call.viaNest /\ call.params # <<>> THEN Tail(call.params) ELSE call.params

Log(logger, level, parent, params, viaNest) ==
  /\ reached = "idle"
  /\ log' = [logger |-> logger, level |-> level, parent |-> parent, params |-> params,
             viaNest |-> viaNest, given |-> params]
  /\ reached' = "context"
  /\ UNCHANGED <<context, captured, entry, jobLog>>

(* The context is sought outside of the try.                               *)
GetContext ==
  /\ reached = "context"
  /\ IF \E i \in DOMAIN log.params : log.params[i].kind = "throws"
     THEN /\ reached' = "thrown"
          /\ UNCHANGED <<log, context>>
     ELSE /\ context' = ContextOfCall(log.parent, log.params)
          /\ log' = [log EXCEPT !.params = WithoutCaller(log)]
          /\ reached' = "report"
  /\ UNCHANGED <<captured, entry, jobLog>>

Errors(params) == Picked(params, {i \in DOMAIN params : params[i].kind = "error"})
\* Mutant: the first error stands for all.
CapturedFirst(params) ==
  IF Errors(params) = <<>> THEN <<Message>> ELSE <<Head(Errors(params))>>
Captured(params) == IF Errors(params) = <<>> THEN <<Message>> ELSE Errors(params)

Report ==
  /\ reached = "report"
  /\ captured' = CASE log.level = "error" -> captured \o Captured(log.params)
                   [] log.level = "warn" -> Append(captured, Warning)
                   [] OTHER -> captured
  /\ reached' = "write"
  /\ UNCHANGED <<log, context, entry, jobLog>>

(* enrichedJsonFormat: the attributes move from the entry to its header.   *)
Contexts ==
  LET keys == SetToSeq(DOMAIN context)
  IN  [i \in DOMAIN keys |-> Field(keys[i], Value(context[keys[i]]))]
Meta == <<Field("meta", Array(log.params))>>
Info == Object(Contexts \o Meta)
Header == ContextInEntry(Nothing, <<Info>>)

WriteEntry ==
  /\ reached = "write"
  /\ entry' = <<[header |-> Header,
                 rest |-> [k \in DOMAIN context \ DOMAIN Header |-> context[k]]]>>
  /\ reached' = "written"
  /\ UNCHANGED <<log, context, captured, jobLog>>

(* A transport that throws: what was logged goes to Sentry once more.      *)
WriteThrows ==
  /\ reached = "write"
  /\ captured' = captured \o Captured(log.params)
  /\ reached' = "written"
  /\ UNCHANGED <<log, context, entry, jobLog>>

(* The logger of a job writes to the job as well.                          *)
LogToJob ==
  /\ reached = "written"
  /\ jobLog' = IF log.logger = "job" THEN jobLog + 1 ELSE jobLog
  /\ reached' = "done"
  /\ UNCHANGED <<log, context, captured, entry>>

LogInit ==
  /\ reached = "idle" /\ log = Nothing /\ context = Nothing
  /\ captured = <<>> /\ entry = <<>> /\ jobLog = 0

LogNext ==
  \/ \E level \in {"debug", "error", "info", "log", "warn", "verbose"}, params \in Params :
       \/ \E r \in Requests, viaNest \in BOOLEAN : Log("request", level, r, params, viaNest)
       \/ \E m \in Messages :
            /\ level # "verbose"
            /\ Log("job", level, JobContext(m), params, FALSE) \/ Log("job", level, EventContext(m), params, FALSE)
       \/ level # "verbose" /\ Log("queue", level, QueueContext, params, FALSE)
  \/ GetContext \/ Report \/ WriteEntry \/ WriteThrows \/ LogToJob

-----------------------------------------------------------------------------
Times(x, seq) == Cardinality({i \in DOMAIN seq : seq[i] = x})

(* Of the errors a call is given as its parameters, those that are left.   *)
(* Of a call through Nest's own logger the first parameter is taken for    *)
(* the caller, whatever it is (NestjsLogger.ts:119): an error there is     *)
(* lost.                                                                   *)
TakenForCaller(p) == log.viaNest /\ log.given # <<>> /\ Head(log.given) = p
TimesLeft(p) == Times(p, log.given) - (IF TakenForCaller(p) THEN 1 ELSE 0)

(* NestjsLogger: every error of a call of error() reaches Sentry as often  *)
(* as the call is given it, but for the one that is taken for the caller;  *)
(* its message does when no error is left.  Of a call that could not be    *)
(* written the same is reported, once more if it was of error(); and       *)
(* nothing else goes there but a warning.                                  *)
ErrorsReachSentry ==
  reached = "done" =>
    LET errors == {p \in ToSet(log.given) : p.kind = "error"}
        remaining == {e \in errors : TimesLeft(e) > 0}
        rounds == (IF log.level = "error" THEN 1 ELSE 0) + (IF entry = <<>> THEN 1 ELSE 0)
    IN  /\ \A e \in errors : Times(e, captured) = rounds * TimesLeft(e)
        /\ Times(Message, captured) = IF remaining = {} THEN rounds ELSE 0
        /\ ToSet(captured) \subseteq remaining \cup {Message, Warning}
=============================================================================

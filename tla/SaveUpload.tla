----------------------------- MODULE SaveUpload -----------------------------
(***************************************************************************)
(* The content of one accepted file on its way from the sender's disk to   *)
(* the receiver's: the task that reads the file, the HTTP request that     *)
(* streams it, the request handler that forwards the body to the target    *)
(* the application chose, and the task that writes it.  Four tasks and two *)
(* applications meet over two channels, a connection that may break        *)
(* anywhere and three one-shot results, and each of them learns the        *)
(* outcome by another path.                                                *)
(*                                                                         *)
(* Content is counted in chunks.  Which file is expected, and how a file   *)
(* gets to be expected, is the business of UploadServer.                   *)
(***************************************************************************)
EXTENDS Naturals, Sequences

CONSTANTS Size,       \* the size the sender announced
          MaxLength,  \* the longest the file may be by the time it is read
          FileCap,    \* FILE_CHANNEL_CAPACITY
          UploadCap,  \* UPLOAD_CHANNEL_CAPACITY
          NetCap,     \* what the connection holds underway
          Unset

ASSUME SaveAssumption ==
    /\ Size \in Nat /\ MaxLength \in Nat
    /\ FileCap \in Nat \ {0} /\ UploadCap \in Nat \ {0} /\ NetCap \in Nat \ {0}
    /\ Unset \notin {"ok", "full", "large", "other", "failed", "cancelled", "path", "stream",
                    200, 413, 500, 507}

VARIABLES source,   \* where the sender's content comes from
          left,     \* its chunks that are not read yet ...
          queued,   \* ... and those in the channel between its reader and the request
          client,   \* the request of the sender: still "sending", body "sent", or its result
          shown,    \* what the sending application was told
          net,      \* the frames of the body underway
          link,     \* the connection
          answer,   \* the response of the handler, Unset until there is one
          handler,  \* where the request handler is
          target,   \* what the application chose
          chunks,   \* the channel from the handler to the writer
          open,     \* the tasks that hold their end of a channel: the reader of
                    \* the file, the handler and the writer
          writer,   \* the writing task
          written,  \* chunks taken from the channel and kept
          result,   \* what the writer reported to the handler
          app       \* the receiving application: "asked", "waiting" or what it was told

sourceVars  == <<source, left, queued>>
senderVars  == <<sourceVars, client, shown>>
wireVars    == <<net, link>>
handlerVars == <<handler, answer, target>>
channelVars == <<chunks, open>>
writerVars  == <<writer, written, result>>
saveVars == <<senderVars, wireVars, handlerVars, channelVars, writerVars, app>>

Failures == {"full", "large", "other"}
Answers  == {200, 413, 500, 507}

(* A file the core reads itself, or chunks the application reads.          *)
Sources == {"path", "stream"}
SourceCap == IF source = "path" THEN FileCap ELSE 1

(* The length of the file may differ from the size that was announced: it  *)
(* was measured when the transfer was offered.                             *)
SaveInit ==
    /\ source \in Sources /\ left \in 0 .. MaxLength /\ queued = 0
    /\ client = "sending" /\ shown = "sending" /\ net = <<>> /\ link = "up"
    /\ handler = "asking" /\ answer = Unset /\ target = Unset
    /\ chunks = 0 /\ open = {"reader", "handler", "writer"}
    /\ writer = "idle" /\ written = 0 /\ result = Unset
    /\ app = "asked"

-----------------------------------------------------------------------------
(* The sender                                                              *)

ClientRuns == client \in {"sending", "sent"}

ReadChunk ==
    /\ "reader" \in open /\ left > 0 /\ queued < SourceCap /\ ClientRuns
    /\ left' = left - 1 /\ queued' = queued + 1
    /\ UNCHANGED <<source, client, shown, wireVars, handlerVars, channelVars, writerVars, app>>

(* The end of a file, one that does not open, a read error and a request   *)
(* that is over look all the same: the channel closes.  Chunks of the      *)
(* application end with the last one.                                      *)
EndReading ==
    /\ "reader" \in open
    /\ source = "path" \/ left = 0
    /\ open' = open \ {"reader"}
    /\ UNCHANGED <<senderVars, wireVars, handlerVars, chunks, writerVars, app>>

(* The source of the application fails: it cancels the request, and that   *)
(* error is the one it reports.                                            *)
SourceFails ==
    /\ source = "stream" /\ "reader" \in open /\ shown = "sending"
    /\ client' = IF ClientRuns THEN "cancelled" ELSE client
    /\ link' = IF ClientRuns THEN "down" ELSE link
    /\ open' = open \ {"reader"} /\ shown' = "failed"
    /\ UNCHANGED <<sourceVars, net, handlerVars, chunks, writerVars, app>>

SendFrame ==
    /\ client = "sending" /\ link = "up" /\ Len(net) < NetCap
    /\ \/ /\ queued > 0
          /\ queued' = queued - 1
          /\ net' = Append(net, "chunk")
          /\ UNCHANGED client
       \/ /\ queued = 0 /\ "reader" \notin open
          /\ net' = Append(net, "end")
          /\ client' = "sent"
          /\ UNCHANGED queued
    /\ UNCHANGED <<source, left, shown, link, handlerVars, channelVars, writerVars, app>>

(* The answer may come before the body was sent.  A good one counts only   *)
(* with a valid certificate.                                               *)
TakeAnswer ==
    /\ ClientRuns /\ link = "up" /\ answer = 200
    /\ client' \in {"ok", "failed"}
    /\ UNCHANGED <<sourceVars, shown, wireVars, handlerVars, channelVars, writerVars, app>>

(* Any other answer becomes an error with its status.                      *)
TakeRefusal ==
    /\ ClientRuns /\ link = "up" /\ answer \notin {200, Unset}
    /\ client' = "failed"
    /\ UNCHANGED <<sourceVars, shown, wireVars, handlerVars, channelVars, writerVars, app>>

(* The stream of the progress ends, with the error of the request if there *)
(* was one.  An application that feeds the request looks at it once it has *)
(* given everything, and fails when a chunk is not taken any more.         *)
ReportUpload ==
    /\ ~ClientRuns /\ shown = "sending"
    /\ \/ /\ source = "stream" /\ "reader" \in open /\ left > 0
          /\ open' = open \ {"reader"} /\ shown' = "failed"
       \/ /\ source = "path" \/ "reader" \notin open
          /\ shown' = IF client = "ok" THEN "sent" ELSE "failed"
          /\ UNCHANGED open
    /\ UNCHANGED <<sourceVars, client, wireVars, handlerVars, chunks, writerVars, app>>

(* There is no timeout on the answer: only an error or the user ends it.   *)
Cancel ==
    /\ ClientRuns
    /\ client' = "cancelled" /\ link' = "down"
    /\ UNCHANGED <<sourceVars, shown, net, handlerVars, channelVars, writerVars, app>>

NoticeBreak ==
    /\ ClientRuns /\ link = "down"
    /\ client' = "failed"
    /\ UNCHANGED <<sourceVars, shown, wireVars, handlerVars, channelVars, writerVars, app>>

(* The network fails, or the server that holds the connection is stopped.  *)
Break ==
    /\ link = "up" /\ link' = "down"
    /\ UNCHANGED <<senderVars, net, handlerVars, channelVars, writerVars, app>>

-----------------------------------------------------------------------------
(* The receiving application: it names a file, or a channel of its own, or *)
(* refuses.  The request may be gone by then.                              *)

Targets == {"path", "stream"}

(* A task of the core writes a file; the application has its task already. *)
WriterOf(t) == IF t = "path" THEN "opening" ELSE "writing"

Respond(t) ==
    /\ app = "asked"
    /\ IF handler = "asking"
       THEN /\ handler' = "forward" /\ target' = t
            /\ writer' = WriterOf(t)
            /\ app' = "waiting"
       ELSE /\ app' = "failed"
            /\ UNCHANGED <<handler, target, writer>>
    /\ UNCHANGED <<senderVars, wireVars, answer, channelVars, written, result>>

Reject ==
    /\ app = "asked" /\ app' = "failed"
    /\ IF handler = "asking"
       THEN handler' = "done" /\ answer' = 500
       ELSE UNCHANGED <<handler, answer>>
    /\ UNCHANGED <<senderVars, wireVars, target, channelVars, writerVars>>

-----------------------------------------------------------------------------
(* save_req_to_target                                                      *)

(* After a failure to read or to forward the body the result is awaited    *)
(* for a bounded time only.                                                *)
Await(how) == handler' = how /\ open' = open \ {"handler"}

ForwardChunk ==
    /\ handler = "forward" /\ net # <<>> /\ Head(net) = "chunk"
    /\ \/ /\ "writer" \in open /\ chunks < UploadCap
          /\ chunks' = chunks + 1
          /\ UNCHANGED <<handler, open>>
       \/ /\ "writer" \notin open
          /\ Await("bounded")
          /\ UNCHANGED chunks
    /\ net' = Tail(net)
    /\ UNCHANGED <<senderVars, link, answer, target, writerVars, app>>

EndBody ==
    /\ handler = "forward" /\ net # <<>> /\ Head(net) = "end"
    /\ Await("await")
    /\ net' = Tail(net)
    /\ UNCHANGED <<senderVars, link, answer, target, chunks, writerVars, app>>

BodyFails ==
    /\ handler = "forward" /\ link = "down"
    /\ Await("bounded")
    /\ UNCHANGED <<senderVars, wireVars, answer, target, chunks, writerVars, app>>

Status(r) ==
    CASE r = "ok"    -> 200
      [] r = "full"  -> 507
      [] r = "large" -> 413
      [] r = "other" -> 500


\* Faulty: once the body could not be pushed, the answer is a plain 500.
AnswerUnclassified ==
    /\ handler \in {"await", "bounded"} /\ result # Unset
    /\ answer' = IF handler = "bounded" THEN 500 ELSE Status(result)
    /\ handler' = "done"
    /\ UNCHANGED <<senderVars, wireVars, target, channelVars, writerVars, app>>

(* A result that is good although the body failed is no success.           *)
AnswerResult ==
    /\ handler \in {"await", "bounded"} /\ result # Unset
    /\ answer' = IF result = "ok" /\ handler = "bounded" THEN 500 ELSE Status(result)
    /\ handler' = "done"
    /\ UNCHANGED <<senderVars, wireVars, target, channelVars, writerVars, app>>

AnswerTimeout ==
    /\ handler = "bounded" /\ result = Unset
    /\ answer' = 500 /\ handler' = "done"
    /\ UNCHANGED <<senderVars, wireVars, target, channelVars, writerVars, app>>

(* The connection is gone, and with it the future of the handler.  The     *)
(* application may still be asked; the writing task goes on.               *)
DropHandler ==
    /\ handler # "done" /\ handler # "gone" /\ link = "down"
    /\ Await("gone")
    /\ UNCHANGED <<senderVars, wireVars, answer, target, chunks, writerVars, app>>

-----------------------------------------------------------------------------
(* The writing task: spawn_file_writer, or the application that consumes   *)
(* the chunks itself and compares the size as it is told to.               *)


\* Faulty: the writer stops without closing the channel.
ReportOnly(r) ==
    /\ writer' = "done" /\ result' = r
    /\ UNCHANGED open
    /\ app' = IF r = "ok" THEN "ok" ELSE "failed"

(* The channel closes first, so that a handler that waits for room gives   *)
(* up; then the application learns the result, then the handler.           *)
Report(r) ==
    /\ writer' = "done" /\ result' = r
    /\ open' = open \ {"writer"}
    /\ app' = IF r = "ok" THEN "ok" ELSE "failed"

OpenFile ==
    /\ writer = "opening"
    /\ \/ writer' = "writing" /\ UNCHANGED <<result, open, app>>
       \/ \E r \in Failures : Report(r)
    /\ UNCHANGED <<senderVars, wireVars, handlerVars, chunks, written>>

WriteChunk ==
    /\ writer = "writing" /\ target = "path" /\ chunks > 0
    /\ chunks' = chunks - 1
    /\ \/ /\ written < Size
          /\ written' = written + 1
          /\ UNCHANGED <<writer, result, open, app>>
       \/ /\ written < Size
          /\ \E r \in Failures : Report(r)
          /\ UNCHANGED written
       \/ /\ written >= Size
          /\ Report("other")
          /\ UNCHANGED written
    /\ UNCHANGED <<senderVars, wireVars, handlerVars>>


\* Faulty: only a file that is too long is noticed.
SizeFits == written <= Size

(* The channel closed.  Whether it closed because the body ended or broke  *)
(* off shows in the size alone.                                            *)
SizeMatches == written = Size

EndWriting ==
    /\ writer = "writing" /\ target = "path" /\ chunks = 0 /\ "handler" \notin open
    /\ \/ \E r \in Failures : Report(r)
       \/ Report(IF SizeMatches THEN "ok" ELSE "other")
    /\ UNCHANGED <<senderVars, wireVars, handlerVars, chunks, written>>

ConsumeChunk ==
    /\ writer = "writing" /\ target = "stream" /\ chunks > 0 /\ written < Size
    /\ chunks' = chunks - 1 /\ written' = written + 1
    /\ UNCHANGED <<senderVars, wireVars, handlerVars, open, writer, result, app>>

(* A result that is dropped counts as a failure without a class.           *)
ReportStream ==
    /\ writer = "writing" /\ target = "stream"
    /\ Report(IF chunks = 0 /\ "handler" \notin open /\ written = Size THEN "ok" ELSE "other")
    /\ UNCHANGED <<senderVars, wireVars, handlerVars, chunks, written>>

-----------------------------------------------------------------------------
Sender      == ReadChunk \/ EndReading \/ SendFrame \/ TakeAnswer \/ TakeRefusal
                   \/ NoticeBreak \/ ReportUpload
Application == Reject \/ \E t \in Targets : Respond(t)
Handler     == ForwardChunk \/ EndBody \/ BodyFails \/ AnswerResult \/ AnswerTimeout
Writer      == OpenFile \/ WriteChunk \/ EndWriting

SaveNext ==
    \/ Sender \/ SourceFails \/ Cancel \/ Break
    \/ Application
    \/ Handler \/ DropHandler
    \/ Writer \/ ConsumeChunk \/ ReportStream

SaveSpec == SaveInit /\ [][SaveNext]_saveVars

(* The runtimes run their tasks and their timers, disks and networks       *)
(* answer, and an application that is asked decides.  A consumer of a      *)
(* stream of chunks owes nothing.                                          *)
SaveFairSpec ==
    /\ SaveSpec
    /\ WF_saveVars(Sender) /\ WF_saveVars(Application) /\ WF_saveVars(Handler) /\ WF_saveVars(Writer)

-----------------------------------------------------------------------------
(* SaveTypeOK: every variable has a value of its type.                     *)
SaveTypeOK ==
    /\ source \in Sources /\ left \in 0 .. MaxLength /\ queued \in Nat /\ queued <= SourceCap
    /\ client \in {"sending", "sent", "ok", "failed", "cancelled"}
    /\ shown \in {"sending", "sent", "failed"}
    /\ net \in Seq({"chunk", "end"}) /\ Len(net) <= NetCap
    /\ link \in {"up", "down"}
    /\ handler \in {"asking", "forward", "await", "bounded", "done", "gone"}
    /\ answer \in Answers \cup {Unset}
    /\ target \in Targets \cup {Unset}
    /\ chunks \in 0 .. UploadCap /\ open \subseteq {"reader", "handler", "writer"}
    /\ writer \in {"idle", "opening", "writing", "done"}
    /\ written \in 0 .. Size
    /\ result \in {"ok", Unset} \cup Failures
    /\ app \in {"asked", "waiting", "ok", "failed"}

(* SentIsSaved: a sending application is told that its file was sent only  *)
(* when the receiving one was told that it was saved, and then everything  *)
(* that was announced was written and nothing of it is missing: a source   *)
(* that could not be read to its end, a connection that broke and a file   *)
(* that grew all end as failures (save.rs 215-223 and 283-293, v2.rs       *)
(* 458-469; read errors look like the end of the file, transfer.rs 70-94,  *)
(* and an application that stops feeding the request looks like one that   *)
(* has given everything, api/stream.rs 38-41).                             *)
SentIsSaved ==
    /\ shown = "sent" => client = "ok"
    /\ client = "ok" => answer = 200
    /\ answer = 200 => app = "ok"
    /\ app = "ok" => result = "ok" /\ written = Size /\ chunks = 0

(* FailureIsNamed: while the connection stands, the answer to a request    *)
(* whose file was being written is the writer's own verdict, with its      *)
(* class: also when the failure first shows as a channel the handler can   *)
(* no longer push to, and although the wait for the result is bounded then *)
(* (save.rs 204-223: "its classification is the one that matters").        *)
FailureIsNamed ==
    target # Unset /\ answer # Unset /\ link = "up" =>
        result # Unset /\ answer = Status(result)

(* EverybodyIsTold: sooner or later the sender knows its result, the       *)
(* request has ended and the application knows whether the file is there,  *)
(* whichever of the tasks failed first.  Only a consumer of a stream can   *)
(* keep them waiting, and it cannot once the body broke off (the comment   *)
(* of save.rs 208-209, "must never hang the request").                     *)
Consuming == target = "stream" /\ writer = "writing"
EverybodyIsTold ==
    <>[](/\ app \in {"ok", "failed"} \/ Consuming
         /\ \/ shown # "sending" /\ handler \in {"done", "gone"}
            \/ Consuming /\ handler \in {"forward", "await"})
=============================================================================

---------------------------- MODULE RemoteStore -----------------------------
(***************************************************************************)
(* A client of the daemon and the process that the daemon has started for  *)
(* it: RemoteStore with its one connection (remote-store.cc,               *)
(* remote-store-connection.hh) and processLegacyConnection with performOp  *)
(* and the TunnelLogger (daemon.cc).                                       *)
(*                                                                         *)
(* Tasks of the client share the connection, under an asynchronous mutex.  *)
(* A message is a record: what it is, and the number of the command that   *)
(* it belongs to, which is not part of the protocol.  Commands differ in   *)
(* what is sent: a query has an answer; add sends frames and has an answer *)
(* (AddToStore, AddBuildLog), addNar sends frames and has none, nar is     *)
(* answered by a stream (NarFromPath), and a command is refused if the     *)
(* daemon throws before startWork.                                         *)
(***************************************************************************)
EXTENDS Integers, Sequences

CONSTANTS
    Task,
    Kinds,          \* of "query", "add", "addNar", "nar", "refused"
    MaxCommands,    \* of all tasks
    Frames, Chunks, \* of an upload, and of a NAR
    Logs,           \* log messages of the daemon
    Capacity,       \* of a socket, in messages
    Faults          \* of "cancel", "source", "drop", "error", "parse", "dump", "die"

Framed == {"add", "addNar"}
Answered == {"query", "add"}
NoTask == "none"
NoCommand == [pc |-> "idle", kind |-> "none", id |-> 0, frames |-> 0, said |-> FALSE]

VARIABLES
    opened,         \* the daemon has opened its store
    task, commands,
    holder,         \* who has locked the connection
    connection,     \* "magic", "hello", "options" at first, "failed", "open", "null", "closed"
    hup, gone,      \* the client, the daemon has closed the socket
    toDaemon, toClient,
    daemon,         \* what the daemon does, and for which command
    to,             \* what it has still to write
    canSendStderr, pendingMsgs, logs,
    astray          \* what brought them out of step: a NAR that was not read to its
                    \* end, a command that was refused, frames that were not read

client == <<task, commands, holder, connection, hup>>
tunnel == <<canSendStderr, pendingMsgs, logs>>
remoteVars == <<opened, client, gone, toDaemon, toClient, daemon, to, tunnel, astray>>

Message == [msg : {"magic", "version", "op", "frame", "end", "log", "last", "error", "value",
                   "chunk", "narEnd"}, id : 0..MaxCommands, kind : Kinds \cup {"none", "options"}]
Msg(m, c) == [msg |-> m, id |-> c.id, kind |-> c.kind]

(* Client, sockets and daemon have values of their types. *)
RemoteTypeOK ==
    /\ opened \in BOOLEAN /\ hup \in BOOLEAN /\ gone \in BOOLEAN /\ commands \in 0..MaxCommands
    /\ \A t \in Task :
        /\ task[t].pc \in {"idle", "lock", "send", "reply", "value", "stream", "undefined"}
        /\ task[t].kind \in Kinds \cup {"none"} /\ task[t].id \in 0..MaxCommands
        /\ task[t].frames \in 0..(Frames + 1) /\ task[t].said \in BOOLEAN
    /\ holder \in Task \cup {NoTask}
    /\ connection \in {"magic", "hello", "options", "failed", "open", "null", "closed"}
    /\ toDaemon \in Seq(Message) /\ Len(toDaemon) <= Capacity
    /\ toClient \in Seq(Message) /\ Len(toClient) <= Capacity
    /\ daemon.pc \in {"magic", "version", "options", "loop", "read", "work", "drain", "dump", "exit"}
    /\ daemon.id \in 0..MaxCommands /\ daemon.left \in 0..Chunks /\ daemon.source \in BOOLEAN
    /\ to \in Seq(Message) /\ canSendStderr \in BOOLEAN /\ pendingMsgs \in 0..Logs /\ logs \in 0..Logs
    /\ astray \subseteq {"nar", "refused", "frames"}

RemoteInit ==
    /\ task = [t \in Task |-> NoCommand] /\ holder = NoTask
    /\ connection = "magic" /\ hup = FALSE /\ gone = FALSE
    /\ toDaemon = <<Msg("magic", NoCommand)>> /\ toClient = <<>>
    /\ daemon = [pc |-> "magic", id |-> 0, kind |-> "none", left |-> 0, source |-> FALSE] /\ to = <<>>
    /\ canSendStderr = FALSE /\ pendingMsgs = 0 /\ logs = 0 /\ astray = {}

-----------------------------------------------------------------------------
(* Sockets.  A client that reads has the end of the stream when the daemon  *)
(* has gone and everything is read; a write fails when the other is gone.   *)
Write(m) == Len(toDaemon) < Capacity /\ toDaemon' = Append(toDaemon, m)
Readable == toClient # <<>>
AtEnd == toClient = <<>> /\ gone

(* initConnection, and the setOptions that it ends with. *)
SendVersion ==
    /\ connection = "magic" /\ Readable /\ Write(Msg("version", NoCommand))
    /\ toClient' = Tail(toClient) /\ connection' = "hello"
    /\ UNCHANGED <<opened, task, commands, holder, hup, gone, daemon, to, tunnel, astray>>

SetOptions ==
    /\ connection = "hello" /\ Readable /\ toClient' = Tail(toClient)
    /\ IF Head(toClient).msg = "last"
       THEN Write([msg |-> "op", id |-> 0, kind |-> "options"]) /\ connection' = "options"
       ELSE UNCHANGED <<connection, toDaemon>>
    /\ UNCHANGED <<opened, task, commands, holder, hup, gone, daemon, to, tunnel, astray>>

InitDone ==
    /\ connection = "options" /\ Readable /\ Head(toClient).msg # "error" /\ toClient' = Tail(toClient)
    /\ connection' = IF Head(toClient).msg = "last" THEN "open" ELSE connection
    /\ UNCHANGED <<opened, task, commands, holder, hup, gone, toDaemon, daemon, to, tunnel, astray>>

(* There is no store if the daemon goes away before, or has an error. *)
InitFails ==
    /\ \/ connection \in {"magic", "hello", "options"} /\ AtEnd
       \/ connection = "options" /\ Readable /\ Head(toClient).msg = "error"
    /\ connection' = "failed" /\ hup' = TRUE
    /\ UNCHANGED <<opened, task, commands, holder, gone, toDaemon, toClient, daemon, to, tunnel, astray>>

(* The client is done with the store. *)
Disconnect ==
    /\ connection = "open" /\ \A t \in Task : task[t].pc = "idle"
    /\ connection' = "closed" /\ hup' = TRUE
    /\ UNCHANGED <<opened, task, commands, holder, gone, toDaemon, toClient, daemon, to, tunnel, astray>>

-----------------------------------------------------------------------------
(* A task begins a command, and waits for the connection. *)
BeginCommand(t, k) ==
    /\ connection \in {"open", "null"}
    /\ task[t].pc = "idle" /\ commands < MaxCommands /\ commands' = commands + 1
    /\ task' = [task EXCEPT ![t] = [NoCommand EXCEPT !.pc = "lock", !.kind = k, !.id = commands + 1]]
    /\ UNCHANGED <<opened, holder, connection, hup, gone, toDaemon, toClient, daemon, to, tunnel, astray>>

(* Mutant: the connection is not locked. *)
GetConnectionShared(t) ==
    /\ task[t].pc = "lock" /\ holder' = t
    /\ task' = [task EXCEPT ![t].pc = IF connection = "null" THEN "undefined" ELSE "send"]
    /\ UNCHANGED <<opened, commands, connection, hup, gone, toDaemon, toClient, daemon, to, tunnel, astray>>

(* getConnection: a connection that was invalidated is a null pointer, and  *)
(* nobody looks.                                                            *)
GetConnection(t) ==
    /\ task[t].pc = "lock" /\ holder = NoTask /\ holder' = t
    /\ task' = [task EXCEPT ![t].pc = IF connection = "null" THEN "undefined" ELSE "send"]
    /\ UNCHANGED <<opened, commands, connection, hup, gone, toDaemon, toClient, daemon, to, tunnel, astray>>

(* The end of a command: the connection goes back, unless it is invalid. *)
Returns(t) ==
    /\ task' = [task EXCEPT ![t] = NoCommand] /\ holder' = NoTask
    /\ UNCHANGED <<commands, connection, hup>>
Invalidates(t) ==
    /\ task' = [task EXCEPT ![t] = NoCommand] /\ holder' = NoTask
    /\ connection' = "null" /\ hup' = TRUE /\ UNCHANGED commands

(* sendCommandUninterruptible *)
SendCommand(t) ==
    /\ task[t].pc = "send"
    /\ IF gone THEN Invalidates(t) /\ UNCHANGED toDaemon
       ELSE /\ Write(Msg("op", task[t])) /\ task' = [task EXCEPT ![t].pc = "reply"]
            /\ UNCHANGED <<commands, holder, connection, hup>>
    /\ UNCHANGED <<opened, gone, toClient, daemon, to, tunnel, astray>>

(* withFramedStream: the data is sent while stderr is read. *)
SendFrame(t) ==
    /\ task[t].pc = "reply" /\ task[t].kind \in Framed /\ task[t].frames <= Frames
    /\ IF gone THEN Invalidates(t) /\ UNCHANGED toDaemon
       ELSE /\ Write(Msg(IF task[t].frames = Frames THEN "end" ELSE "frame", task[t]))
            /\ task' = [task EXCEPT ![t].frames = @ + 1]
            /\ UNCHANGED <<commands, holder, connection, hup>>
    /\ UNCHANGED <<opened, gone, toClient, daemon, to, tunnel, astray>>

SourceFails(t) ==
    /\ "source" \in Faults /\ task[t].pc = "reply" /\ task[t].kind \in Framed /\ task[t].frames < Frames
    /\ Invalidates(t)
    /\ UNCHANGED <<opened, gone, toDaemon, toClient, daemon, to, tunnel, astray>>

(* Mutant: what there is to send is sent before anything is read. *)
Sent(t) == task[t].kind \in Framed => task[t].frames > Frames
ProcessStderrLater(t) ==
    /\ task[t].pc = "reply" /\ ~ task[t].said /\ Sent(t) /\ (Readable \/ AtEnd)
    /\ IF AtEnd \/ Head(toClient).msg \notin {"log", "last", "error"} THEN Invalidates(t)
       ELSE CASE Head(toClient).msg = "log" -> UNCHANGED client
              [] Head(toClient).msg = "error" -> Returns(t)
              [] OTHER -> /\ task' = [task EXCEPT ![t].said = TRUE]
                          /\ UNCHANGED <<commands, holder, connection, hup>>
    /\ toClient' = IF AtEnd THEN toClient ELSE Tail(toClient)
    /\ UNCHANGED <<opened, gone, toDaemon, daemon, to, tunnel, astray>>

(* processStderr: an error of the daemon is an answer like any other. *)
ProcessStderr(t) ==
    /\ task[t].pc = "reply" /\ ~ task[t].said /\ (Readable \/ AtEnd)
    /\ IF AtEnd \/ Head(toClient).msg \notin {"log", "last", "error"} THEN Invalidates(t)
       ELSE CASE Head(toClient).msg = "log" -> UNCHANGED client
              [] Head(toClient).msg = "error" -> Returns(t)
              [] OTHER -> /\ task' = [task EXCEPT ![t].said = TRUE]
                          /\ UNCHANGED <<commands, holder, connection, hup>>
    /\ toClient' = IF AtEnd THEN toClient ELSE Tail(toClient)
    /\ UNCHANGED <<opened, gone, toDaemon, daemon, to, tunnel, astray>>

(* Both halves are done: the command is, or its answer is read, or the      *)
(* caller has a stream that keeps the connection.                           *)
Joined(t) ==
    /\ task[t].pc = "reply" /\ task[t].said /\ Sent(t)
    /\ IF task[t].kind = "addNar" THEN Returns(t)
       ELSE /\ task' = [task EXCEPT ![t].pc = IF task[t].kind = "nar" THEN "stream" ELSE "value"]
            /\ UNCHANGED <<commands, holder, connection, hup>>
    /\ UNCHANGED <<opened, gone, toDaemon, toClient, daemon, to, tunnel, astray>>

ReadValue(t) ==
    /\ task[t].pc = "value" /\ (Readable \/ AtEnd)
    /\ IF AtEnd THEN Invalidates(t) ELSE Returns(t)
    /\ toClient' = IF AtEnd THEN toClient ELSE Tail(toClient)
    /\ UNCHANGED <<opened, gone, toDaemon, daemon, to, tunnel, astray>>

(* NarStream: the connection stays as it is if the stream is not read to    *)
(* its end, because nobody wants the rest or it is not a NAR.               *)
ReadNar(t) ==
    /\ task[t].pc = "stream" /\ (Readable \/ AtEnd)
    /\ IF AtEnd \/ Head(toClient).msg # "chunk" THEN Returns(t) ELSE UNCHANGED client
    /\ toClient' = IF AtEnd THEN toClient ELSE Tail(toClient)
    /\ astray' = IF AtEnd \/ Head(toClient).msg \notin {"chunk", "narEnd"}
                 THEN astray \cup {"nar"} ELSE astray
    /\ UNCHANGED <<opened, gone, toDaemon, daemon, to, tunnel>>

DropNar(t) ==
    /\ "drop" \in Faults /\ task[t].pc = "stream" /\ Returns(t) /\ astray' = astray \cup {"nar"}
    /\ UNCHANGED <<opened, gone, toDaemon, toClient, daemon, to, tunnel>>

(* Mutant: the connection of a command that is cancelled is kept. *)
CancelKeeps(t) ==
    /\ "cancel" \in Faults /\ task[t].pc \in {"lock", "send", "reply", "value"}
    /\ IF task[t].pc = "lock"
       THEN task' = [task EXCEPT ![t] = NoCommand] /\ UNCHANGED <<commands, holder, connection, hup>>
       ELSE Returns(t)
    /\ UNCHANGED <<opened, gone, toDaemon, toClient, daemon, to, tunnel, astray>>

(* makeInterruptible: a command may be cancelled wherever it waits. *)
Cancel(t) ==
    /\ "cancel" \in Faults /\ task[t].pc \in {"lock", "send", "reply", "value"}
    /\ IF task[t].pc = "lock"
       THEN task' = [task EXCEPT ![t] = NoCommand] /\ UNCHANGED <<commands, holder, connection, hup>>
       ELSE Invalidates(t)
    /\ UNCHANGED <<opened, gone, toDaemon, toClient, daemon, to, tunnel, astray>>

-----------------------------------------------------------------------------
(* The daemon.  It writes what it has to write before it goes on; if the    *)
(* client is gone that fails, and it exits.                                 *)
Quiet == to = <<>> /\ ~ gone
Does(l) == daemon' = [daemon EXCEPT !.pc = l]
Takes == toDaemon # <<>> /\ toDaemon' = Tail(toDaemon)

Flush ==
    /\ to # <<>> /\ ~ gone /\ ~ hup /\ Len(toClient) < Capacity
    /\ toClient' = Append(toClient, Head(to)) /\ to' = Tail(to)
    /\ UNCHANGED <<opened, client, gone, toDaemon, daemon, tunnel, astray>>

(* Mutant: the greeting does not wait for the store. *)
GreetAtOnce ==
    /\ daemon.pc = "magic" /\ Quiet /\ Takes
    /\ to' = <<Msg("magic", NoCommand)>> /\ Does("version")
    /\ UNCHANGED <<opened, client, gone, toClient, tunnel, astray>>

(* openUncachedStore, then the greeting. *)
Greet ==
    /\ daemon.pc = "magic" /\ opened /\ Quiet /\ Takes
    /\ to' = <<Msg("magic", NoCommand)>> /\ Does("version")
    /\ UNCHANGED <<opened, client, gone, toClient, tunnel, astray>>

(* What was logged before the client can have it is kept until startWork. *)
Pending(c) == [i \in 1..pendingMsgs |-> Msg("log", c)]

Hello ==
    /\ daemon.pc = "version" /\ Quiet /\ Takes
    /\ to' = Append(Pending(NoCommand), Msg("last", NoCommand)) /\ pendingMsgs' = 0 /\ Does("loop")
    /\ UNCHANGED <<opened, client, gone, toClient, canSendStderr, logs, astray>>

(* processLegacyRequests reads the number of an operation and performOp its *)
(* arguments: after an error there it says so, twice, and exits.            *)
ReadOp ==
    /\ daemon.pc = "loop" /\ Quiet /\ Takes
    /\ LET m == Head(toDaemon) IN
       IF m.msg # "op" \/ m.kind = "refused"
       THEN /\ daemon' = [daemon EXCEPT !.pc = "exit", !.id = m.id, !.kind = m.kind]
            /\ to' = <<Msg("error", m), Msg("error", m)>>
            /\ astray' = astray \cup {"refused"} /\ UNCHANGED <<canSendStderr, pendingMsgs>>
       ELSE /\ daemon' = [pc |-> "work", id |-> m.id, kind |-> m.kind, left |-> Chunks,
                          source |-> FALSE]
            /\ to' = Pending(m) /\ pendingMsgs' = 0 /\ canSendStderr' = TRUE /\ UNCHANGED astray
    /\ UNCHANGED <<opened, client, gone, toClient, logs>>

(* FramedSource::read *)
ReadFrame ==
    /\ daemon.pc = "work" /\ daemon.kind \in Framed /\ daemon.left > 0 /\ Quiet /\ Takes
    /\ daemon' = [daemon EXCEPT !.left = IF Head(toDaemon).msg = "end" THEN 0 ELSE @,
                                !.source = TRUE]
    /\ UNCHANGED <<opened, client, gone, toClient, to, tunnel, astray>>

(* Mutant: log messages may come while the NAR is sent. *)
Eof == daemon.kind \in Framed => daemon.left = 0
StopWorkKeeps ==
    /\ daemon.pc = "work" /\ Eof /\ Quiet /\ canSendStderr' = (daemon.kind = "nar")
    /\ to' = <<Msg("last", daemon)>>
             \o (IF daemon.kind \in Answered THEN <<Msg("value", daemon)>> ELSE <<>>)
    /\ Does(IF daemon.kind = "nar" THEN "dump" ELSE "loop")
    /\ UNCHANGED <<opened, client, gone, toDaemon, toClient, pendingMsgs, logs, astray>>

(* stopWork and the answer; or the NAR, when no error can be sent any more. *)
StopWork ==
    /\ daemon.pc = "work" /\ Eof /\ Quiet /\ canSendStderr' = FALSE
    /\ to' = <<Msg("last", daemon)>>
             \o (IF daemon.kind \in Answered THEN <<Msg("value", daemon)>> ELSE <<>>)
    /\ Does(IF daemon.kind = "nar" THEN "dump" ELSE "loop")
    /\ UNCHANGED <<opened, client, gone, toDaemon, toClient, pendingMsgs, logs, astray>>

Dump ==
    /\ daemon.pc = "dump" /\ Quiet
    /\ IF daemon.left = 0 THEN to' = <<Msg("narEnd", daemon)>> /\ Does("loop")
       ELSE /\ to' = <<Msg("chunk", daemon)>> /\ daemon' = [daemon EXCEPT !.left = @ - 1]
    /\ UNCHANGED <<opened, client, gone, toDaemon, toClient, tunnel, astray>>

DumpFails ==
    /\ "dump" \in Faults /\ daemon.pc = "dump" /\ Quiet
    /\ to' = <<Msg("error", daemon), Msg("error", daemon)>> /\ Does("exit")
    /\ UNCHANGED <<opened, client, gone, toDaemon, toClient, tunnel, astray>>

(* Mutant: the rest of the frames is not read. *)
FailsAtOnce ==
    /\ "error" \in Faults /\ daemon.pc = "work" /\ Quiet /\ Does("loop")
    /\ to' = <<Msg("error", daemon)>> /\ canSendStderr' = FALSE
    /\ UNCHANGED <<opened, client, gone, toDaemon, toClient, pendingMsgs, logs, astray>>

(* An error of the store: ~FramedSource reads the rest before it is sent. *)
Fails ==
    /\ "error" \in Faults /\ daemon.pc = "work" /\ Quiet
    /\ IF Eof THEN Does("loop") /\ to' = <<Msg("error", daemon)>> /\ canSendStderr' = FALSE
       ELSE Does("drain") /\ UNCHANGED <<to, canSendStderr>>
    /\ UNCHANGED <<opened, client, gone, toDaemon, toClient, pendingMsgs, logs, astray>>

Drain ==
    /\ daemon.pc = "drain" /\ Quiet /\ Takes
    /\ IF Head(toDaemon).msg = "end"
       THEN Does("loop") /\ to' = <<Msg("error", daemon)>> /\ canSendStderr' = FALSE
       ELSE UNCHANGED <<daemon, to, canSendStderr>>
    /\ UNCHANGED <<opened, client, gone, toClient, pendingMsgs, logs, astray>>

(* An error before there is a FramedSource (ContentAddressMethod::parse,     *)
(* require<LogStore>): it is sent like that of the store, and nobody reads  *)
(* the frames.                                                              *)
ParseFails ==
    /\ "parse" \in Faults /\ daemon.pc = "work" /\ daemon.kind = "add" /\ ~ daemon.source
    /\ Quiet /\ Does("loop") /\ to' = <<Msg("error", daemon)>> /\ canSendStderr' = FALSE
    /\ astray' = astray \cup {"frames"}
    /\ UNCHANGED <<opened, client, gone, toDaemon, toClient, pendingMsgs, logs>>

(* TunnelLogger, from any thread of the daemon. *)
Log ==
    /\ logs < Logs /\ logs' = logs + 1 /\ daemon.pc \notin {"magic", "exit"} /\ ~ gone
    /\ IF canSendStderr THEN to' = Append(to, Msg("log", daemon)) /\ UNCHANGED pendingMsgs
       ELSE pendingMsgs' = pendingMsgs + 1 /\ UNCHANGED to
    /\ UNCHANGED <<opened, client, gone, toDaemon, toClient, daemon, canSendStderr, astray>>

(* It is done, or the client is gone (MonitorFdHup), or there is no store,  *)
(* or it is killed.                                                         *)
Exit ==
    /\ ~ gone
    /\ \/ daemon.pc = "exit" /\ to = <<>>
       \/ hup
       \/ daemon.pc = "magic" /\ ~ opened
       \/ "die" \in Faults
    /\ gone' = TRUE /\ to' = <<>> /\ Does("exit") /\ opened' = FALSE
    /\ UNCHANGED <<client, toDaemon, toClient, tunnel, astray>>

-----------------------------------------------------------------------------
Works(t) ==
    \/ GetConnection(t) \/ SendCommand(t) \/ SendFrame(t) \/ ProcessStderr(t) \/ Joined(t)
    \/ ReadValue(t) \/ ReadNar(t)

Serves ==
    \/ Flush \/ Greet \/ Hello \/ ReadOp \/ ReadFrame \/ StopWork \/ Dump \/ Drain

Connects == SendVersion \/ SetOptions \/ InitDone \/ InitFails \/ Disconnect

RemoteSteps ==
    \/ Connects \/ Serves \/ Fails \/ ParseFails \/ DumpFails \/ Log
    \/ \E t \in Task :
        (\E k \in Kinds : BeginCommand(t, k)) \/ Works(t) \/ SourceFails(t) \/ DropNar(t) \/ Cancel(t)

(* The process for a connection opens the store, by itself. *)
OpenUncachedStore ==
    /\ daemon.pc = "magic" /\ ~ gone /\ ~ opened /\ opened' = TRUE
    /\ UNCHANGED <<client, gone, toDaemon, toClient, daemon, to, tunnel, astray>>

RemoteNext == RemoteSteps \/ OpenUncachedStore \/ Exit

(* Fewer commands than MaxCommands may be left from the beginning. *)
RemoteSpec ==
    RemoteInit /\ opened = FALSE /\ commands \in 0..MaxCommands /\ [][RemoteNext]_remoteVars

-----------------------------------------------------------------------------
(* The comment on ConnectionHandle: it "marks the connection as bad         *)
(* (causing it to be closed) if a non-daemon exception is thrown before the *)
(* handle is closed".  So the connection is between two commands whenever   *)
(* it can be taken: nothing of an earlier one is on its way, and the daemon *)
(* waits for the next.                                                      *)
InSync ==
    connection = "open" /\ holder = NoTask /\ ~ gone =>
        /\ toDaemon = <<>> /\ toClient = <<>> /\ to = <<>> /\ daemon.pc = "loop"

(* It is so unless a NAR was not read to its end, a command was refused, or *)
(* the daemon has left the frames of an upload unread.                      *)
FreeMeansIdle == astray = {} => InSync

(* The comment in processLegacyRequests, "just send the error message and   *)
(* exit", and the lock of the connection: what a task reads is the answer   *)
(* to its own command.                                                      *)
OwnAnswers ==
    \A t \in Task : task[t].pc \in {"reply", "value", "stream"} =>
        \A i \in DOMAIN toClient : toClient[i].id = task[t].id

(* TunnelLogger: log messages come where processStderr expects them, and    *)
(* not within an answer, whichever thread they come from.                   *)
LogsInWork ==
    \A t \in Task : task[t].pc \in {"value", "stream"} /\ Readable => Head(toClient).msg # "log"

(* Both are so under the same condition: a task reads the answer to its own *)
(* command and nothing else, whatever was cancelled, failed or logged.      *)
AnswersMatch == astray = {} => OwnAnswers /\ LogsInWork

(* FramedSource is there "to guarantee a known state to the original        *)
(* stream, even in the event of errors" (serialise.hh): the daemon never    *)
(* takes the data of an upload for an operation.                            *)
ReadsOperations == daemon.pc = "loop" /\ toDaemon # <<>> => Head(toDaemon).msg = "op"

(* It is so however the upload or the command ends, also when the client    *)
(* fails or cancels it, and whatever else went astray; unless an error came *)
(* between startWork and the FramedSource.                                  *)
DaemonInSync == "frames" \notin astray => ReadsOperations

(* A command after the connection was lost uses a pointer that is not null. *)
ConnectionExists == \A t \in Task : task[t].pc # "undefined"

(* Client and daemon do not wait for each other, however little a socket    *)
(* holds.                                                                   *)
CommandsEnd == \A t \in Task : task[t].pc # "idle" ~> task[t].pc \in {"idle", "undefined"}
=============================================================================

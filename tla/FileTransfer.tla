---------------------------- MODULE FileTransfer ----------------------------
(***************************************************************************)
(* Downloads and uploads (lix/libstore/curlfiletransfer.cc, curlmulti.cc,  *)
(* transferitem.cc).  A TransferStream lives on the thread of whoever      *)
(* reads it; the TransferItem of its current attempt is handed to the one  *)
(* worker thread of CurlMulti, which runs every transfer with curl.  The   *)
(* stream asks the worker for things through state_ (incoming, unpause,    *)
(* cancel, quitting) and the worker answers through downloadState (data,   *)
(* exc, done, downloadEvent) and through the metadata promise.             *)
(*                                                                         *)
(* Two mutexes matter.  quit() holds state_ while it finishes the items    *)
(* that wait in incoming, so `lock` is explicit; every other use of state_ *)
(* is one step.  waitForData holds downloadState of its item while it asks *)
(* for state_ (pc "took" and "empty"); whoever writes to an item waits for *)
(* that mutex.                                                             *)
(*                                                                         *)
(* curl and the server are external: a reply has a version of the file (of *)
(* Size units), perhaps an ETag and perhaps "accept-ranges: bytes"; it may *)
(* be an error, the connection may break, and the file may be replaced.    *)
(***************************************************************************)
EXTENDS Naturals, Sequences, FiniteSets

CONSTANTS
    Stream,
    Uploads,        \* streams that send data
    Together,       \* sets of streams that run at the same time
    Tries,          \* fileTransferSettings.tries
    Size,           \* units of the file that is downloaded; the reply to an upload is empty
    Capacity,       \* units in the buffer of an item before curl is paused
    MaxVersion,     \* of the file: how often it is replaced
    Headers,        \* what replies may have of "etag" and "accept-ranges"
    Stops,          \* what may stop the worker: "interrupt" (triggerInterrupt), "destroy"
                    \* (~curlFileTransfer), "curl" (curl_multi_perform or _poll fails)
    MaxStops,       \* and how many of them do
    Faults          \* "log": a log call of the worker throws Interrupted

ASSUME StreamAssumption == Uploads \subseteq Stream /\ Together \subseteq SUBSET Stream
ASSUME SizeAssumption == {Tries, Size, Capacity, MaxVersion} \subseteq Nat \ {0}
ASSUME HeadersAssumption == Headers \subseteq SUBSET {"etag", "accept-ranges"}

VARIABLES
    version,        \* of the file, on the server
    pc,             \* of the streams
    inited,         \* init has returned
    metadata,       \* the ETag that init returned
    got,            \* what read has returned
    attempt,        \* transfers started
    end,            \* "eof" or "error" once read has said so, or "dropped"
    item,           \* transfer: the item of the current attempt
    incoming, unpause, cancel, quitting, workAvailable, lock,   \* state_
    left,           \* incoming items that quit() has yet to finish
    set,            \* streams whose cancel promise has its value
    wpc,            \* the worker
    stops,          \* what has stopped the worker
    stopper         \* the call of stopWorkerThread that is running, or "none"

streamVars == <<pc, inited, metadata, got, attempt, end>>
stateVars == <<incoming, unpause, cancel, quitting, workAvailable>>
quitVars == <<lock, left, set, stops, stopper>>
vars == <<version, streamVars, item, stateVars, quitVars, wpc>>

NoTag == 0
Length(s) == IF s \in Uploads THEN 0 ELSE Size

(* A TransferItem: `offset` is where the transfer resumes, status is what
   getHTTPStatus says (0: no reply), tag and ranges are in the reply's
   headers, and `promise` is what the metadata promise was given. *)
NewItem(offset) ==
    [offset |-> offset, at |-> "stream", status |-> 0, version |-> 0, tag |-> NoTag,
     ranges |-> FALSE, headersDone |-> FALSE, promise |-> "none", sent |-> 0, paused |-> FALSE,
     data |-> <<>>, exc |-> "none", done |-> FALSE, event |-> "none", finished |-> 0]

Units == [version : 1..MaxVersion, pos : 1..Size]

Items ==
    [offset : 0..Size, at : {"stream", "incoming", "items", "lost"},
     status : {0, 200, 404, 429}, version : 0..MaxVersion, tag : 0..MaxVersion,
     ranges : BOOLEAN, headersDone : BOOLEAN, promise : {"none", "result", "exception"},
     sent : 0..Size, paused : BOOLEAN, data : Seq(Units),
     exc : {"none", "Transient", "Misc"}, done : BOOLEAN,
     event : {"none", "set", "fulfilled"}, finished : 0..2]

Looping == {"perform", "take", "poll", "poll0"}

\* Every variable has a value of its type, and an item's buffer never holds
\* more than writeCallback lets in before it pauses the transfer.
TypeOK ==
    /\ version \in 1..MaxVersion
    /\ pc \in [Stream -> {"start", "meta", "look", "took", "empty", "wait",
                          "cancel", "cancelling", "gone"}]
    /\ inited \in [Stream -> BOOLEAN]
    /\ metadata \in [Stream -> 0..MaxVersion]
    /\ \A s \in Stream : got[s] \in Seq(Units)
    /\ attempt \in [Stream -> 0..Tries]
    /\ end \in [Stream -> {"none", "eof", "error", "dropped"}]
    /\ \A s \in Stream : item[s] \in Items /\ Len(item[s].data) <= Capacity
    /\ incoming \subseteq Stream /\ left \subseteq incoming /\ cancel \subseteq Stream
    /\ unpause \subseteq Stream \X (1..Tries)
    /\ set \subseteq Stream
    /\ {quitting, workAvailable} \subseteq BOOLEAN
    /\ lock \in {"free", "stopper", "worker"}
    /\ wpc \in Looping \cup {"leave", "quit", "quitAgain", "gone", "terminated"}
    /\ stops \subseteq Stops /\ stopper \in {"none", "interrupt", "destroy"}

Init ==
    /\ version = 1
    /\ \E running \in Together : pc = [s \in Stream |-> IF s \in running THEN "start" ELSE "gone"]
    /\ inited = [s \in Stream |-> FALSE]
    /\ metadata = [s \in Stream |-> NoTag] /\ got = [s \in Stream |-> <<>>]
    /\ attempt = [s \in Stream |-> 0] /\ end = [s \in Stream |-> "none"]
    /\ item = [s \in Stream |-> NewItem(0)]
    /\ incoming = {} /\ unpause = {} /\ cancel = {} /\ left = {} /\ set = {}
    /\ quitting = FALSE /\ workAvailable = FALSE
    /\ lock = "free" /\ wpc = "perform"
    /\ stops = {} /\ stopper = "none"

-----------------------------------------------------------------------------
(* Items.  An item is written under downloadState, which its stream holds
   while it is in Unpause. *)
Unlocked(s) == pc[s] \notin {"took", "empty"}

Successful(i) == i.status \in {0, 200}

Signal(i) == IF i.event = "set" THEN [i EXCEPT !.event = "fulfilled"] ELSE i

MaybeFinishSetup(i) ==
    IF i.headersDone THEN i
    ELSE [i EXCEPT !.headersDone = TRUE,
                   !.promise = IF Successful(i) THEN "result" ELSE @]

FailEx(i, err) ==
    Signal([i EXCEPT !.exc = err, !.finished = IF @ < 2 THEN @ + 1 ELSE @,
                     !.promise = IF @ = "none" THEN "exception" ELSE @])

\* finish after maybeFinishSetup; code is "ok", "broken" or "aborted" (by a callback).
FinishRest(i, code) ==
    CASE code = "ok" /\ Successful(i) ->
             Signal([i EXCEPT !.done = TRUE, !.finished = IF @ < 2 THEN @ + 1 ELSE @])
      [] code = "aborted" \/ i.status = 404 -> FailEx(i, "Misc")
      [] OTHER -> FailEx(i, "Transient")

\* What curl knows of the reply's body is of no use any more.
Finish(i, code) ==
    [FinishRest(MaybeFinishSetup(i), code) EXCEPT !.at = "stream", !.sent = 0, !.version = 0]

-----------------------------------------------------------------------------
(* Streams *)
Wakeup == workAvailable' = TRUE

Ends(s, how) ==
    /\ pc' = [pc EXCEPT ![s] = "cancel"]
    /\ end' = [end EXCEPT ![s] = how]

\* withRetries: the backoff, or the exception for the caller, who gives the stream up.
Fails(s, err) ==
    IF /\ err = "Transient" /\ s \notin Uploads /\ attempt[s] < Tries
       /\ got[s] # <<>> => item[s].ranges
    THEN pc' = [pc EXCEPT ![s] = "start"] /\ end' = end
    ELSE Ends(s, "error")

StartTransfer(s) ==
    /\ pc[s] = "start" /\ lock = "free"
    /\ attempt' = [attempt EXCEPT ![s] = @ + 1]
    /\ \/ /\ quitting
          /\ item' = [item EXCEPT ![s] = NewItem(Len(got[s]))]
          /\ Ends(s, "error")
          /\ UNCHANGED stateVars
       \/ /\ ~quitting
          /\ item' = [item EXCEPT ![s] = [NewItem(Len(got[s])) EXCEPT !.at = "incoming"]]
          /\ pc' = [pc EXCEPT ![s] = "meta"]
          /\ incoming' = incoming \cup {s}
          /\ Wakeup
          /\ UNCHANGED <<end, unpause, cancel, quitting>>
    /\ UNCHANGED <<version, inited, metadata, got, quitVars, wpc>>

(* Mutant: the new ETag is ignored. *)
ChangedNever(s) == FALSE

\* onChange
Changed(s) == metadata[s] \notin {NoTag, item[s].tag}

\* init keeps what it gets; restartTransfer compares, and keeps what init got.
HasMetadata(s) ==
    /\ pc[s] = "meta"
    /\ \/ /\ item[s].promise = "result" /\ ~inited[s]
          /\ inited' = [inited EXCEPT ![s] = TRUE]
          /\ metadata' = [metadata EXCEPT ![s] = item[s].tag]
          /\ pc' = [pc EXCEPT ![s] = "look"]
          /\ end' = end
       \/ /\ item[s].promise = "result" /\ inited[s]
          /\ IF Changed(s) THEN Fails(s, "Misc")
             ELSE pc' = [pc EXCEPT ![s] = "look"] /\ end' = end
          /\ UNCHANGED <<inited, metadata>>
       \/ /\ item[s].promise = "exception"
          /\ Fails(s, item[s].exc)
          /\ UNCHANGED <<inited, metadata>>
    /\ UNCHANGED <<version, got, attempt, item, stateVars, quitVars, wpc>>

\* waitForData under downloadState, up to its call of unpause.
WaitForData(s) ==
    /\ pc[s] = "look" \/ (pc[s] = "wait" /\ item[s].event = "fulfilled")
    /\ item' = [item EXCEPT ![s].event = "none", ![s].data = <<>>]
    /\ got' = [got EXCEPT ![s] = @ \o item[s].data]
    /\ \/ /\ item[s].data # <<>>
          /\ pc' = [pc EXCEPT ![s] = "took"]
          /\ end' = end
       \/ /\ item[s].data = <<>> /\ item[s].exc # "none"
          /\ Fails(s, item[s].exc)
       \/ /\ item[s].data = <<>> /\ item[s].exc = "none" /\ item[s].done
          /\ Ends(s, "eof")
       \/ /\ item[s].data = <<>> /\ item[s].exc = "none" /\ ~item[s].done
          /\ pc' = [pc EXCEPT ![s] = "empty"]
          /\ end' = end
    /\ UNCHANGED <<version, inited, metadata, attempt, stateVars, quitVars, wpc>>

\* unpause, with downloadState held; then state->wait() if there was nothing.
Unpause(s) ==
    /\ pc[s] \in {"took", "empty"} /\ lock = "free"
    /\ unpause' = unpause \cup {<<s, attempt[s]>>}
    /\ Wakeup
    /\ \/ /\ pc[s] = "took"
          /\ pc' = [pc EXCEPT ![s] = "look"]
          /\ item' = item
       \/ /\ pc[s] = "empty"
          /\ pc' = [pc EXCEPT ![s] = "wait"]
          /\ item' = [item EXCEPT ![s].event = "set"]
    /\ UNCHANGED <<version, inited, metadata, got, attempt, end, incoming, cancel, quitting,
                   quitVars, wpc>>

\* The reader drops the stream, or the coroutine that waits in it.
Drop(s) ==
    /\ pc[s] \in {"meta", "look", "wait"} \/ (pc[s] = "start" /\ attempt[s] > 0)
    /\ Ends(s, "dropped")
    /\ UNCHANGED <<version, inited, metadata, got, attempt, item, stateVars, quitVars, wpc>>

\* The stream is gone; its item is too, unless the worker refers to it.
Gone(s) ==
    /\ pc' = [pc EXCEPT ![s] = "gone"]
    /\ inited' = [inited EXCEPT ![s] = FALSE]
    /\ metadata' = [metadata EXCEPT ![s] = NoTag]
    /\ got' = [got EXCEPT ![s] = <<>>]
    /\ attempt' = [attempt EXCEPT ![s] = 0]
    /\ end' = [end EXCEPT ![s] = "none"]
    /\ item' = [item EXCEPT ![s] = IF @.at \in {"incoming", "items"} THEN @ ELSE NewItem(0)]

\* ~TransferStream
Cancel(s) ==
    /\ pc[s] = "cancel" /\ lock = "free"
    /\ \/ /\ quitting
          /\ Gone(s)
          /\ UNCHANGED stateVars
       \/ /\ ~quitting
          /\ pc' = [pc EXCEPT ![s] = "cancelling"]
          /\ cancel' = cancel \cup {s}
          /\ Wakeup
          /\ UNCHANGED <<inited, metadata, got, attempt, end, item, incoming, unpause, quitting>>
    /\ UNCHANGED <<version, quitVars, wpc>>

Cancelled(s) ==
    /\ pc[s] = "cancelling" /\ s \in set
    /\ Gone(s)
    /\ UNCHANGED <<version, stateVars, quitVars, wpc>>

-----------------------------------------------------------------------------
(* curl and the server.  Callbacks run in curl_multi_perform, which the
   worker reaches when curl_multi_poll sees that a socket is ready.  The
   timeout of curl_multi_poll is left out: nothing may depend on it. *)
Network(s) ==
    /\ wpc \in {"perform", "poll", "poll0"}
    /\ wpc' = "perform"
    /\ item[s].at = "items"
    /\ UNCHANGED <<streamVars, stateVars, quitVars>>

Interrupted == "interrupt" \in stops

\* headerCallback: the item as it is, or with a first reply.  The file may have
\* been replaced; a range that starts at the end of the file is refused.
Replied(s) ==
    LET i == item[s] IN
    IF i.status # 0 THEN {i}
    ELSE {i, [i EXCEPT !.status = 404], [i EXCEPT !.status = 429]}
         \cup IF s \in Uploads THEN {[i EXCEPT !.status = 200]}
              ELSE {[i EXCEPT !.status = 200, !.version = v, !.ranges = "accept-ranges" \in h,
                              !.tag = IF "etag" \in h THEN v ELSE NoTag] :
                        v \in {w \in version..MaxVersion : i.offset < Size}, h \in Headers}

Full(i) == Len(i.data) >= Capacity

\* writeCallback.
Receive(s) ==
    /\ Network(s) /\ Unlocked(s)
    /\ \E r \in Replied(s) : LET i == MaybeFinishSetup(r) IN
          /\ i.status = 200 /\ ~i.paused /\ i.offset + i.sent < Length(s)
          /\ version' = IF i.version > version THEN i.version ELSE version
          /\ item' = [item EXCEPT ![s] =
                         IF Full(i) THEN [i EXCEPT !.paused = TRUE]
                         ELSE Signal([i EXCEPT !.sent = @ + 1,
                                  !.data = Append(@, [version |-> i.version,
                                                      pos |-> i.offset + i.sent + 1])])]

\* CURLMSG_DONE.  progressCallback aborts a transfer after an interrupt.
Done(s) ==
    /\ Network(s) /\ Unlocked(s)
    /\ ~item[s].paused
    /\ \E i \in Replied(s), code \in {"ok", "broken", "aborted"} :
          /\ code = "ok" => \/ i.status \in {404, 429}
                            \/ i.status = 200 /\ i.offset + i.sent = Length(s)
          /\ code = "aborted" => Interrupted
          /\ version' = IF i.version > version THEN i.version ELSE version
          /\ item' = [item EXCEPT ![s] = Finish(i, code)]

-----------------------------------------------------------------------------
(* The worker: workerThreadMain, then workerThreadEntry *)
\* A promise that has its value throws when it is set again.
TakeCancel ==
    /\ wpc = "perform" /\ lock = "free"
    /\ cancel' = {}
    /\ \/ /\ cancel \cap set = {}
          /\ item' = [s \in Stream |-> IF s \in cancel /\ item[s].at = "items"
                                      THEN [item[s] EXCEPT !.at = "stream"] ELSE item[s]]
          /\ set' = set \cup cancel
          /\ wpc' = "take"
       \/ \E s \in cancel \cap set :
             /\ item' = [item EXCEPT ![s].at = IF @ = "items" THEN "stream" ELSE @]
             /\ wpc' = "leave"
             /\ UNCHANGED set
    /\ UNCHANGED <<version, streamVars, incoming, unpause, quitting, workAvailable,
                   lock, left, stops, stopper>>

TakeWork ==
    /\ wpc = "take" /\ lock = "free"
    /\ \E lost \in IF "log" \in Faults /\ Interrupted
                    THEN SUBSET incoming ELSE {{}} :
          /\ item' = [s \in Stream |->
                         CASE s \in lost -> [item[s] EXCEPT !.at = "lost"]
                           [] s \in incoming \ lost -> [item[s] EXCEPT !.at = "items"]
                           [] ~quitting /\ <<s, attempt[s]>> \in unpause ->
                                 [item[s] EXCEPT !.paused = FALSE]
                           [] OTHER -> item[s]]
          /\ wpc' = CASE quitting \/ lost # {} -> "leave"
                      [] workAvailable -> "poll0"
                      [] OTHER -> "poll"
    /\ incoming' = {} /\ unpause' = {} /\ workAvailable' = FALSE
    /\ UNCHANGED <<version, streamVars, cancel, quitting, quitVars>>

\* curl_multi_poll returns at once if there was work, or when wakeup is called.
Poll ==
    /\ wpc = "poll0" \/ (wpc = "poll" /\ workAvailable)
    /\ wpc' = "perform"
    /\ UNCHANGED <<version, streamVars, item, stateVars, quitVars>>

MayStop(why) == why \in Stops \ stops /\ Cardinality(stops) < MaxStops

CurlFails ==
    /\ MayStop("curl")
    /\ stops' = stops \cup {"curl"}
    /\ wpc \in {"perform", "poll", "poll0"}
    /\ wpc' = "leave"
    /\ UNCHANGED <<version, streamVars, item, stateVars, lock, left, set, stopper>>

\* KJ_DEFER: items are finished, then quit() is called.
Leave ==
    /\ wpc = "leave"
    /\ \/ \E s \in Stream :
             /\ item[s].at = "items" /\ Unlocked(s)
             /\ item' = [item EXCEPT ![s] = Finish(@, "aborted")]
             /\ wpc' = wpc
       \/ /\ \A s \in Stream : item[s].at # "items"
          /\ wpc' = "quit"
          /\ item' = item
    /\ UNCHANGED <<version, streamVars, stateVars, quitVars>>

-----------------------------------------------------------------------------
(* quit(), with state_ locked: by the worker, twice, and by stopWorkerThread *)
\* triggerInterrupt counts the interrupt, then runs the callback of the worker.
Stop(how) ==
    /\ MayStop(how) /\ stopper = "none"
    /\ how = "interrupt" => wpc \notin {"quitAgain", "gone"}
    /\ stops' = stops \cup {how} /\ stopper' = how
    /\ UNCHANGED <<version, streamVars, item, stateVars, lock, left, set, wpc>>

QuitBegins ==
    /\ lock = "free"
    /\ \/ stopper # "none" /\ lock' = "stopper"
       \/ wpc \in {"quit", "quitAgain"} /\ lock' = "worker"
    /\ left' = incoming /\ quitting' = TRUE
    /\ UNCHANGED <<version, streamVars, item, incoming, unpause, cancel, workAvailable, set,
                   stops, stopper, wpc>>

\* The two halves of finish: the metadata promise, then downloadState.
QuitFinishes(s) ==
    /\ s \in left
    /\ \/ /\ ~item[s].headersDone
          /\ item' = [item EXCEPT ![s] = MaybeFinishSetup(@)]
          /\ left' = left
       \/ /\ item[s].headersDone /\ Unlocked(s)
          /\ item' = [item EXCEPT ![s] = Finish(@, "aborted")]
          /\ left' = left \ {s}
    /\ UNCHANGED <<version, streamVars, stateVars, lock, set, stops, stopper, wpc>>

(* Mutant: incoming is not cleared. *)
ClearKeeps == incoming' = incoming /\ unpause' = {}

Clear == incoming' = {} /\ unpause' = {}

(* Mutant: only the worker's loop acknowledges (#1218). *)
AcknowledgeNot == set' = set

Acknowledge == set' = set \cup cancel

\* The rest of quit(); stopWorkerThread then wakes the worker.
QuitEnds ==
    /\ lock # "free" /\ left = {}
    /\ lock' = "free"
    /\ Clear /\ Acknowledge
    /\ LET throws == cancel \cap set # {} IN
       \/ /\ lock = "stopper"
          /\ stopper' = "none"
          /\ IF throws THEN UNCHANGED workAvailable ELSE Wakeup
          /\ wpc' = IF throws /\ stopper = "destroy" THEN "terminated" ELSE wpc
       \/ /\ lock = "worker"
          /\ wpc' = CASE wpc = "quit" -> "quitAgain"
                      [] wpc = "quitAgain" /\ throws -> "terminated"
                      [] OTHER -> "gone"
          /\ UNCHANGED <<stopper, workAvailable>>
    /\ UNCHANGED <<version, streamVars, item, cancel, quitting, left, stops>>

-----------------------------------------------------------------------------
StreamSteps(s) ==
    \/ StartTransfer(s) \/ HasMetadata(s) \/ WaitForData(s) \/ Unpause(s)
    \/ Cancel(s) \/ Cancelled(s)

Progress ==
    /\ wpc # "terminated"
    /\ \/ \E s \in Stream : StreamSteps(s) \/ Receive(s) \/ Done(s) \/ QuitFinishes(s)
       \/ TakeCancel \/ TakeWork \/ Poll \/ Leave \/ QuitBegins \/ QuitEnds

Next ==
    \/ Progress
    \/ /\ wpc # "terminated"
       /\ \/ \E s \in Stream : Drop(s)
          \/ \E how \in {"interrupt", "destroy"} : Stop(how)
          \/ CurlFails

Spec == Init /\ [][Next]_vars
FairSpec == Spec /\ WF_vars(Progress)

-----------------------------------------------------------------------------
\* What read returns is the file from its start, without a gap and without a
\* unit twice, whatever attempts it came from; it is of one version if init
\* returned an ETag (restartTransfer checks it); and at the end it is whole.
InOrder ==
    \A s \in Stream :
        /\ \A k \in DOMAIN got[s] : /\ got[s][k].pos = k
                                   /\ metadata[s] # NoTag => got[s][k].version = metadata[s]
        /\ end[s] = "eof" => Len(got[s]) = Length(s)

\* failEx asserts that the item was not finished before, although the worker,
\* its KJ_DEFER and the two or three calls of quit() all finish items.
FinishedOnce == \A s \in Stream : item[s].finished <= 1

\* quit() has state_ and waits for downloadState of an item, whose stream
\* waits for state_.
LockedOut == lock # "free" /\ \E s \in left : item[s].headersDone /\ ~Unlocked(s)

\* Every download ends, with the file or with an error, and every destructor
\* returns (the comment on #1218 in quit()), whatever the worker is doing
\* when it is told to stop or when curl fails; unless quit() has locked a
\* stream out, or has ended the process by setting a promise twice.
StreamsEnd == <>(wpc = "terminated" \/ LockedOut \/ \A s \in Stream : pc[s] = "gone")

\* (Violated: FileTransfer_locks.cfg.)  Stopping does not deadlock.
NeverLockedOut == ~LockedOut

\* (Violated: FileTransfer_promise.cfg.)  Stopping does not end the process.
NeverTerminates == wpc # "terminated"

\* (Violated: FileTransfer_orphan.cfg.)  "have it abort", ~TransferStream: while
\* the worker is in its loop, it runs no transfer of a stream that is gone.
DestructionAborts == \A s \in Stream : pc[s] = "gone" /\ wpc \in Looping => item[s].at # "items"

\* (Violated: FileTransfer_version.cfg.)  If every reply has an ETag, then what
\* read returns is of one version.
OneVersion ==
    \A s \in Stream : \A j, k \in DOMAIN got[s] : got[s][j].version = got[s][k].version
=============================================================================

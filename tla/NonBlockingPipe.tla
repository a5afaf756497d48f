--------------------------- MODULE NonBlockingPipe ---------------------------
(***************************************************************************)
(* One pipe of crates/wasmi-plugin-hdk/src/wasi/non_blocking_pipe.rs with  *)
(* its writer and its reader.  The reader is either a synchronous one,     *)
(* which calls read and meets WouldBlock (the guest's stdin behind fd_read *)
(* and the host's transport on the guest's stdout), or an asynchronous     *)
(* one, a task that calls poll_read and is polled again when it is woken   *)
(* (the logger on the guest's stderr).                                     *)
(*                                                                         *)
(* The writer handle is dropped once: no code of the repository clones it. *)
(***************************************************************************)
EXTENDS PipeOps

CONSTANTS Byte,        \* the bytes that are told apart
          Chunks,      \* what one call of write may carry
          ReadSizes,   \* the lengths of the buffers the reader passes
          MaxSent      \* bound: bytes written over the pipe's life

ASSUME PipeAssumption ==
    /\ Chunks \subseteq Seq(Byte)
    /\ ReadSizes \subseteq Nat \ {0}
    /\ MaxSent \in Nat

VARIABLES pipe,      \* the record behind the mutex
          api,       \* "sync" or "async": which of the two readers this is
          task,      \* the reader's task: "scheduled", "parked" or "done"
          sent,      \* history: every byte the writer has written
          received,  \* history: every byte the reader has been given
          eof        \* the reader has been told of the end of the stream

vars == <<pipe, api, task, sent, received, eof>>

TypeOK == /\ pipe \in Inner(Byte)
          /\ api \in {"sync", "async"}
          /\ task \in {"scheduled", "parked", "done"}
          /\ sent \in Seq(Byte)
          /\ received \in Seq(Byte)
          /\ eof \in BOOLEAN

Init == /\ pipe = NewPipe
        /\ api \in {"sync", "async"}
        /\ task = "scheduled"
        /\ sent = <<>>
        /\ received = <<>>
        /\ eof = FALSE

\* Waking a task that is not parked changes nothing: it runs already or it
\* has finished.
Woken(wake) == IF wake /\ task = "parked" THEN "scheduled" ELSE task

-----------------------------------------------------------------------------
(***************************************************************************)
(* The writer.                                                             *)
(***************************************************************************)
Write(items) ==
    /\ ~pipe.closed
    /\ Len(sent) + Len(items) =< MaxSent
    /\ pipe' = WritePipe(pipe, items).pipe
    /\ task' = Woken(WritePipe(pipe, items).wake)
    /\ sent' = sent \o items
    /\ UNCHANGED <<api, received, eof>>

Drop ==
    /\ ~pipe.closed
    /\ pipe' = DropPipe(pipe).pipe
    /\ task' = Woken(DropPipe(pipe).wake)
    /\ UNCHANGED <<api, sent, received, eof>>

-----------------------------------------------------------------------------
(***************************************************************************)
(* The reader.  A synchronous reader may call again at any time.  An       *)
(* asynchronous one calls only while its task is scheduled: after data it  *)
(* calls again, after the end it is done, after Pending it is parked.      *)
(***************************************************************************)
Read(n) ==
    /\ api = "sync"
    /\ pipe' = ReadPipe(pipe, n)
    /\ received' = received \o Taken(pipe, n)
    /\ eof' = (eof \/ Outcome(pipe, n) = "eof")
    /\ UNCHANGED <<api, task, sent>>

PollRead(n) ==
    /\ api = "async"
    /\ task = "scheduled"
    /\ pipe' = PollPipe(pipe, n)
    /\ received' = received \o Taken(pipe, n)
    /\ task' = CASE Outcome(pipe, n) = "data"       -> "scheduled"
                 [] Outcome(pipe, n) = "eof"        -> "done"
                 [] Outcome(pipe, n) = "wouldBlock" -> "parked"
    /\ eof' = (Outcome(pipe, n) = "eof")
    /\ UNCHANGED <<api, sent>>

\* The reader shares its task with other futures (Plugin::call joins three):
\* when one of them is woken, the reader is polled as well.
SiblingWake ==
    /\ task = "parked"
    /\ task' = "scheduled"
    /\ UNCHANGED <<pipe, api, sent, received, eof>>

-----------------------------------------------------------------------------
Reader == \E n \in ReadSizes : Read(n) \/ PollRead(n)

Next == \/ \E items \in Chunks : Write(items)
        \/ Drop
        \/ \E n \in ReadSizes : Read(n)
        \/ \E n \in ReadSizes : PollRead(n)
        \/ SiblingWake

Spec == Init /\ [][Next]_vars

(***************************************************************************)
(* An executor polls every scheduled task in the end, and a synchronous    *)
(* reader that met WouldBlock tries again after a yield.  Nothing is       *)
(* assumed of the writer or of the reader's siblings.                      *)
(***************************************************************************)
FairSpec == Spec /\ WF_vars(Reader)

-----------------------------------------------------------------------------
(***************************************************************************)
(* Safety.                                                                 *)
(***************************************************************************)

\* The bytes the reader was given, followed by those still in the buffer, are
\* the bytes that were written: none is lost, repeated or moved, however
\* reads of different sizes and writes are interleaved.
NoByteLost == sent = received \o pipe.buf

\* The reader is told of the end (Ok(0)) only after the writer was dropped and
\* the last byte was handed over: a writer that writes and is dropped at once
\* never costs the reader its last message.
EofAfterLastByte == eof => pipe.closed /\ received = sent

\* A parked reader of an open pipe has nothing to read and has left a waker, so
\* the next write schedules it: the reader never sleeps on data.
ParkedReaderIsWakeable ==
    task = "parked" /\ ~pipe.closed => pipe.waker /\ pipe.buf = <<>>

\* The states a reader's task can be in: a synchronous reader does not park, an
\* asynchronous one is done exactly when it was told of the end.
TaskStates ==
    /\ api = "sync" => task = "scheduled"
    /\ api = "async" => (task = "done" <=> eof)

-----------------------------------------------------------------------------
(***************************************************************************)
(* Liveness.                                                               *)
(***************************************************************************)

\* Every byte that is written is read in the end, also when the writer is
\* dropped between the write and the read.
AllBytesArrive ==
    \A k \in 1 .. MaxSent : (Len(sent) >= k) ~> (Len(received) >= k)

\* A reader that is not parked when the writer goes away learns of the end.
CloseSeenByRunningReader == (pipe.closed /\ task # "parked") ~> eof

\* Every reader learns of the end, a parked one too.  The code means this, for
\* the drop of the writer wakes the waker it finds; it does not hold.
CloseSeen == pipe.closed ~> eof

-----------------------------------------------------------------------------
(***************************************************************************)
(* The pipe is a byte channel: its buffer and its waker are not observable.*)
(***************************************************************************)
Channel == INSTANCE ByteChannel WITH
               Item <- Byte, open <- ~pipe.closed, ended <- eof

ChannelSpec == Channel!Spec
=============================================================================

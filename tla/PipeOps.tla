------------------------------- MODULE PipeOps -------------------------------
(***************************************************************************)
(* The operations of the in-memory pipe of                                 *)
(* crates/wasmi-plugin-hdk/src/wasi/non_blocking_pipe.rs as operators on   *)
(* the record its mutex protects.  Every operation of the code takes the   *)
(* lock, works on the record and releases the lock without an await, so    *)
(* each one is a single function from the old record to the new one.       *)
(*                                                                         *)
(* A pipe has one reader, so its stored waker is a boolean: TRUE when the  *)
(* reader's task has left a waker behind.  The items of the buffer are     *)
(* bytes for the pipe on its own and whole lines for the modules that use  *)
(* a pipe to carry messages.                                               *)
(***************************************************************************)
EXTENDS Naturals, Sequences

\* struct Inner { buf, closed, waker }.
Inner(Item) == [buf : Seq(Item), closed : BOOLEAN, waker : BOOLEAN]

\* non_blocking_pipe(): empty, open, nobody waiting.
NewPipe == [buf |-> <<>>, closed |-> FALSE, waker |-> FALSE]

-----------------------------------------------------------------------------
(***************************************************************************)
(* Reading.  Both read (std::io::Read) and poll_read (AsyncRead) pop items *)
(* until the caller's n slots are full or the buffer is empty, and look at *)
(* closed only when they popped nothing.                                   *)
(*                                                                         *)
(* The operators whose comment begins with "Faulty" are what a slip in the *)
(* code would make of the definition that follows them; they show that the *)
(* properties notice it and are used for nothing else.                     *)
(***************************************************************************)
\* Faulty: the length of the buffer is returned, whatever the caller has room
\* for.
TakenAll(p, n) == p.buf

Taken(p, n) == IF n < Len(p.buf) THEN SubSeq(p.buf, 1, n) ELSE p.buf

\* Faulty: one item too many leaves the buffer when the reader's is full.
AfterTakingOneTooMany(p, n) ==
    IF n < Len(p.buf) THEN SubSeq(p.buf, n + 2, Len(p.buf)) ELSE <<>>

AfterTaking(p, n) ==
    IF n < Len(p.buf) THEN SubSeq(p.buf, n + 1, Len(p.buf)) ELSE <<>>

\* Faulty: the closed flag is looked at before the buffer.
OutcomeEofFirst(p, n) ==
    IF p.closed THEN "eof" ELSE IF p.buf # <<>> THEN "data" ELSE "wouldBlock"

\* Faulty: the closed flag is never looked at.
OutcomeIgnoringClose(p, n) == IF p.buf # <<>> THEN "data" ELSE "wouldBlock"

\* What the call returns: Ok(k > 0), Ok(0), or WouldBlock / Pending.
Outcome(p, n) ==
    IF Taken(p, n) # <<>> THEN "data"
    ELSE IF p.closed THEN "eof" ELSE "wouldBlock"

\* read: the waker is not touched.
ReadPipe(p, n) == [p EXCEPT !.buf = AfterTaking(p, n)]

\* Faulty: a pending poll leaves no waker.
PollWithoutWaker(p, n) == [p EXCEPT !.buf = AfterTaking(p, n), !.waker = FALSE]

\* poll_read: a stale waker is cleared, a pending poll leaves a new one.
PollPipe(p, n) ==
    [p EXCEPT !.buf = AfterTaking(p, n),
              !.waker = (Outcome(p, n) = "wouldBlock")]

-----------------------------------------------------------------------------
(***************************************************************************)
(* Writing and closing.  Each result says what becomes of the pipe and     *)
(* whether the stored waker is woken.                                      *)
(***************************************************************************)
\* Faulty: the waker is left alone.
WriteWithoutWake(p, items) ==
    [pipe |-> [p EXCEPT !.buf = @ \o items], wake |-> FALSE]

\* Faulty: the written slice becomes one item (push for extend).
WriteAsOneItem(p, items) ==
    [pipe |-> [p EXCEPT !.buf = Append(@, items), !.waker = FALSE],
     wake |-> p.waker]

WritePipe(p, items) ==
    [pipe |-> [p EXCEPT !.buf = @ \o items, !.waker = FALSE],
     wake |-> p.waker]

\* Drop of the writer, in the order of the code: closed is set, the waker is
\* set to None, and only then is it taken to be woken.
DropPipe(p) ==
    LET cleared == [p EXCEPT !.closed = TRUE, !.waker = FALSE]
    IN  [pipe |-> [cleared EXCEPT !.waker = FALSE], wake |-> cleared.waker]
=============================================================================

------------------------------ MODULE WasiStreams ------------------------------
(***************************************************************************)
(* The guest's standard streams: fd_read, fd_write and fd_close of         *)
(* crates/wasmi-plugin-hdk/src/wasi/wasi_ctx.rs over three pipes.          *)
(*                                                                         *)
(* stdin is a pipe behind a BufReader, so that run_wasm can look for input *)
(* without taking it from the guest (stdin_available); stdout and stderr   *)
(* are the writers of two pipes whose readers belong to the host.  A call  *)
(* of the guest moves several buffers at once (iovecs) and runs without    *)
(* interruption, the host moves bytes between calls.                       *)
(***************************************************************************)
EXTENDS PipeOps, SequencesExt

CONSTANTS Byte,
          Capacity,    \* of the BufReader
          Lengths,     \* the lengths of the buffers the guest reads into
          Chunks,      \* what host and guest write at a time
          MaxReads,    \* bound: buffers of one fd_read
          MaxWrites,   \* bound: buffers of one fd_write
          MaxBytes     \* bound: bytes written to the three streams together

ASSUME StreamsAssumption ==
    /\ Capacity \in Nat \ {0}
    /\ Lengths \subseteq Nat
    /\ Chunks \subseteq Seq(Byte)
    /\ MaxReads \in Nat /\ MaxWrites \in Nat /\ MaxBytes \in Nat

Outputs == {1, 2}

VARIABLES
    stdin,      \* the pipe, without what the BufReader has taken out of it
    lookahead,  \* the BufReader's buffer
    out,        \* the pipes of stdout and stderr
    opened,     \* the descriptors the guest has not closed
    sent, got,  \* history: what the host wrote to stdin, and what the guest
                \* was told it has read
    gotEof,     \* history: the guest was told that stdin has ended
    wrote,      \* history: what the guest was told it has written
    seen,       \* history: what the host has read of each output
    seenEof     \* history: the outputs whose end the host was told of

inVars == <<stdin, lookahead, sent, got, gotEof>>
outVars == <<out, wrote, seen, seenEof>>
vars == <<inVars, outVars, opened>>

TypeOK == /\ stdin \in Inner(Byte)
          /\ lookahead \in Seq(Byte) /\ Len(lookahead) =< Capacity
          /\ out \in [Outputs -> Inner(Byte)]
          /\ opened \subseteq {0} \cup Outputs
          /\ sent \in Seq(Byte) /\ got \in Seq(Byte)
          /\ gotEof \in BOOLEAN
          /\ wrote \in [Outputs -> Seq(Byte)]
          /\ seen \in [Outputs -> Seq(Byte)]
          /\ seenEof \subseteq Outputs

Init == /\ stdin = NewPipe /\ lookahead = <<>>
        /\ out = [fd \in Outputs |-> NewPipe]
        /\ opened = {0} \cup Outputs
        /\ sent = <<>> /\ got = <<>> /\ gotEof = FALSE
        /\ wrote = [fd \in Outputs |-> <<>>]
        /\ seen = [fd \in Outputs |-> <<>>] /\ seenEof = {}

\* Whether the bound leaves room for these bytes.
Room(items) == Len(sent) + Len(wrote[1]) + Len(wrote[2]) + Len(items) =< MaxBytes

-----------------------------------------------------------------------------
(***************************************************************************)
(* Input.  A reader is a record [pipe, look]: the pipe and the BufReader.  *)
(***************************************************************************)
Reader == [pipe |-> stdin, look |-> lookahead]

\* fill_buf: an empty buffer is filled with one read of the pipe.
Fill(r) ==
    IF r.look # <<>> THEN r
    ELSE [pipe |-> ReadPipe(r.pipe, Capacity),
          look |-> Taken(r.pipe, Capacity)]

\* Faulty: only what the buffer holds already counts.
AvailableInBuffer == 0 \in opened /\ lookahead # <<>>

\* stdin_available.
Available == 0 \in opened /\ Fill(Reader).look # <<>>

\* What r.read(buf) gives for a buffer of length n and what it leaves.  A read
\* as large as the BufReader goes past it when it is empty.
Bytes(r, n) ==
    IF r.look = <<>> /\ n >= Capacity THEN Taken(r.pipe, n)
    ELSE SubSeq(Fill(r).look, 1, IF n < Len(Fill(r).look)
                                 THEN n ELSE Len(Fill(r).look))

Rest(r, n) ==
    IF r.look = <<>> /\ n >= Capacity
    THEN [r EXCEPT !.pipe = ReadPipe(r.pipe, n)]
    ELSE [Fill(r) EXCEPT !.look = SubSeq(@, Len(Bytes(r, n)) + 1, Len(@))]

WouldBlock(r) == r.look = <<>> /\ Outcome(r.pipe, Capacity) = "wouldBlock"

\* Faulty: a read that would block ends the call like the end of the stream.
ReadBufferEof(s, n) ==
    IF s.status # "more" THEN s
    ELSE [reader |-> Rest(s.reader, n), data |-> s.data \o Bytes(s.reader, n),
          status |-> IF Len(Bytes(s.reader, n)) < n \/ n = 0
                     THEN "done" ELSE "more"]

\* Faulty: a short read leaves the loop before it is counted and copied.
ReadBufferBreaksFirst(s, n) ==
    IF s.status # "more" THEN s
    ELSE IF WouldBlock(s.reader) THEN [s EXCEPT !.status = "again"]
    ELSE [reader |-> Rest(s.reader, n),
          data |-> IF Len(Bytes(s.reader, n)) < n THEN s.data
                   ELSE s.data \o Bytes(s.reader, n),
          status |-> IF Len(Bytes(s.reader, n)) < n \/ n = 0
                     THEN "done" ELSE "more"]

\* The loop over the buffers: one that would block ends the call with Again,
\* one that is not filled, or gets nothing because it is empty itself, ends it
\* with what there is.
ReadBuffer(s, n) ==
    IF s.status # "more" THEN s
    ELSE IF WouldBlock(s.reader) THEN [s EXCEPT !.status = "again"]
    ELSE [reader |-> Rest(s.reader, n), data |-> s.data \o Bytes(s.reader, n),
          status |-> IF Len(Bytes(s.reader, n)) < n \/ n = 0
                     THEN "done" ELSE "more"]

\* fd_read into buffers of the given lengths.  After Again the guest is told
\* of no byte, also when buffers before the one that would block were filled;
\* it takes zero bytes for the end of stdin if it has asked for any.
FdRead(lengths) ==
    /\ 0 \in opened
    /\ LET s == FoldLeft(ReadBuffer,
                  [reader |-> Reader, data |-> <<>>, status |-> "more"],
                  lengths)
       IN  /\ stdin' = s.reader.pipe
           /\ lookahead' = s.reader.look
           /\ \/ /\ s.status = "again"
                 /\ UNCHANGED <<got, gotEof>>
              \/ /\ s.status # "again"
                 /\ got' = got \o s.data
                 /\ gotEof' = \/ gotEof
                              \/ s.data = <<>> /\ \E i \in DOMAIN lengths : lengths[i] > 0
    /\ UNCHANGED <<sent, outVars, opened>>

\* run_wasm asks whether there is input.
StdinAvailable == /\ 0 \in opened
                  /\ stdin' = Fill(Reader).pipe
                  /\ lookahead' = Fill(Reader).look
                  /\ UNCHANGED <<sent, got, gotEof, outVars, opened>>

-----------------------------------------------------------------------------
(***************************************************************************)
(* Output.                                                                 *)
(***************************************************************************)
\* Faulty: the guest is told of all its buffers, the first one is written.
WrittenFirst(bufs) == Head(bufs)

\* The loop over the buffers: a pipe takes every byte.
Written(bufs) == FlattenSeq(bufs)

FdWrite(fd, bufs) ==
    /\ fd \in opened
    /\ Room(FlattenSeq(bufs))
    /\ out' = [out EXCEPT ![fd] = WritePipe(@, Written(bufs)).pipe]
    /\ wrote' = [wrote EXCEPT ![fd] = @ \o FlattenSeq(bufs)]
    /\ UNCHANGED <<inVars, seen, seenEof, opened>>

\* fd_close.  Closing stdin throws away what was not read, closing an output
\* drops the writer of its pipe.  A closed descriptor is Badf to every call
\* but fd_close.
FdClose(fd) ==
    /\ fd \in opened
    /\ opened' = opened \ {fd}
    /\ out' = [f \in Outputs |-> IF f = fd THEN DropPipe(out[f]).pipe
                                           ELSE out[f]]
    /\ UNCHANGED <<inVars, wrote, seen, seenEof>>

-----------------------------------------------------------------------------
(***************************************************************************)
(* The host's ends of the pipes.                                           *)
(***************************************************************************)
HostWrites(items) ==
    /\ ~stdin.closed
    /\ Room(items)
    /\ stdin' = WritePipe(stdin, items).pipe
    /\ sent' = sent \o items
    /\ UNCHANGED <<lookahead, got, gotEof, outVars, opened>>

HostDropsStdin ==
    /\ ~stdin.closed
    /\ stdin' = DropPipe(stdin).pipe
    /\ UNCHANGED <<lookahead, sent, got, gotEof, outVars, opened>>

HostReads(fd, n) ==
    /\ out' = [out EXCEPT ![fd] = ReadPipe(@, n)]
    /\ seen' = [seen EXCEPT ![fd] = @ \o Taken(out[fd], n)]
    /\ seenEof' = IF Outcome(out[fd], n) = "eof" THEN seenEof \cup {fd}
                                                 ELSE seenEof
    /\ UNCHANGED <<inVars, wrote, opened>>

-----------------------------------------------------------------------------
\* The arrays of up to n buffers.
UpTo(n, S) == UNION {[1 .. k -> S] : k \in 1 .. n}

\* Every step but those of a host that reads; how it reads is LineStreams.
CallOrWrite ==
        \/ \E lengths \in UpTo(MaxReads, Lengths) : FdRead(lengths)
        \/ StdinAvailable
        \/ \E fd \in Outputs, bufs \in UpTo(MaxWrites, Chunks) : FdWrite(fd, bufs)
        \/ \E fd \in {0} \cup Outputs : FdClose(fd)
        \/ \E items \in Chunks : HostWrites(items)
        \/ HostDropsStdin

-----------------------------------------------------------------------------
(***************************************************************************)
(* Properties.                                                             *)
(***************************************************************************)

\* No byte of stdin is lost on its way through the pipe, the BufReader and the
\* guest's buffers: what the guest was not told of yet is still there.  It
\* does not hold for a guest that reads into several buffers at once.
InputIntact == 0 \in opened => sent = got \o lookahead \o stdin.buf

\* stdin_available tells the truth: it finds input if and only if there is some
\* on its way, and then a read into any buffer with room gives some.
AvailableMeansReadable ==
    0 \in opened =>
      /\ Available <=> lookahead \o stdin.buf # <<>>
      /\ \A n \in Lengths \ {0} : Available <=> Bytes(Reader, n) # <<>>

\* stdin is a byte channel to the guest, in particular it is told of the end
\* only when the host has dropped the writer and everything was read.
Input == INSTANCE ByteChannel WITH
             Item <- Byte, received <- got, open <- ~stdin.closed,
             ended <- gotEof

InputIsChannel == Input!Spec

\* stdout and stderr are byte channels from the guest to the host, separate
\* from each other, and end when the guest closes them.
Stdout == INSTANCE ByteChannel WITH
              Item <- Byte, sent <- wrote[1], received <- seen[1],
              open <- 1 \in opened, ended <- 1 \in seenEof

Stderr == INSTANCE ByteChannel WITH
              Item <- Byte, sent <- wrote[2], received <- seen[2],
              open <- 2 \in opened, ended <- 2 \in seenEof

OutputsAreChannels == Stdout!Spec /\ Stderr!Spec
=============================================================================

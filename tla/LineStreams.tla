----------------------------- MODULE LineStreams -----------------------------
(***************************************************************************)
(* The guest's output as the host reads it, line by line: stdout by        *)
(* next_line of JsonRpcTransport (crates/wasmi-plugin-pdk/src/             *)
(* transport.rs) with read_line of the standard library, stderr by the     *)
(* logger of Plugin::call (crates/wasmi-plugin-hdk/src/plugin.rs) with     *)
(* that of the futures crate.                                              *)
(*                                                                         *)
(* The guest writes what it likes: lines in pieces, several at once, bytes *)
(* that are not text.  Texts are UTF-8, of which it matters that a         *)
(* character may have two bytes and be cut between them.  What a BufReader *)
(* of the host holds beyond the line counts as still in the pipe: nobody   *)
(* but this reader takes from either.                                      *)
(***************************************************************************)
EXTENDS WasiStreams

CONSTANTS Newline,
          Lead, Continuation   \* the two bytes of a character

ASSUME LinesAssumption ==
    /\ {Newline, Lead, Continuation} \subseteq Byte
    /\ Cardinality({Newline, Lead, Continuation}) = 3

VARIABLES reading,  \* "yes", or how reading the output has ended
          part,     \* String: what was kept of a line that is not all there
          lines,    \* history: the lines handed on
          torn      \* history: the guest has made a call that wrote stdout up
                    \* to the middle of a character, or no text at all

lineVars == <<reading, part, lines>>

LinesTypeOK == /\ TypeOK
               /\ reading \in [Outputs -> {"yes", "eof", "failed"}]
               /\ part \in [Outputs -> Seq(Byte)]
               /\ lines \in [Outputs -> Seq(Seq(Byte))]
               /\ torn \in BOOLEAN

LinesInit == /\ Init
             /\ reading = [fd \in Outputs |-> "yes"]
             /\ part = [fd \in Outputs |-> <<>>]
             /\ lines = [fd \in Outputs |-> <<>>]
             /\ torn = FALSE

\* from_utf8(s).is_ok().
Valid(s) ==
    \A i \in 1 .. Len(s) :
      /\ s[i] = Lead => i < Len(s) /\ s[i + 1] = Continuation
      /\ s[i] = Continuation => i > 1 /\ s[i - 1] = Lead

-----------------------------------------------------------------------------
\* read_until takes the bytes up to the first newline, or all.
UpToNewline(p) ==
    LET i == SelectInSeq(p.buf, LAMBDA b : b = Newline)
    IN  IF i = 0 THEN p.buf ELSE SubSeq(p.buf, 1, i)

\* It returns then, or when the pipe has ended, and would block otherwise.
Complete(p) == p.closed \/ Newline \in ToSet(p.buf)

\* What one call of read_line has read.  The logger's goes on where it was
\* pending; that of the transport is called again with the same String.
ReadNow(fd, taken) == IF fd = 1 THEN taken ELSE part[fd] \o taken

\* Faulty: next_line begins with a new String each time.
KeepsTheLast(fd, taken) == taken

\* What is kept when the call would block.  read_line of the standard library
\* takes back from the String what it has read if that is not text, although
\* it has left the pipe.
Keeps(fd, taken) == IF fd = 1 /\ ~Valid(taken) THEN part[fd]
                    ELSE part[fd] \o taken

\* Faulty: the logger does not clear its line.
NotCleared(fd, line) == IF fd = 2 THEN line ELSE <<>>

\* next_line has a String of its own, the logger clears its line.
Cleared(fd, line) == <<>>

\* next_line and the loop of stderr_task.  Zero bytes are the end, also of a
\* line of which a part was kept.
ReadLine(fd) ==
    LET taken == UpToNewline(out[fd])
        now == ReadNow(fd, taken)
        line == part[fd] \o taken
    IN  /\ reading[fd] = "yes"
        /\ HostReads(fd, Len(taken))
        /\ \/ /\ ~Complete(out[fd])
              /\ part' = [part EXCEPT ![fd] = Keeps(fd, taken)]
              /\ UNCHANGED <<reading, lines>>
           \/ /\ Complete(out[fd]) /\ now = <<>>
              /\ reading' = [reading EXCEPT ![fd] = "eof"]
              /\ UNCHANGED <<part, lines>>
           \/ /\ Complete(out[fd]) /\ ~Valid(now)
              /\ reading' = [reading EXCEPT ![fd] = "failed"]
              /\ UNCHANGED <<part, lines>>
           \/ /\ Complete(out[fd]) /\ now # <<>> /\ Valid(now)
              /\ lines' = [lines EXCEPT ![fd] = Append(@, line)]
              /\ part' = [part EXCEPT ![fd] = Cleared(fd, line)]
              /\ UNCHANGED reading

LinesNext == /\ \/ CallOrWrite /\ UNCHANGED lineVars
                \/ \E fd \in Outputs : ReadLine(fd)
             /\ torn' = (torn \/ ~Valid(wrote'[1]))

LinesSpec == LinesInit /\ [][LinesNext]_<<vars, lineVars, torn>>

-----------------------------------------------------------------------------
(***************************************************************************)
(* Properties.                                                             *)
(***************************************************************************)
\* What is handed on are lines: text that ends with its only newline, or with
\* the output.
AreLines(fd) ==
    \A i \in DOMAIN lines[fd] :
      LET line == lines[fd][i] IN
      /\ line # <<>> /\ Valid(line)
      /\ Newline \notin ToSet(Front(line))
      /\ Last(line) # Newline => i = Len(lines[fd]) /\ fd \notin opened

\* However the guest cuts its messages into calls and whenever the host looks,
\* the transport reads every line of stdout whole, once and in order, as long
\* as no call ends within a character; at the end it has them all, but for one
\* without a newline.
StdoutLines ==
    /\ AreLines(1)
    /\ ~torn => /\ reading[1] # "failed"
                /\ FlattenSeq(lines[1]) \o part[1] = seen[1]
                /\ Newline \notin ToSet(part[1])
                /\ reading[1] = "eof" => seen[1] = wrote[1]

\* The logger gets the lines of stderr whole, once and in order, wherever the
\* guest cuts its writes, and a last one without a newline too; only what is
\* no text ends it early.
LogLines ==
    /\ AreLines(2)
    /\ reading[2] = "failed" => ~Valid(wrote[2])
    /\ reading[2] # "failed" => FlattenSeq(lines[2]) \o part[2] = seen[2]
    /\ reading[2] = "eof" => FlattenSeq(lines[2]) = wrote[2]
=============================================================================

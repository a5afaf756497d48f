----------------------------- MODULE ByteChannel -----------------------------
(***************************************************************************)
(* What a pipe promises to the code that uses it, without buffers, wakers  *)
(* or non-blocking results: the reader is given the items in the order in  *)
(* which they were sent, each exactly once, and learns of the end of the   *)
(* stream only when the writer is gone and nothing is left to read.        *)
(***************************************************************************)
EXTENDS Naturals, Sequences

CONSTANT Item

VARIABLES sent,      \* everything the writer has sent
          received,  \* everything the reader has been given
          open,      \* the writer still exists
          ended      \* the reader has been told of the end of the stream

vars == <<sent, received, open, ended>>

Init == /\ sent = <<>>
        /\ received = <<>>
        /\ open = TRUE
        /\ ended = FALSE

Send == /\ open
        /\ sent' \in Seq(Item)
        /\ Len(sent) =< Len(sent')
        /\ SubSeq(sent', 1, Len(sent)) = sent
        /\ UNCHANGED <<received, open, ended>>

Close == /\ open
         /\ open' = FALSE
         /\ UNCHANGED <<sent, received, ended>>

\* The reader is given the next k items, and no others.
Receive == /\ \E k \in 1 .. Len(sent) :
                 /\ Len(received) < k
                 /\ received' = SubSeq(sent, 1, k)
           /\ UNCHANGED <<sent, open, ended>>

End == /\ ~open
       /\ received = sent
       /\ ended' = TRUE
       /\ UNCHANGED <<sent, received, open>>

Next == Send \/ Close \/ Receive \/ End

Spec == Init /\ [][Next]_vars
=============================================================================

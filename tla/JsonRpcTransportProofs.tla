------------------------ MODULE JsonRpcTransportProofs ------------------------
(***************************************************************************)
(* Proofs about JsonRpcTransport for every set of callers, every number of *)
(* calls and every combination of faults: the reader's lock excludes, a    *)
(* call is only ever given the answer to its own request, senders do not   *)
(* leak, errors are not made up, and answers are not lost or doubled.      *)
(***************************************************************************)
EXTENDS JsonRpcTransport, SequenceLemmas

(***************************************************************************)
(* The inductive invariant.  That a result is the caller's own needs every *)
(* response on its way to be truthful, and that a response stays truthful  *)
(* needs the peer never to answer a call twice, for which the requests on  *)
(* their way must be distinct and not answered yet.                        *)
(***************************************************************************)
\* A caller is in a call unless it is idle, has a line in hand exactly while it
\* processes one, and awaits the handler only for a request.
CallerStates ==
    \A c \in Callers :
      /\ pc[c] = "idle" <=> id[c] = None
      /\ pc[c] \in {"process", "handle"} <=> line[c] # None
      /\ pc[c] = "handle" => line[c].kind = "request"

\* A response carries the result of the call it names, which the peer has
\* answered with Ok.
Truthful(m) ==
    m.kind = "response" => m.result = m.id /\ answered[m.id] = "ok"

LinesTruthful ==
    /\ \A k \in 1 .. Len(incoming) : Truthful(incoming[k])
    /\ \A c \in Callers : line[c] # None => Truthful(line[c])

SlotsTruthful ==
    \A i \in Ids : slot[i] # None => slot[i] = i /\ answered[i] = "ok"

\* Requests on their way have been made, differ, and are not answered.
RequestsFresh ==
    /\ \A k \in 1 .. Len(outgoing) :
         outgoing[k].kind = "request" =>
           outgoing[k].id < nextId /\ answered[outgoing[k].id] = "none"
    /\ \A k, l \in 1 .. Len(outgoing) :
         /\ outgoing[k].kind = "request"
         /\ outgoing[l].kind = "request"
         /\ outgoing[k].id = outgoing[l].id
         => k = l
    /\ \A i \in Ids : answered[i] # "none" => i < nextId

TransportInv == /\ CallersOK
                /\ ChannelsOK
                /\ HistoryOK
                /\ CallerStates
                /\ ReaderLocked
                /\ LinesTruthful
                /\ SlotsTruthful
                /\ OkIsThePeers
                /\ RequestsFresh

LEMMA InitTransportInv == Init => TransportInv
<1> SUFFICES ASSUME Init
             PROVE  TransportInv
  OBVIOUS
<1>1. \A S : <<>> \in Seq(S) /\ Len(<<>>) = 0
  BY EmptySeq
<1>2. outgoing \in Seq(Outgoing) /\ incoming \in Seq(Incoming)
  BY <1>1, Zenon DEF Init
<1>3. CallersOK /\ ChannelsOK /\ HistoryOK
  BY <1>2, TransportAssumption DEF Init, CallersOK, ChannelsOK, HistoryOK
<1>4. CallerStates /\ ReaderLocked
  BY TransportAssumption DEF Init, CallerStates, ReaderLocked
<1>5. LinesTruthful /\ SlotsTruthful /\ OkIsThePeers /\ RequestsFresh
  BY <1>1 DEF Init, LinesTruthful, SlotsTruthful, OkIsThePeers, RequestsFresh
<1> QED
  BY <1>3, <1>4, <1>5 DEF TransportInv

(***************************************************************************)
(* Steps of a caller that leave the channels and what is in them alone.    *)
(***************************************************************************)
LEMMA QuietStep ==
    ASSUME TransportInv, NEW c \in Callers,
           \/ Pause(c) \/ Check(c) \/ Lock(c) \/ WaitEnds(c) \/ ReadEof(c)
           \/ ReadWouldBlock(c) \/ YieldEnds(c) \/ ProcessError(c)
           \/ ProcessFails(c) \/ ProcessRequest(c)
    PROVE  TransportInv'
<1> USE DEF TransportInv
<1>1. /\ UNCHANGED <<nextId, pending, slot, outgoing, incoming, open, unasked,
                     answered>>
      /\ line' = line \/ line' = [line EXCEPT ![c] = None]
  BY DEF Pause, Check, Lock, WaitEnds, ReadEof, ReadWouldBlock, YieldEnds,
         ProcessError, ProcessFails, ProcessRequest, peerVars
<1>2. CallersOK'
  BY DEF CallersOK, Pause, Check, Lock, WaitEnds, ReadEof, ReadWouldBlock,
         YieldEnds, ProcessError, ProcessFails, ProcessRequest, Ends, At
<1>3. ChannelsOK'
  BY <1>1 DEF ChannelsOK
<1>4. HistoryOK'
  <2>1. \/ outcome' = outcome
        \/ \E how \in {"ok", "error", "failed"} :
             outcome' = [outcome EXCEPT ![id[c]] = how]
    BY DEF Pause, Check, Lock, WaitEnds, ReadEof, ReadWouldBlock, YieldEnds,
           ProcessError, ProcessFails, ProcessRequest, Ends
  <2> QED
    BY <1>1, <2>1 DEF HistoryOK
<1>5. CallerStates'
  BY TransportAssumption
     DEF CallerStates, CallersOK, Pause, Check, Lock, WaitEnds, ReadEof,
         ReadWouldBlock, YieldEnds, ProcessError, ProcessFails,
         ProcessRequest, Processing, Ends, At
<1>6. ReaderLocked'
  BY TransportAssumption
     DEF ReaderLocked, CallersOK, Pause, Check, Lock, WaitEnds, ReadEof,
         ReadWouldBlock, YieldEnds, ProcessError, ProcessFails,
         ProcessRequest, Processing, Ends, At
<1>7. LinesTruthful'
  BY <1>1 DEF LinesTruthful, Truthful, CallersOK
<1>8. SlotsTruthful'
  BY <1>1 DEF SlotsTruthful
<1>9. OkIsThePeers'
  <2>1. CASE Check(c) /\ slot[id[c]] # None
    <3>1. outcome' = [outcome EXCEPT ![id[c]] = "ok"]
      BY <2>1 DEF Check, Ends
    <3>2. id[c] \in Ids
      BY <2>1, TransportAssumption DEF Check, At, CallerStates, CallersOK
    <3> QED
      BY <1>1, <2>1, <3>1, <3>2 DEF OkIsThePeers, SlotsTruthful, HistoryOK
  <2>2. CASE ~(Check(c) /\ slot[id[c]] # None)
    <3>1. \/ outcome' = outcome
          \/ outcome' = [outcome EXCEPT ![id[c]] = "error"]
          \/ outcome' = [outcome EXCEPT ![id[c]] = "failed"]
      BY <2>2
         DEF Pause, Check, Lock, WaitEnds, ReadEof, ReadWouldBlock,
             YieldEnds, ProcessError, ProcessFails, ProcessRequest, Ends
    <3> QED
      BY <1>1, <3>1 DEF OkIsThePeers, HistoryOK
  <2> QED
    BY <2>1, <2>2
<1>10. RequestsFresh'
  BY <1>1 DEF RequestsFresh
<1> QED
  BY <1>2, <1>3, <1>4, <1>5, <1>6, <1>7, <1>8, <1>9, <1>10

(***************************************************************************)
(* A call begins: its id is fresh, so its request differs from all others. *)
(***************************************************************************)
LEMMA CallStep ==
    ASSUME TransportInv, NEW c \in Callers, Call(c)
    PROVE  TransportInv'
<1> USE DEF TransportInv
<1> DEFINE request == [kind |-> "request", id |-> nextId]
<1>1. request \in Outgoing
  BY DEF Call, Outgoing
<1>2. /\ nextId \in Ids
      /\ nextId \in Nat
      /\ nextId' = nextId + 1
      /\ UNCHANGED <<slot, holder, line, incoming, open, unasked, answered>>
  BY DEF Call, ChannelsOK, peerVars
<1>3. CASE outgoing' = Append(outgoing, request)
  <2>1. /\ Append(outgoing, request) \in Seq(Outgoing)
        /\ Len(Append(outgoing, request)) = Len(outgoing) + 1
        /\ \A k \in 1 .. Len(outgoing) :
             Append(outgoing, request)[k] = outgoing[k]
        /\ Append(outgoing, request)[Len(outgoing) + 1] = request
    BY <1>1, AppendProperties DEF ChannelsOK
  <2>2. Len(outgoing) \in Nat
    BY LenProperties DEF ChannelsOK
  <2>3. answered[nextId] = "none"
    BY <1>2 DEF RequestsFresh
  <2>4. \A k \in 1 .. Len(outgoing') :
          outgoing'[k].kind = "request" =>
            outgoing'[k].id < nextId' /\ answered'[outgoing'[k].id] = "none"
    <3> SUFFICES ASSUME NEW k \in 1 .. Len(outgoing'),
                        outgoing'[k].kind = "request"
                 PROVE  /\ outgoing'[k].id < nextId'
                        /\ answered'[outgoing'[k].id] = "none"
      OBVIOUS
    <3>1. CASE k = Len(outgoing) + 1
      BY <1>2, <1>3, <2>1, <2>3, <3>1
    <3>2. CASE k \in 1 .. Len(outgoing)
      <4>1. outgoing'[k] = outgoing[k]
        BY <1>3, <2>1, <3>2
      <4>2. /\ outgoing[k].id < nextId
            /\ answered[outgoing[k].id] = "none"
        BY <3>2, <4>1 DEF RequestsFresh
      <4>3. outgoing[k] \in Outgoing
        BY <3>2, ElementOfSeq DEF ChannelsOK
      <4>4. outgoing[k].id \in Nat
        BY <4>1, <4>3 DEF Outgoing, Ids
      <4> QED
        BY <1>2, <4>1, <4>2, <4>4
    <3> QED
      BY <1>3, <2>1, <2>2, <3>1, <3>2
  <2>5. \A k, l \in 1 .. Len(outgoing') :
          /\ outgoing'[k].kind = "request"
          /\ outgoing'[l].kind = "request"
          /\ outgoing'[k].id = outgoing'[l].id
          => k = l
    <3>1. \A k \in 1 .. Len(outgoing) :
            outgoing[k].kind = "request" => outgoing[k].id # nextId
      <4> TAKE k \in 1 .. Len(outgoing)
      <4> HAVE outgoing[k].kind = "request"
      <4>1. outgoing[k].id < nextId
        BY DEF RequestsFresh
      <4> QED
        BY <1>2, <4>1
    <3> QED
      BY <1>3, <2>1, <2>2, <3>1 DEF RequestsFresh
  <2>6. RequestsFresh'
    BY <1>2, <2>4, <2>5 DEF RequestsFresh, Ids
  <2>7. ChannelsOK'
    BY <1>2, <1>3, <2>1 DEF ChannelsOK, Call
  <2>8. CallersOK' /\ HistoryOK'
    BY <1>2 DEF CallersOK, HistoryOK, Call
  <2>9. CallerStates' /\ ReaderLocked'
    BY <1>2, TransportAssumption, SMTT(30)
       DEF CallersOK, CallerStates, ReaderLocked, Call, Ids
  <2>10. LinesTruthful' /\ SlotsTruthful'
    BY <1>2 DEF LinesTruthful, SlotsTruthful, Truthful
  <2>11. OkIsThePeers'
    BY <1>2 DEF OkIsThePeers, HistoryOK, Call
  <2> QED
    BY <2>6, <2>7, <2>8, <2>9, <2>10, <2>11
<1>4. CASE ~(outgoing' = Append(outgoing, request))
  <2>1. /\ outcome' = [outcome EXCEPT ![nextId] = "failed"]
        /\ UNCHANGED <<outgoing, id, pc>>
    BY <1>4 DEF Call
  <2>2. CallersOK' /\ ChannelsOK' /\ HistoryOK'
    BY <1>2, <2>1 DEF CallersOK, ChannelsOK, HistoryOK, Call
  <2>3. CallerStates' /\ ReaderLocked'
    BY <1>2, <2>1 DEF CallerStates, ReaderLocked
  <2>4. LinesTruthful' /\ SlotsTruthful' /\ OkIsThePeers'
    BY <1>2, <2>1
       DEF LinesTruthful, SlotsTruthful, Truthful, OkIsThePeers, HistoryOK
  <2>5. RequestsFresh'
    <3>1. \A k \in 1 .. Len(outgoing) :
            outgoing[k].kind = "request" => outgoing[k].id \in Nat
      BY ElementOfSeq DEF ChannelsOK, Outgoing, Ids
    <3> QED
      BY <1>2, <2>1, <3>1 DEF RequestsFresh, Ids
  <2> QED
    BY <2>2, <2>3, <2>4, <2>5
<1> QED
  BY <1>3, <1>4

(***************************************************************************)
(* Reading a line, delivering a response, replying to the peer.            *)
(***************************************************************************)
LEMMA ReadLineStep ==
    ASSUME TransportInv, NEW c \in Callers, ReadLine(c)
    PROVE  TransportInv'
<1> USE DEF TransportInv
<1>1. /\ Head(incoming) \in Incoming
      /\ Tail(incoming) \in Seq(Incoming)
      /\ Len(Tail(incoming)) = Len(incoming) - 1
      /\ \A k \in 1 .. Len(Tail(incoming)) :
           Tail(incoming)[k] = incoming[k + 1]
  BY HeadTailProperties DEF ReadLine, ChannelsOK
<1>2. Head(incoming) = incoming[1] /\ Len(incoming) \in Nat \ {0}
  BY EmptySeq, LenProperties DEF ReadLine, ChannelsOK
<1>3. None \notin Incoming
  BY TransportAssumption DEF Incoming
<1>4. CallersOK' /\ ChannelsOK' /\ HistoryOK'
  BY <1>1 DEF CallersOK, ChannelsOK, HistoryOK, ReadLine
<1>5. CallerStates'
  BY <1>1, <1>3 DEF CallerStates, CallersOK, ReadLine, At
<1>6. ReaderLocked'
  BY TransportAssumption DEF ReaderLocked, CallersOK, ReadLine, At
<1>7. LinesTruthful'
  <2>1. Truthful(Head(incoming))
    BY <1>2 DEF LinesTruthful
  <2>2. \A k \in 1 .. Len(Tail(incoming)) : Truthful(Tail(incoming)[k])
    BY <1>1, <1>2 DEF LinesTruthful
  <2> QED
    BY <2>1, <2>2 DEF LinesTruthful, Truthful, CallersOK, ReadLine
<1>8. SlotsTruthful' /\ OkIsThePeers' /\ RequestsFresh'
  BY DEF SlotsTruthful, OkIsThePeers, RequestsFresh, ReadLine
<1> QED
  BY <1>4, <1>5, <1>6, <1>7, <1>8

LEMMA ResponseStep ==
    ASSUME TransportInv, NEW c \in Callers, ProcessResponse(c)
    PROVE  TransportInv'
<1> USE DEF TransportInv
<1>1. /\ line[c] # None
      /\ line[c] \in Incoming
      /\ line[c].kind = "response"
  BY DEF ProcessResponse, Processing, At, CallerStates, CallersOK
<1>2. line[c].id \in Ids /\ line[c].result \in Ids
  BY <1>1 DEF Incoming
<1>3. line[c].result = line[c].id /\ answered[line[c].id] = "ok"
  BY <1>1 DEF LinesTruthful, Truthful
<1>4. CallersOK' /\ ChannelsOK' /\ HistoryOK'
  BY <1>2
     DEF CallersOK, ChannelsOK, HistoryOK, ProcessResponse, Forget, peerVars
<1>5. CallerStates' /\ ReaderLocked'
  BY DEF CallerStates, ReaderLocked, CallersOK, ProcessResponse, Processing,
         At
<1>6. LinesTruthful'
  BY DEF LinesTruthful, Truthful, CallersOK, ProcessResponse, peerVars
<1>7. SlotsTruthful'
  BY <1>2, <1>3
     DEF SlotsTruthful, ChannelsOK, ProcessResponse, Receiver, peerVars
<1>8. OkIsThePeers' /\ RequestsFresh'
  BY DEF OkIsThePeers, RequestsFresh, ProcessResponse, peerVars
<1> QED
  BY <1>4, <1>5, <1>6, <1>7, <1>8

LEMMA HandlerStep ==
    ASSUME TransportInv, NEW c \in Callers, HandlerDone(c)
    PROVE  TransportInv'
<1> USE DEF TransportInv
<1>1. /\ line[c] # None
      /\ line[c] \in Incoming
      /\ line[c].kind = "request"
  BY DEF HandlerDone, CallerStates, CallersOK
<1>2. line[c].id \in PeerRequests
  BY <1>1 DEF Incoming
<1>3. Reply(c) \in Outgoing /\ Reply(c).kind = "reply"
  BY <1>2 DEF Reply, Outgoing
<1>4. /\ Append(outgoing, Reply(c)) \in Seq(Outgoing)
      /\ Len(Append(outgoing, Reply(c))) = Len(outgoing) + 1
      /\ \A k \in 1 .. Len(outgoing) :
           Append(outgoing, Reply(c))[k] = outgoing[k]
      /\ Append(outgoing, Reply(c))[Len(outgoing) + 1] = Reply(c)
  BY <1>3, AppendProperties DEF ChannelsOK
<1>5. /\ UNCHANGED <<nextId, pending, slot, holder, incoming, open, unasked,
                     answered>>
      /\ outgoing' \in {outgoing, Append(outgoing, Reply(c))}
  BY DEF HandlerDone, peerVars
<1>6. CallersOK' /\ ChannelsOK' /\ HistoryOK'
  BY <1>4, <1>5 DEF CallersOK, ChannelsOK, HistoryOK, HandlerDone, Ends
<1>7. CallerStates'
  BY TransportAssumption DEF CallerStates, CallersOK, HandlerDone, Ends
<1>8. ReaderLocked'
  BY DEF ReaderLocked, CallersOK, HandlerDone, Ends
<1>9. LinesTruthful' /\ SlotsTruthful'
  BY <1>5 DEF LinesTruthful, SlotsTruthful, Truthful, CallersOK, HandlerDone
<1>10. OkIsThePeers'
  BY <1>5 DEF OkIsThePeers, HistoryOK, HandlerDone, Ends
<1>11. RequestsFresh'
  <2>1. CASE outgoing' = outgoing
    BY <1>5, <2>1 DEF RequestsFresh
  <2>2. CASE outgoing' = Append(outgoing, Reply(c))
    <3>1. Len(outgoing) \in Nat
      BY LenProperties DEF ChannelsOK
    <3>2. \A k \in 1 .. Len(outgoing') :
            outgoing'[k].kind = "request" =>
              k \in 1 .. Len(outgoing) /\ outgoing'[k] = outgoing[k]
      BY <1>3, <1>4, <2>2, <3>1
    <3> QED
      BY <1>5, <3>2 DEF RequestsFresh
  <2> QED
    BY <1>5, <2>1, <2>2
<1> QED
  BY <1>6, <1>7, <1>8, <1>9, <1>10, <1>11

(***************************************************************************)
(* The peer.                                                               *)
(***************************************************************************)
LEMMA PeerStep ==
    ASSUME TransportInv, Peer
    PROVE  TransportInv'
<1> USE DEF TransportInv
<1>1. UNCHANGED <<nextId, pending, slot, holder, running, pc, id, line,
                  outcome>>
  BY DEF Peer, PeerReads, PeerAnswers, PeerTakesReply, PeerAsks, PeerBabbles,
         PeerCloses, callerVars
<1>2. CallersOK' /\ CallerStates' /\ ReaderLocked'
  BY <1>1 DEF CallersOK, CallerStates, ReaderLocked
<1>3. ASSUME PeerReads
      PROVE  TransportInv'
  <2>1. /\ Head(outgoing) \in Outgoing
        /\ outgoing' \in Seq(Outgoing)
        /\ Len(outgoing') = Len(outgoing) - 1
        /\ \A k \in 1 .. Len(outgoing') : outgoing'[k] = outgoing[k + 1]
    <3>1. outgoing # <<>> /\ outgoing' = Tail(outgoing)
      BY <1>3 DEF PeerReads, PeerAnswers, PeerTakesReply, PeerTakes
    <3>2. outgoing \in Seq(Outgoing)
      BY DEF ChannelsOK
    <3> QED
      BY <3>1, <3>2, HeadTailProperties
  <2>2. Head(outgoing) = outgoing[1] /\ Len(outgoing) \in Nat \ {0}
    BY <1>3, EmptySeq, LenProperties
       DEF PeerReads, PeerAnswers, PeerTakesReply, PeerTakes, ChannelsOK
  <2>3. \A k, l \in 1 .. Len(outgoing') :
          /\ outgoing'[k].kind = "request"
          /\ outgoing'[l].kind = "request"
          /\ outgoing'[k].id = outgoing'[l].id
          => k = l
    <3> SUFFICES ASSUME NEW k \in 1 .. Len(outgoing'),
                        NEW l \in 1 .. Len(outgoing'),
                        outgoing'[k].kind = "request",
                        outgoing'[l].kind = "request",
                        outgoing'[k].id = outgoing'[l].id
                 PROVE  k = l
      OBVIOUS
    <3>1. k + 1 \in 1 .. Len(outgoing) /\ l + 1 \in 1 .. Len(outgoing)
      BY <2>1, <2>2
    <3>2. outgoing'[k] = outgoing[k + 1] /\ outgoing'[l] = outgoing[l + 1]
      BY <2>1
    <3>3. k + 1 = l + 1
      BY <3>1, <3>2 DEF RequestsFresh
    <3> QED
      BY <3>3
  <2>4. CASE PeerTakesReply
    <3>1. UNCHANGED <<incoming, open, unasked, answered>>
      BY <2>4 DEF PeerTakesReply, peerVars
    <3>2. ChannelsOK' /\ HistoryOK'
      BY <1>1, <2>1, <3>1 DEF ChannelsOK, HistoryOK
    <3>3. LinesTruthful' /\ SlotsTruthful' /\ OkIsThePeers'
      BY <1>1, <3>1 DEF LinesTruthful, SlotsTruthful, OkIsThePeers, Truthful
    <3>4. RequestsFresh'
      BY <1>1, <2>1, <2>2, <2>3, <3>1 DEF RequestsFresh
    <3> QED
      BY <1>2, <3>2, <3>3, <3>4
  <2>5. CASE PeerAnswers
    <3> DEFINE i == Head(outgoing).id
    <3>1. i \in Ids /\ i < nextId /\ answered[i] = "none"
      <4>1. Head(outgoing) = outgoing[1] /\ 1 \in 1 .. Len(outgoing)
        BY <2>2
      <4>2. Head(outgoing).kind = "request"
        BY <2>5 DEF PeerAnswers
      <4>3. i \in Ids
        BY <2>1, <4>2 DEF Outgoing
      <4> QED
        BY <4>1, <4>2, <4>3 DEF RequestsFresh
    <3>2. PICK m \in Incoming, a \in {"ok", "error"} :
            /\ incoming' = Append(incoming, m)
            /\ answered' = [answered EXCEPT ![i] = a]
            /\ m.kind = "response" => m.id = i /\ m.result = i /\ a = "ok"
      <4>1. CASE /\ incoming' = Append(incoming,
                        [kind |-> "response", id |-> i, result |-> i])
                 /\ answered' = [answered EXCEPT ![i] = "ok"]
        <5>1. [kind |-> "response", id |-> i, result |-> i] \in Incoming
          BY <3>1 DEF Incoming
        <5> QED
          BY <4>1, <5>1
      <4>2. CASE /\ incoming' = Append(incoming, [kind |-> "error", id |-> i])
                 /\ answered' = [answered EXCEPT ![i] = "error"]
        <5>1. [kind |-> "error", id |-> i] \in Incoming
          BY <3>1 DEF Incoming
        <5> QED
          BY <4>2, <5>1
      <4> QED
        BY <2>5, <4>1, <4>2 DEF PeerAnswers
    <3>3. /\ incoming' \in Seq(Incoming)
          /\ Len(incoming') = Len(incoming) + 1
          /\ \A k \in 1 .. Len(incoming) : incoming'[k] = incoming[k]
          /\ incoming'[Len(incoming) + 1] = m
          /\ Len(incoming) \in Nat
      BY <3>2, AppendProperties, LenProperties DEF ChannelsOK
    <3>4. UNCHANGED <<open, unasked>>
      BY <2>5 DEF PeerAnswers
    <3>5. ChannelsOK' /\ HistoryOK'
      BY <1>1, <2>1, <3>2, <3>3, <3>4 DEF ChannelsOK, HistoryOK
    <3>6. \A j \in Ids : answered[j] # "none" => answered'[j] = answered[j]
      BY <3>1, <3>2 DEF HistoryOK
    <3>7. answered'[i] = a
      BY <3>1, <3>2 DEF HistoryOK
    <3>8. \A x \in Incoming : Truthful(x) => Truthful(x)'
      <4> SUFFICES ASSUME NEW x \in Incoming, Truthful(x),
                          x.kind = "response"
                   PROVE  x.result = x.id /\ answered'[x.id] = "ok"
        BY DEF Truthful
      <4>1. x.id \in Ids
        BY DEF Incoming
      <4> QED
        BY <3>6, <4>1 DEF Truthful
    <3>9. LinesTruthful'
      <4>1. \A k \in 1 .. Len(incoming) : Truthful(incoming[k])'
        BY <3>3, <3>8, ElementOfSeq DEF LinesTruthful, ChannelsOK, Truthful
      <4>2. m.kind = "response" => m.result = m.id /\ answered'[m.id] = "ok"
        BY <3>2, <3>7
      <4>3. \A k \in 1 .. Len(incoming') :
              incoming'[k].kind = "response" =>
                /\ incoming'[k].result = incoming'[k].id
                /\ answered'[incoming'[k].id] = "ok"
        BY <3>3, <4>1, <4>2 DEF Truthful
      <4>4. \A c \in Callers : line'[c] # None => Truthful(line[c])'
        BY <1>1, <3>8 DEF LinesTruthful, CallersOK, Truthful
      <4> QED
        BY <4>3, <4>4 DEF LinesTruthful, Truthful
    <3>10. SlotsTruthful' /\ OkIsThePeers'
      BY <1>1, <3>6 DEF SlotsTruthful, OkIsThePeers
    <3>11. RequestsFresh'
      <4>1. \A k \in 1 .. Len(outgoing') :
              outgoing'[k].kind = "request" =>
                /\ outgoing'[k].id < nextId'
                /\ answered'[outgoing'[k].id] = "none"
        <5> SUFFICES ASSUME NEW k \in 1 .. Len(outgoing'),
                            outgoing'[k].kind = "request"
                     PROVE  /\ outgoing'[k].id < nextId'
                            /\ answered'[outgoing'[k].id] = "none"
          OBVIOUS
        <5>1. k + 1 \in 1 .. Len(outgoing) /\ 1 \in 1 .. Len(outgoing)
          BY <2>1, <2>2
        <5>2. outgoing'[k] = outgoing[k + 1]
          BY <2>1
        <5>3. outgoing[k + 1].id # i
          BY <2>2, <2>5, <5>1, <5>2 DEF RequestsFresh, PeerAnswers
        <5>4. /\ outgoing[k + 1].id < nextId
              /\ answered[outgoing[k + 1].id] = "none"
          BY <5>1, <5>2 DEF RequestsFresh
        <5> QED
          BY <1>1, <3>2, <5>2, <5>3, <5>4 DEF HistoryOK
      <4>2. \A j \in Ids : answered'[j] # "none" => j < nextId'
        BY <1>1, <3>1, <3>2 DEF RequestsFresh, HistoryOK
      <4> QED
        BY <2>3, <4>1, <4>2 DEF RequestsFresh
    <3> QED
      BY <1>2, <3>5, <3>9, <3>10, <3>11
  <2> QED
    BY <1>3, <2>4, <2>5 DEF PeerReads
<1>4. ASSUME (\E r \in PeerRequests : PeerAsks(r)) \/ PeerBabbles
      PROVE  TransportInv'
  <2>1. PICK m \in Incoming : /\ incoming' = Append(incoming, m)
                              /\ m.kind # "response"
    <3>1. CASE PeerBabbles
      <4> [kind |-> "garbage"] \in Incoming
        BY DEF Incoming
      <4> WITNESS [kind |-> "garbage"] \in Incoming
      <4> QED
        BY <3>1 DEF PeerBabbles
    <3>2. ASSUME NEW r \in PeerRequests, PeerAsks(r)
          PROVE  \E m \in Incoming : /\ incoming' = Append(incoming, m)
                                     /\ m.kind # "response"
      <4> [kind |-> "request", id |-> r] \in Incoming
        BY DEF Incoming
      <4> WITNESS [kind |-> "request", id |-> r] \in Incoming
      <4> QED
        BY <3>2 DEF PeerAsks
    <3> QED
      BY <1>4, <3>1, <3>2
  <2>2. /\ incoming' \in Seq(Incoming)
        /\ Len(incoming') = Len(incoming) + 1
        /\ \A k \in 1 .. Len(incoming) : incoming'[k] = incoming[k]
        /\ incoming'[Len(incoming) + 1] = m
        /\ Len(incoming) \in Nat
    BY <2>1, AppendProperties, LenProperties DEF ChannelsOK
  <2>3. UNCHANGED <<outgoing, open, answered>> /\ unasked' \subseteq unasked
    BY <1>4 DEF PeerAsks, PeerBabbles
  <2>4. ChannelsOK' /\ HistoryOK'
    BY <1>1, <2>2, <2>3 DEF ChannelsOK, HistoryOK
  <2>5. LinesTruthful'
    BY <1>1, <2>1, <2>2, <2>3 DEF LinesTruthful, Truthful
  <2>6. SlotsTruthful' /\ OkIsThePeers' /\ RequestsFresh'
    BY <1>1, <2>3 DEF SlotsTruthful, OkIsThePeers, RequestsFresh
  <2> QED
    BY <1>2, <2>4, <2>5, <2>6
<1>5. ASSUME PeerCloses
      PROVE  TransportInv'
  <2>1. /\ UNCHANGED <<outgoing, incoming, unasked, answered>>
        /\ open' \in BOOLEAN
    BY <1>5 DEF PeerCloses
  <2> QED
    BY <1>1, <1>2, <2>1
       DEF ChannelsOK, HistoryOK, LinesTruthful, Truthful, SlotsTruthful,
           OkIsThePeers, RequestsFresh
<1> QED
  BY <1>3, <1>4, <1>5 DEF Peer

LEMMA StepTransportInv == TransportInv /\ [Next]_vars => TransportInv'
<1> SUFFICES ASSUME TransportInv, [Next]_vars
             PROVE  TransportInv'
  OBVIOUS
<1>1. ASSUME NEW c \in Callers, Caller(c)
      PROVE  TransportInv'
  BY <1>1, QuietStep, CallStep, ReadLineStep, ResponseStep, HandlerStep
     DEF Caller, Step
<1>2. CASE Peer
  BY <1>2, PeerStep
<1>3. CASE UNCHANGED vars
  BY <1>3
     DEF vars, callerVars, peerVars, TransportInv, CallersOK, ChannelsOK,
         HistoryOK, CallerStates, ReaderLocked, LinesTruthful, Truthful,
         SlotsTruthful, OkIsThePeers, RequestsFresh
<1> QED
  BY <1>1, <1>2, <1>3 DEF Next

(***************************************************************************)
(* The theorems.                                                           *)
(***************************************************************************)

\* The state of the transport and of its peer keep their types.
THEOREM TransportTyped == Spec => []TypeOK
<1>1. TransportInv => TypeOK
  BY DEF TransportInv, TypeOK
<1> QED
  BY <1>1, InitTransportInv, StepTransportInv, PTL DEF Spec

\* Whatever fails, the result a call is given was computed from its own
\* request: process_message looks the sender up by the id of the response.
THEOREM TransportOwnResult == Spec => []OwnResult
<1>1. TransportInv => OwnResult
  BY DEF TransportInv, SlotsTruthful, ChannelsOK, OwnResult
<1> QED
  BY <1>1, InitTransportInv, StepTransportInv, PTL DEF Spec

\* Whatever fails, a call returns Ok only when the peer answered it with Ok.
THEOREM TransportOkIsThePeers == Spec => []OkIsThePeers
<1>1. TransportInv => OkIsThePeers
  BY DEF TransportInv
<1> QED
  BY <1>1, InitTransportInv, StepTransportInv, PTL DEF Spec

\* Exactly the caller that reads or sleeps over the reader holds its lock, so
\* that no two callers read lines at the same time.
THEOREM TransportReaderLocked == Spec => []ReaderLocked
<1>1. TransportInv => ReaderLocked
  BY DEF TransportInv
<1> QED
  BY <1>1, InitTransportInv, StepTransportInv, PTL DEF Spec

-----------------------------------------------------------------------------
(***************************************************************************)
(* Calls and their senders.  No two callers are in the same call, a call   *)
(* ends once, and a sender that is left behind in pending is that of a     *)
(* call that failed.                                                       *)
(***************************************************************************)
CallsDiffer ==
    /\ \A c \in Callers : id[c] # None =>
         id[c] < nextId /\ outcome[id[c]] = "none"
    /\ \A c, d \in Callers : id[c] # None /\ id[c] = id[d] => c = d
    /\ \A i \in Ids : outcome[i] # "none" => i < nextId

SendersWait ==
    \A i \in pending : /\ i < nextId
                       /\ slot[i] = None
                       /\ Live(i) \/ outcome[i] \in {"error", "failed"}

CallsInv == CallsDiffer /\ SendersWait

LEMMA InitCallsInv == Init => CallsInv
BY DEF Init, CallsInv, CallsDiffer, SendersWait

LEMMA QuietCalls ==
    ASSUME CallsInv, UNCHANGED <<nextId, pending, slot, id, outcome>>
    PROVE  CallsInv'
BY DEF CallsInv, CallsDiffer, SendersWait, Live

\* The ways in which a call ends.
LEMMA EndingCalls ==
    ASSUME TransportInv, CallsInv, NEW c \in Callers, pc[c] # "idle",
           NEW how \in {"ok", "error", "failed"}, Ends(c, how),
           how = "ok" => slot[id[c]] # None,
           UNCHANGED <<nextId, pending, slot>>
    PROVE  CallsInv'
<1>1. /\ id[c] \in Ids /\ id[c] # None
      /\ id' = [id EXCEPT ![c] = None]
      /\ outcome' = [outcome EXCEPT ![id[c]] = how]
      /\ id \in [Callers -> Ids \cup {None}]
      /\ outcome \in [Ids -> {"none", "ok", "error", "failed"}]
  BY DEF TransportInv, CallerStates, CallersOK, HistoryOK, Ends
<1>2. /\ outcome'[id[c]] = how
      /\ \A i \in Ids : i # id[c] => outcome'[i] = outcome[i]
      /\ id'[c] = None
      /\ \A d \in Callers : d # c => id'[d] = id[d]
  BY <1>1
<1>3. CallsDiffer'
  BY <1>1, <1>2 DEF CallsInv, CallsDiffer
<1>4. SendersWait'
  <2> SUFFICES ASSUME NEW i \in pending
               PROVE  Live(i)' \/ outcome'[i] \in {"error", "failed"}
    BY DEF CallsInv, SendersWait
  <2>1. i \in Ids
    BY DEF TransportInv, ChannelsOK
  <2>2. CASE i = id[c]
    BY <1>2, <2>2 DEF CallsInv, SendersWait
  <2>3. CASE i # id[c]
    <3>1. CASE outcome[i] \in {"error", "failed"}
      BY <1>2, <2>1, <2>3, <3>1
    <3>2. ASSUME NEW d \in Callers, id[d] = i
          PROVE  Live(i)'
      <4>1. id'[d] = i
        BY <1>2, <2>3, <3>2
      <4> QED
        BY <4>1 DEF Live
    <3> QED
      BY <3>1, <3>2 DEF CallsInv, SendersWait, Live
  <2> QED
    BY <2>2, <2>3
<1> QED
  BY <1>3, <1>4 DEF CallsInv

LEMMA BeginningCalls ==
    ASSUME TransportInv, CallsInv, NEW c \in Callers, Call(c)
    PROVE  CallsInv'
<1>1. /\ nextId \in Ids /\ nextId \in Nat /\ nextId' = nextId + 1
      /\ pending' = pending \cup {nextId} /\ slot' = slot
      /\ id[c] = None /\ nextId # None
      /\ id \in [Callers -> Ids \cup {None}]
      /\ outcome \in [Ids -> {"none", "ok", "error", "failed"}]
      /\ pending \subseteq Ids
      /\ Ids \subseteq Nat
  BY TransportAssumption
     DEF Call, TransportInv, CallerStates, CallersOK, ChannelsOK, HistoryOK, Ids
<1>2. slot[nextId] = None
  BY <1>1 DEF TransportInv, SlotsTruthful, RequestsFresh
<1>3. outcome[nextId] = "none"
  BY <1>1 DEF CallsInv, CallsDiffer
<1>4. /\ \A i \in Ids : i < nextId => i < nextId' /\ i # nextId
      /\ nextId < nextId'
  <2> SUFFICES ASSUME NEW i \in Ids, i < nextId
               PROVE  i < nextId + 1 /\ i # nextId
    BY <1>1
  <2>1. i \in Nat
    BY <1>1
  <2> QED
    BY <1>1, <2>1
<1>5. CASE /\ id' = [id EXCEPT ![c] = nextId]
           /\ outcome' = outcome
  <2>1. id'[c] = nextId /\ \A d \in Callers : d # c => id'[d] = id[d]
    BY <1>1, <1>5
  <2>2. \A d \in Callers : id[d] # None =>
           id[d] \in Ids /\ id[d] < nextId /\ id[d] # nextId
    BY <1>1, <1>4 DEF CallsInv, CallsDiffer
  <2>3. ASSUME NEW d \in Callers, id'[d] # None
        PROVE  id'[d] < nextId' /\ outcome'[id'[d]] = "none"
    <3>1. CASE d = c
      BY <1>3, <1>4, <1>5, <2>1, <3>1
    <3>2. CASE d # c
      BY <1>4, <1>5, <2>1, <2>2, <2>3, <3>2 DEF CallsInv, CallsDiffer
    <3> QED
      BY <3>1, <3>2
  <2>4. ASSUME NEW d \in Callers, NEW e \in Callers,
               id'[d] # None, id'[d] = id'[e]
        PROVE  d = e
    <3>1. CASE d # c /\ e # c
      BY <2>1, <2>4, <3>1 DEF CallsInv, CallsDiffer
    <3>2. CASE d = c /\ e # c
      BY <1>1, <2>1, <2>2, <2>4, <3>2
    <3>3. CASE d # c /\ e = c
      BY <1>1, <2>1, <2>2, <2>4, <3>3
    <3> QED
      BY <3>1, <3>2, <3>3
  <2>5. \A i \in Ids : outcome'[i] # "none" => i < nextId'
    BY <1>4, <1>5 DEF CallsInv, CallsDiffer
  <2>6. CallsDiffer'
    BY <2>3, <2>4, <2>5 DEF CallsDiffer
  <2>7. \A i \in Ids : Live(i) => Live(i)'
    <3> SUFFICES ASSUME NEW i \in Ids, NEW d \in Callers, id[d] = i
                 PROVE  id'[d] = i
      BY DEF Live
    <3>1. d # c
      BY <1>1, TransportAssumption
    <3> QED
      BY <2>1, <3>1
  <2>8. \A i \in {nextId} : Live(i)'
    BY <2>1 DEF Live
  <2>9. SendersWait'
    <3> SUFFICES ASSUME NEW i \in pending'
                 PROVE  /\ i < nextId' /\ slot[i] = None
                        /\ Live(i)' \/ outcome[i] \in {"error", "failed"}
      BY <1>1, <1>5 DEF SendersWait
    <3>1. CASE i = nextId
      BY <1>1, <1>2, <1>4, <2>8, <3>1
    <3>2. CASE i \in pending
      BY <1>1, <1>4, <2>7, <3>2 DEF CallsInv, SendersWait
    <3> QED
      BY <1>1, <3>1, <3>2
  <2> QED
    BY <2>6, <2>9 DEF CallsInv
<1>6. CASE /\ outcome' = [outcome EXCEPT ![nextId] = "failed"]
           /\ id' = id
  <2>1. /\ outcome'[nextId] = "failed"
        /\ \A i \in Ids : i # nextId => outcome'[i] = outcome[i]
    BY <1>1, <1>6
  <2>2. \A d \in Callers : id[d] # None =>
           id[d] \in Ids /\ id[d] < nextId /\ id[d] # nextId
    BY <1>1, <1>4 DEF CallsInv, CallsDiffer
  <2>3. CallsDiffer'
    BY <1>4, <1>6, <2>1, <2>2 DEF CallsInv, CallsDiffer
  <2>4. SendersWait'
    <3> SUFFICES ASSUME NEW i \in pending'
                 PROVE  /\ i < nextId' /\ slot[i] = None
                        /\ Live(i) \/ outcome'[i] \in {"error", "failed"}
      BY <1>1, <1>6 DEF SendersWait, Live
    <3>1. CASE i = nextId
      BY <1>1, <1>2, <1>4, <2>1, <3>1
    <3>2. CASE i \in pending
      BY <1>1, <1>4, <2>1, <3>2 DEF CallsInv, SendersWait
    <3> QED
      BY <1>1, <3>1, <3>2
  <2> QED
    BY <2>3, <2>4 DEF CallsInv
<1> QED
  BY <1>5, <1>6 DEF Call

LEMMA DeliveringCalls ==
    ASSUME TransportInv, CallsInv, NEW c \in Callers, ProcessResponse(c)
    PROVE  CallsInv'
<1>1. /\ UNCHANGED <<nextId, id, outcome>>
      /\ pending' = pending \ Receiver(line[c])
      /\ \A i \in Ids : i \notin Receiver(line[c]) => slot'[i] = slot[i]
      /\ pending \subseteq Ids
  BY DEF ProcessResponse, Forget, TransportInv, ChannelsOK
<1> QED
  BY <1>1 DEF CallsInv, CallsDiffer, SendersWait, Live

LEMMA StepCallsInv ==
    ASSUME TransportInv, CallsInv, [Next]_vars
    PROVE  CallsInv'
<1>1. ASSUME NEW c \in Callers, Caller(c)
      PROVE  CallsInv'
  <2>1. CASE \/ Pause(c) \/ Lock(c) \/ WaitEnds(c) \/ ReadLine(c)
             \/ ReadWouldBlock(c) \/ YieldEnds(c) \/ ProcessRequest(c)
    BY <2>1, QuietCalls
       DEF Pause, Lock, WaitEnds, ReadLine, ReadWouldBlock, YieldEnds,
           ProcessRequest
  <2>2. CASE Call(c)
    BY <2>2, BeginningCalls
  <2>3. CASE Check(c)
    <3>1. CASE slot[id[c]] # None
      <4>1. Ends(c, "ok") /\ pc[c] # "idle" /\ UNCHANGED <<nextId, pending, slot>>
        BY <2>3, <3>1 DEF Check, At
      <4> QED
        BY <3>1, <4>1, EndingCalls
    <3>2. CASE slot[id[c]] = None
      BY <2>3, <3>2, QuietCalls DEF Check
    <3> QED
      BY <3>1, <3>2
  <2>4. CASE ReadEof(c)
    <3>1. Ends(c, "failed") /\ pc[c] # "idle" /\ UNCHANGED <<nextId, pending, slot>>
      BY <2>4 DEF ReadEof, At
    <3> QED
      BY <3>1, EndingCalls
  <2>5. CASE ProcessError(c)
    <3>1. Ends(c, "error") /\ pc[c] # "idle" /\ UNCHANGED <<nextId, pending, slot>>
      BY <2>5 DEF ProcessError, Processing, At
    <3> QED
      BY <3>1, EndingCalls
  <2>6. CASE ProcessFails(c)
    <3>1. Ends(c, "failed") /\ pc[c] # "idle" /\ UNCHANGED <<nextId, pending, slot>>
      BY <2>6 DEF ProcessFails, Processing, At
    <3> QED
      BY <3>1, EndingCalls
  <2>7. CASE HandlerDone(c)
    <3>1. pc[c] # "idle" /\ UNCHANGED <<nextId, pending, slot>>
      BY <2>7 DEF HandlerDone
    <3>2. Ends(c, "failed") \/ UNCHANGED <<id, outcome>>
      BY <2>7 DEF HandlerDone
    <3> QED
      BY <3>1, <3>2, EndingCalls, QuietCalls
  <2>8. CASE ProcessResponse(c)
    BY <2>8, DeliveringCalls
  <2> QED
    BY <1>1, <2>1, <2>2, <2>3, <2>4, <2>5, <2>6, <2>7, <2>8 DEF Caller, Step
<1>2. CASE Peer
  BY <1>2, QuietCalls
     DEF Peer, PeerReads, PeerAnswers, PeerTakesReply, PeerAsks, PeerBabbles,
         PeerCloses, callerVars
<1>3. CASE UNCHANGED vars
  BY <1>3, QuietCalls DEF vars, callerVars
<1> QED
  BY <1>1, <1>2, <1>3 DEF Next

\* As long as no call fails, every sender in the map is that of a call that
\* goes on: nothing leaks (process_message removes it with the response).
THEOREM TransportNothingLeftPending == Spec => []NothingLeftPending
<1>1. TransportInv /\ CallsInv => NothingLeftPending
  BY DEF CallsInv, SendersWait, NothingLeftPending, Ended, TransportInv,
         ChannelsOK
<1> QED
  BY <1>1, InitTransportInv, StepTransportInv, InitCallsInv, StepCallsInv, PTL
     DEF Spec

-----------------------------------------------------------------------------
(***************************************************************************)
(* Errors.  Every error the peer answered with is on its way, in the hands *)
(* of one caller, or was returned by one call.                             *)
(***************************************************************************)
ErrorLines == [kind : {"error"}, id : Ids]

InHand == {c \in Callers : line[c] \in ErrorLines}

ErrorsCounted ==
    /\ IsFiniteSet(InHand)
    /\ Cardinality(Ended("error")) + Cardinality(Places(incoming, ErrorLines))
         + Cardinality(InHand) = Cardinality(Answered("error"))

LEMMA ErrorLinesAre ==
    /\ \A m \in Incoming : m \in ErrorLines <=> m.kind = "error"
    /\ None \notin ErrorLines
BY TransportAssumption DEF Incoming, ErrorLines

LEMMA IdsFinite ==
    ASSUME NEW S, S \subseteq Ids
    PROVE  IsFiniteSet(S) /\ Cardinality(S) \in Nat
<1>1. MaxCalls - 1 \in Int /\ 0 \in Int
  BY TransportAssumption
<1>2. IsFiniteSet(Ids)
  BY <1>1, FS_Interval, Zenon DEF Ids
<1>3. S \in SUBSET Ids
  OBVIOUS
<1>4. IsFiniteSet(S)
  BY <1>2, <1>3, FS_Subset
<1> QED
  BY <1>4, FS_CardinalityType

LEMMA CountsAreNumbers ==
    ASSUME TransportInv, ErrorsCounted
    PROVE  /\ IsFiniteSet(Ended("error")) /\ Cardinality(Ended("error")) \in Nat
           /\ IsFiniteSet(Answered("error"))
           /\ Cardinality(Answered("error")) \in Nat
           /\ Cardinality(Places(incoming, ErrorLines)) \in Nat
           /\ Cardinality(InHand) \in Nat
<1>1. Ended("error") \subseteq Ids /\ Answered("error") \subseteq Ids
  BY DEF Ended, Answered
<1>2. incoming \in Seq(Incoming)
  BY DEF TransportInv, ChannelsOK
<1>3. Cardinality(Places(incoming, ErrorLines)) \in Nat
  BY <1>2, PlacesFinite
<1>4. Cardinality(InHand) \in Nat
  BY FS_CardinalityType DEF ErrorsCounted
<1> QED
  BY <1>1, <1>3, <1>4, IdsFinite

LEMMA InitErrorsCounted == Init => ErrorsCounted
<1> SUFFICES ASSUME Init
             PROVE  ErrorsCounted
  OBVIOUS
<1>1. InHand = {} /\ Ended("error") = {} /\ Answered("error") = {}
  BY ErrorLinesAre DEF Init, InHand, Ended, Answered
<1>2. incoming = <<>>
  BY DEF Init
<1>3. Cardinality(Places(incoming, ErrorLines)) = 0
  BY <1>2, PlacesOfNothing
<1> QED
  BY <1>1, <1>3, FS_EmptySet DEF ErrorsCounted

LEMMA QuietErrors ==
    ASSUME ErrorsCounted, UNCHANGED <<incoming, answered>>,
           Ended("error")' = Ended("error"), InHand' = InHand
    PROVE  ErrorsCounted'
BY DEF ErrorsCounted, Answered

\* A call that ends otherwise, or fails at once, does not count as an error.
LEMMA OtherEnds ==
    ASSUME TransportInv, CallsInv, NEW i \in Ids, outcome[i] = "none",
           NEW how \in {"ok", "failed"},
           outcome' = [outcome EXCEPT ![i] = how]
    PROVE  Ended("error")' = Ended("error")
BY DEF TransportInv, HistoryOK, Ended

LEMMA OtherLines ==
    ASSUME TransportInv, NEW c \in Callers, line[c] \notin ErrorLines,
           NEW m, m \notin ErrorLines,
           line' = line \/ line' = [line EXCEPT ![c] = m]
    PROVE  InHand' = InHand
BY DEF TransportInv, CallersOK, InHand

LEMMA InACall ==
    ASSUME TransportInv, CallsInv, NEW c \in Callers, pc[c] # "idle"
    PROVE  id[c] \in Ids /\ outcome[id[c]] = "none"
<1>1. id[c] # None /\ id[c] \in Ids \cup {None}
  BY DEF TransportInv, CallersOK, CallerStates
<1> QED
  BY <1>1 DEF CallsInv, CallsDiffer

LEMMA CallerErrors ==
    ASSUME TransportInv, CallsInv, ErrorsCounted, NEW c \in Callers, Caller(c)
    PROVE  ErrorsCounted'
<1>1. CASE Call(c)
  <2>1. nextId \in Ids /\ outcome[nextId] = "none"
    BY <1>1 DEF Call, CallsInv, CallsDiffer, TransportInv, ChannelsOK,
                HistoryOK, Ids
  <2>2. Ended("error")' = Ended("error")
    BY <1>1, <2>1, OtherEnds DEF Call, Ended
  <2>3. InHand' = InHand
    BY <1>1 DEF Call, InHand
  <2> QED
    BY <1>1, <2>2, <2>3, QuietErrors DEF Call, peerVars
<1>2. CASE Pause(c) \/ Lock(c) \/ WaitEnds(c) \/ ReadWouldBlock(c)
           \/ YieldEnds(c) \/ ProcessRequest(c)
  <2>1. UNCHANGED <<outcome, line, incoming, answered>>
    BY <1>2 DEF Pause, Lock, WaitEnds, ReadWouldBlock, YieldEnds,
                ProcessRequest, peerVars
  <2>2. Ended("error")' = Ended("error") /\ InHand' = InHand
    BY <2>1 DEF Ended, InHand
  <2> QED
    BY <2>1, <2>2, QuietErrors
<1>3. CASE Check(c) \/ ReadEof(c) \/ ProcessFails(c) \/ HandlerDone(c)
  <2>1. pc[c] # "idle"
    BY <1>3 DEF Check, ReadEof, ProcessFails, Processing, HandlerDone, At
  <2>2. id[c] \in Ids /\ outcome[id[c]] = "none"
    BY <2>1, InACall
  <2>3. \/ outcome' = outcome
        \/ \E how \in {"ok", "failed"} :
             outcome' = [outcome EXCEPT ![id[c]] = how]
    BY <1>3 DEF Check, ReadEof, ProcessFails, HandlerDone, Ends
  <2>4. Ended("error")' = Ended("error")
    BY <2>2, <2>3, OtherEnds DEF Ended
  <2>5. line' = line \/ /\ line' = [line EXCEPT ![c] = None]
                        /\ line[c].kind \in {"garbage", "request"}
                        /\ line[c] # None
    BY <1>3 DEF Check, ReadEof, ProcessFails, Processing, HandlerDone, At,
                TransportInv, CallerStates
  <2>6. line[c] \in Incoming \cup {None}
    BY DEF TransportInv, CallersOK
  <2>7. InHand' = InHand
    <3>1. CASE line' = line
      BY <3>1 DEF InHand
    <3>2. CASE line' # line
      <4>1. line[c] \notin ErrorLines
        BY <2>5, <2>6, <3>2, ErrorLinesAre
      <4> QED
        BY <2>5, <4>1, OtherLines, ErrorLinesAre
    <3> QED
      BY <3>1, <3>2
  <2>8. UNCHANGED <<incoming, answered>>
    BY <1>3 DEF Check, ReadEof, ProcessFails, HandlerDone, peerVars
  <2> QED
    BY <2>4, <2>7, <2>8, QuietErrors
<1>4. CASE ProcessResponse(c)
  <2>1. /\ line[c].kind = "response" /\ line[c] # None
        /\ line[c] \in Incoming \cup {None}
        /\ line' = [line EXCEPT ![c] = None]
        /\ UNCHANGED <<outcome, incoming, answered>>
    BY <1>4 DEF ProcessResponse, Processing, At, TransportInv, CallerStates,
                CallersOK, peerVars
  <2>2. line[c] \notin ErrorLines
    BY <2>1, ErrorLinesAre
  <2>3. InHand' = InHand
    BY <2>1, <2>2, OtherLines, ErrorLinesAre
  <2>4. Ended("error")' = Ended("error")
    BY <2>1 DEF Ended
  <2> QED
    BY <2>1, <2>3, <2>4, QuietErrors
<1>5. CASE ProcessError(c)
  <2>1. /\ pc[c] # "idle"
        /\ line[c].kind = "error" /\ line[c] # None
        /\ line[c] \in Incoming \cup {None}
        /\ line \in [Callers -> Incoming \cup {None}]
        /\ outcome \in [Ids -> {"none", "ok", "error", "failed"}]
        /\ line' = [line EXCEPT ![c] = None]
        /\ outcome' = [outcome EXCEPT ![id[c]] = "error"]
        /\ UNCHANGED <<incoming, answered>>
    BY <1>5 DEF ProcessError, Processing, At, Ends, TransportInv, CallerStates,
                CallersOK, HistoryOK, peerVars
  <2>2. id[c] \in Ids /\ outcome[id[c]] = "none"
    BY <2>1, InACall
  <2>3. c \in InHand /\ InHand' = InHand \ {c}
    BY <2>1, ErrorLinesAre DEF InHand
  <2>4. id[c] \notin Ended("error")
        /\ Ended("error")' = Ended("error") \cup {id[c]}
    BY <2>1, <2>2 DEF Ended
  <2>5. /\ IsFiniteSet(InHand')
        /\ Cardinality(InHand') = Cardinality(InHand) - 1
    BY <2>3, FS_RemoveElement DEF ErrorsCounted
  <2>6. Cardinality(Ended("error")') = Cardinality(Ended("error")) + 1
    BY <2>4, CountsAreNumbers, FS_AddElement
  <2>7. Answered("error")' = Answered("error")
    BY <2>1 DEF Answered
  <2> QED
    BY <2>1, <2>5, <2>6, <2>7, CountsAreNumbers DEF ErrorsCounted
<1>6. CASE ReadLine(c)
  <2>1. /\ incoming \in Seq(Incoming) /\ incoming # <<>>
        /\ incoming' = Tail(incoming)
        /\ line \in [Callers -> Incoming \cup {None}]
        /\ line[c] = None
        /\ line' = [line EXCEPT ![c] = Head(incoming)]
        /\ UNCHANGED <<outcome, answered>>
    BY <1>6 DEF ReadLine, At, TransportInv, CallerStates, CallersOK, ChannelsOK
  <2>2. Cardinality(Places(incoming', ErrorLines))
          = Cardinality(Places(incoming, ErrorLines))
              - (IF Head(incoming) \in ErrorLines THEN 1 ELSE 0)
    BY <2>1, PlacesAfterTail
  <2>3. /\ IsFiniteSet(InHand')
        /\ Cardinality(InHand') = Cardinality(InHand)
             + (IF Head(incoming) \in ErrorLines THEN 1 ELSE 0)
    <3>1. CASE Head(incoming) \in ErrorLines
      <4>1. c \notin InHand /\ InHand' = InHand \cup {c}
        BY <2>1, <3>1, ErrorLinesAre DEF InHand
      <4> QED
        BY <3>1, <4>1, FS_AddElement DEF ErrorsCounted
    <3>2. CASE Head(incoming) \notin ErrorLines
      <4>1. InHand' = InHand
        BY <2>1, <3>2, OtherLines, ErrorLinesAre
      <4> QED
        BY <3>2, <4>1, CountsAreNumbers DEF ErrorsCounted
    <3> QED
      BY <3>1, <3>2
  <2>4. Ended("error")' = Ended("error") /\ Answered("error")' = Answered("error")
    BY <2>1 DEF Ended, Answered
  <2> QED
    BY <2>2, <2>3, <2>4, CountsAreNumbers DEF ErrorsCounted
<1> QED
  BY <1>1, <1>2, <1>3, <1>4, <1>5, <1>6 DEF Caller, Step

LEMMA PeerErrors ==
    ASSUME TransportInv, ErrorsCounted, Peer
    PROVE  ErrorsCounted'
<1>1. UNCHANGED <<outcome, line>>
  BY DEF Peer, PeerReads, PeerAnswers, PeerTakesReply, PeerAsks, PeerBabbles,
         PeerCloses, callerVars
<1>2. Ended("error")' = Ended("error") /\ InHand' = InHand
  BY <1>1 DEF Ended, InHand
<1>3. CASE PeerTakesReply \/ PeerCloses
  BY <1>2, <1>3, QuietErrors DEF PeerTakesReply, PeerCloses, peerVars
<1>4. ASSUME NEW m \in Incoming, m.kind # "error",
             incoming' = Append(incoming, m),
             Answered("error")' = Answered("error")
      PROVE  ErrorsCounted'
  <2>1. Cardinality(Places(incoming', ErrorLines))
          = Cardinality(Places(incoming, ErrorLines)) + 0
    BY <1>4, PlacesAfterAppend, ErrorLinesAre DEF TransportInv, ChannelsOK
  <2> QED
    BY <1>2, <1>4, <2>1, CountsAreNumbers DEF ErrorsCounted
<1>5. ASSUME NEW r \in PeerRequests, PeerAsks(r)
      PROVE  ErrorsCounted'
  <2>1. [kind |-> "request", id |-> r] \in Incoming
    BY DEF Incoming
  <2> QED
    BY <1>4, <1>5, <2>1 DEF PeerAsks, Answered
<1>6. CASE PeerBabbles
  <2>1. [kind |-> "garbage"] \in Incoming
    BY DEF Incoming
  <2> QED
    BY <1>4, <1>6, <2>1 DEF PeerBabbles, Answered
<1>7. CASE PeerAnswers
  <2> DEFINE i == Head(outgoing).id
  <2>1. /\ i \in Ids /\ answered[i] = "none"
        /\ answered \in [Ids -> {"none", "ok", "error"}]
    <3>1. /\ outgoing \in Seq(Outgoing) /\ outgoing # <<>>
          /\ Head(outgoing).kind = "request"
      BY <1>7 DEF PeerAnswers, PeerTakes, TransportInv, ChannelsOK
    <3>2. /\ Head(outgoing) = outgoing[1] /\ 1 \in 1 .. Len(outgoing)
          /\ outgoing[1] \in Outgoing
      BY <3>1, HeadTailProperties, EmptySeq, ElementOfSeq
    <3>3. outgoing[1].kind = "request" => outgoing[1].id \in Ids
      BY <3>2 DEF Outgoing
    <3> QED
      BY <3>1, <3>2, <3>3 DEF TransportInv, RequestsFresh, HistoryOK
  <2>2. CASE /\ incoming' = Append(incoming, [kind |-> "response", id |-> i,
                                              result |-> i])
             /\ answered' = [answered EXCEPT ![i] = "ok"]
    <3>1. [kind |-> "response", id |-> i, result |-> i] \in Incoming
      BY <2>1 DEF Incoming
    <3>2. Answered("error")' = Answered("error")
      BY <2>1, <2>2 DEF Answered
    <3> QED
      BY <1>4, <2>2, <3>1, <3>2
  <2>3. CASE /\ incoming' = Append(incoming, [kind |-> "error", id |-> i])
             /\ answered' = [answered EXCEPT ![i] = "error"]
    <3>1. /\ [kind |-> "error", id |-> i] \in Incoming
          /\ [kind |-> "error", id |-> i] \in ErrorLines
      BY <2>1 DEF Incoming, ErrorLines
    <3>2. incoming \in Seq(Incoming)
      BY DEF TransportInv, ChannelsOK
    <3>3. Cardinality(Places(incoming', ErrorLines))
            = Cardinality(Places(incoming, ErrorLines)) + 1
      BY <2>3, <3>1, <3>2, PlacesAfterAppend
    <3>4. /\ i \notin Answered("error")
          /\ Answered("error")' = Answered("error") \cup {i}
      BY <2>1, <2>3 DEF Answered
    <3>5. Cardinality(Answered("error")')
            = Cardinality(Answered("error")) + 1
      BY <3>4, CountsAreNumbers, FS_AddElement
    <3> QED
      BY <1>2, <3>3, <3>5, CountsAreNumbers DEF ErrorsCounted
  <2> QED
    BY <1>7, <2>2, <2>3 DEF PeerAnswers
<1> QED
  BY <1>3, <1>5, <1>6, <1>7 DEF Peer, PeerReads

LEMMA StepErrors ==
    ASSUME TransportInv, CallsInv, ErrorsCounted, [Next]_vars
    PROVE  ErrorsCounted'
<1>1. CASE UNCHANGED vars
  <2>1. UNCHANGED <<incoming, answered, outcome, line>>
    BY <1>1 DEF vars, callerVars, peerVars
  <2>2. Ended("error")' = Ended("error") /\ InHand' = InHand
    BY <2>1 DEF Ended, InHand
  <2> QED
    BY <2>1, <2>2, QuietErrors
<1> QED
  BY <1>1, CallerErrors, PeerErrors DEF Next

\* No error the peer answers with fails two calls, and none is made up: a call
\* returns an error because it read one (process_message), whoever it was for.
THEOREM TransportErrorsAreThePeers == Spec => []ErrorsAreThePeers
<1>1. TransportInv /\ ErrorsCounted => ErrorsAreThePeers
  BY CountsAreNumbers DEF ErrorsCounted, ErrorsAreThePeers
<1> QED
  BY <1>1, InitTransportInv, StepTransportInv, InitCallsInv, StepCallsInv,
     InitErrorsCounted, StepErrors, PTL DEF Spec

-----------------------------------------------------------------------------
(***************************************************************************)
(* Answers.  The answer of a call is in one of four places: still a        *)
(* request, on its way back, in the hands of a caller, or delivered.       *)
(***************************************************************************)
RequestOf(i) == {m \in Outgoing : m.kind = "request" /\ m.id = i}

AnswersTo(i) == {m \in Incoming : m.kind \in {"response", "error"} /\ m.id = i}

Holding(i) == {c \in Callers : line[c] \in AnswersTo(i)}

Asked(i) == Cardinality(Places(outgoing, RequestOf(i)))
Returning(i) == Cardinality(Places(incoming, AnswersTo(i)))
Held(i) == Cardinality(Holding(i))
Delivered(i) == IF slot[i] # None THEN 1 ELSE 0

UnderWay(i) == Asked(i) + Returning(i) + Held(i) + Delivered(i)

HoldingFinite == \A i \in Ids : IsFiniteSet(Holding(i))

\* A call that was not made yet has left no trace.
NoneYet == \A i \in Ids : nextId =< i => UnderWay(i) = 0

OneEach ==
    Answered("error") = {} =>
      \A c \in Callers, i \in Ids : id[c] = i =>
        /\ UnderWay(i) = 1
        /\ i \in pending <=> slot[i] = None

Traced == HoldingFinite /\ NoneYet /\ OneEach

LEMMA PartsAreNumbers ==
    ASSUME TransportInv, HoldingFinite, NEW i \in Ids
    PROVE  /\ Asked(i) \in Nat /\ Returning(i) \in Nat /\ Held(i) \in Nat
           /\ Delivered(i) \in {0, 1}
<1>1. outgoing \in Seq(Outgoing) /\ incoming \in Seq(Incoming)
  BY DEF TransportInv, ChannelsOK
<1>2. Asked(i) \in Nat /\ Returning(i) \in Nat
  BY <1>1, PlacesFinite DEF Asked, Returning
<1>3. Held(i) \in Nat
  BY FS_CardinalityType DEF Held, HoldingFinite
<1> QED
  BY <1>2, <1>3 DEF Delivered

LEMMA InitTraced == Init => Traced
<1> SUFFICES ASSUME Init
             PROVE  Traced
  OBVIOUS
<1>1. ASSUME NEW i \in Ids
      PROVE  IsFiniteSet(Holding(i)) /\ UnderWay(i) = 0
  <2>1. None \notin AnswersTo(i)
    BY TransportAssumption DEF AnswersTo
  <2>2. Holding(i) = {}
    BY <2>1 DEF Init, Holding
  <2>3. outgoing = <<>> /\ incoming = <<>>
    BY DEF Init
  <2>4. Asked(i) = 0 /\ Returning(i) = 0
    BY <2>3, PlacesOfNothing DEF Asked, Returning
  <2>5. Delivered(i) = 0
    BY DEF Init, Delivered
  <2> QED
    BY <2>2, <2>4, <2>5, FS_EmptySet DEF UnderWay, Held
<1>2. \A c \in Callers, i \in Ids : id[c] # i
  BY TransportAssumption DEF Init, Ids
<1> QED
  BY <1>1, <1>2 DEF Traced, HoldingFinite, NoneYet, OneEach

\* Steps that only carry answers on, and those that leave them alone.
LEMMA CarriedOn ==
    ASSUME TransportInv, Traced,
           \A i \in Ids : IsFiniteSet(Holding(i))' /\ UnderWay(i)' = UnderWay(i),
           \A c \in Callers : id'[c] \in {id[c], None},
           UNCHANGED <<nextId, pending, slot>>,
           Answered("error") \subseteq Answered("error")'
    PROVE  Traced'
<1>1. HoldingFinite' /\ NoneYet'
  BY DEF Traced, HoldingFinite, NoneYet
<1>2. OneEach'
  <2> SUFFICES ASSUME Answered("error")' = {},
                      NEW c \in Callers, NEW i \in Ids, id'[c] = i
               PROVE  /\ UnderWay(i)' = 1
                      /\ i \in pending <=> slot[i] = None
    BY DEF OneEach
  <2>1. id[c] = i
    BY TransportAssumption DEF Ids
  <2>2. /\ UnderWay(i) = 1
        /\ i \in pending <=> slot[i] = None
    BY <2>1 DEF Traced, OneEach
  <2> QED
    BY <2>2
<1> QED
  BY <1>1, <1>2 DEF Traced

LEMMA QuietAnswers ==
    ASSUME TransportInv, Traced,
           UNCHANGED <<nextId, pending, slot, outgoing, incoming, answered>>,
           \A i \in Ids : Holding(i)' = Holding(i),
           \A c \in Callers : id'[c] \in {id[c], None}
    PROVE  Traced'
<1>1. \A i \in Ids : IsFiniteSet(Holding(i))' /\ UnderWay(i)' = UnderWay(i)
  BY DEF Traced, HoldingFinite, UnderWay, Asked, Returning, Held, Delivered
<1> QED
  BY <1>1, CarriedOn DEF Answered

LEMMA SameHolding ==
    ASSUME TransportInv, NEW c \in Callers, NEW i \in Ids,
           NEW m, line' = [line EXCEPT ![c] = m],
           m \notin AnswersTo(i), line[c] \notin AnswersTo(i)
    PROVE  Holding(i)' = Holding(i)
BY DEF TransportInv, CallersOK, Holding

LEMMA NoneIsNoAnswer == \A i \in Ids : None \notin AnswersTo(i)
BY TransportAssumption DEF AnswersTo

LEMMA CallAnswers ==
    ASSUME TransportInv, CallsInv, Traced, NEW c \in Callers, Call(c)
    PROVE  Traced'
<1>1. /\ nextId \in Ids /\ nextId \in Nat /\ nextId' = nextId + 1
      /\ nextId # None
      /\ pending' = pending \cup {nextId}
      /\ UNCHANGED <<slot, line, incoming, answered>>
      /\ id \in [Callers -> Ids \cup {None}]
      /\ Ids \subseteq Nat
      /\ outgoing \in Seq(Outgoing)
  BY TransportAssumption
     DEF Call, TransportInv, CallersOK, ChannelsOK, Ids, peerVars
<1>2. /\ \A i \in Ids : Holding(i)' = Holding(i)
      /\ \A i \in Ids : Returning(i)' = Returning(i)
      /\ \A i \in Ids : Held(i)' = Held(i)
      /\ \A i \in Ids : Delivered(i)' = Delivered(i)
  BY <1>1 DEF Holding, Returning, Held, Delivered
<1>3. HoldingFinite'
  BY <1>2 DEF Traced, HoldingFinite
<1>4. UnderWay(nextId) = 0 /\ slot[nextId] = None
  <2>1. UnderWay(nextId) = 0
    BY <1>1 DEF Traced, NoneYet
  <2> QED
    BY <1>1, <2>1 DEF TransportInv, SlotsTruthful, RequestsFresh
<1>5. \A d \in Callers : id[d] # None =>
         id[d] \in Ids /\ id[d] # nextId
  BY <1>1 DEF CallsInv, CallsDiffer
<1>6. CASE /\ outgoing' = Append(outgoing, [kind |-> "request", id |-> nextId])
           /\ id' = [id EXCEPT ![c] = nextId]
  <2> DEFINE req == [kind |-> "request", id |-> nextId]
  <2>1. /\ req \in Outgoing
        /\ \A i \in Ids : req \in RequestOf(i) <=> i = nextId
    BY <1>1 DEF Outgoing, RequestOf
  <2>2. \A i \in Ids : Asked(i)' = Asked(i) + (IF i = nextId THEN 1 ELSE 0)
    <3> SUFFICES ASSUME NEW i \in Ids
                 PROVE  Asked(i)' = Asked(i) + (IF i = nextId THEN 1 ELSE 0)
      OBVIOUS
    <3>1. outgoing' = Append(outgoing, req)
      BY <1>6
    <3> HIDE DEF req
    <3>2. Cardinality(Places(outgoing', RequestOf(i)))
            = Cardinality(Places(outgoing, RequestOf(i)))
                + (IF req \in RequestOf(i) THEN 1 ELSE 0)
      BY <1>1, <2>1, <3>1, PlacesAfterAppend
    <3> QED
      BY <2>1, <3>2 DEF Asked
  <2>3. \A i \in Ids : UnderWay(i)' = UnderWay(i) + (IF i = nextId THEN 1 ELSE 0)
    BY <1>2, <2>2, PartsAreNumbers DEF UnderWay, Traced
  <2>4. NoneYet'
    <3> SUFFICES ASSUME NEW i \in Ids, nextId + 1 =< i
                 PROVE  UnderWay(i)' = 0
      BY <1>1 DEF NoneYet
    <3>1. nextId =< i /\ i # nextId /\ i \in Nat
      BY <1>1
    <3>2. UnderWay(i) = 0
      BY <3>1 DEF Traced, NoneYet
    <3> QED
      BY <2>3, <3>1, <3>2
  <2>5. OneEach'
    <3> SUFFICES ASSUME Answered("error")' = {},
                        NEW d \in Callers, NEW i \in Ids, id'[d] = i
                 PROVE  /\ UnderWay(i)' = 1
                        /\ i \in pending' <=> slot'[i] = None
      BY DEF OneEach
    <3>1. CASE d = c
      <4>1. i = nextId
        BY <1>1, <1>6, <3>1
      <4> QED
        BY <1>1, <1>4, <2>3, <4>1
    <3>2. CASE d # c
      <4>1. id[d] = i /\ i # nextId
        BY <1>1, <1>5, <1>6, <3>2, TransportAssumption
      <4>2. Answered("error") = {}
        BY <1>1 DEF Answered
      <4>3. /\ UnderWay(i) = 1
            /\ i \in pending <=> slot[i] = None
        BY <4>1, <4>2 DEF Traced, OneEach
      <4> QED
        BY <1>1, <2>3, <4>1, <4>3
    <3> QED
      BY <3>1, <3>2
  <2> QED
    BY <1>3, <2>4, <2>5 DEF Traced
<1>7. CASE UNCHANGED <<outgoing, id>>
  <2>1. \A i \in Ids : UnderWay(i)' = UnderWay(i)
    BY <1>2, <1>7 DEF UnderWay, Asked
  <2>2. NoneYet'
    <3> SUFFICES ASSUME NEW i \in Ids, nextId + 1 =< i
                 PROVE  UnderWay(i)' = 0
      BY <1>1 DEF NoneYet
    <3>1. nextId =< i
      BY <1>1
    <3> QED
      BY <2>1, <3>1 DEF Traced, NoneYet
  <2>3. OneEach'
    <3> SUFFICES ASSUME Answered("error")' = {},
                        NEW d \in Callers, NEW i \in Ids, id'[d] = i
                 PROVE  /\ UnderWay(i)' = 1
                        /\ i \in pending' <=> slot'[i] = None
      BY DEF OneEach
    <3>1. id[d] = i /\ i # nextId
      BY <1>1, <1>5, <1>7, TransportAssumption
    <3>2. Answered("error") = {}
      BY <1>1 DEF Answered
    <3>3. /\ UnderWay(i) = 1
          /\ i \in pending <=> slot[i] = None
      BY <3>1, <3>2 DEF Traced, OneEach
    <3> QED
      BY <1>1, <2>1, <3>1, <3>3
  <2> QED
    BY <1>3, <2>2, <2>3 DEF Traced
<1> QED
  BY <1>6, <1>7 DEF Call

LEMMA ResponseAnswers ==
    ASSUME TransportInv, CallsInv, Traced, NEW c \in Callers, ProcessResponse(c)
    PROVE  Traced'
<1> DEFINE m == line[c]
<1>1. /\ m.kind = "response" /\ m # None /\ m \in Incoming \cup {None}
      /\ line \in [Callers -> Incoming \cup {None}]
      /\ line' = [line EXCEPT ![c] = None]
      /\ UNCHANGED <<nextId, id, outgoing, incoming, answered>>
      /\ pending' = pending \ Receiver(m)
      /\ slot' = [i \in Ids |-> IF i \in Receiver(m) /\ Live(i)
                                THEN m.result ELSE slot[i]]
      /\ id \in [Callers -> Ids \cup {None}]
      /\ nextId \in Nat
  BY DEF ProcessResponse, Processing, At, Forget, TransportInv, CallerStates,
         CallersOK, ChannelsOK, peerVars
<1>2. PICK j \in Ids : /\ m.id = j /\ m.result = j
                       /\ m \in AnswersTo(j)
                       /\ \A i \in Ids : i # j => m \notin AnswersTo(i)
  <2>1. m \in Incoming /\ m.kind = "response"
    BY <1>1
  <2>2. m.id \in Ids
    BY <2>1 DEF Incoming
  <2>3. m.result = m.id
    BY <1>1 DEF TransportInv, LinesTruthful, Truthful
  <2> QED
    BY <2>1, <2>2, <2>3 DEF AnswersTo
<1>3. j # None
  BY <1>2, TransportAssumption DEF Ids
<1> HIDE DEF m
<1>4. /\ c \in Holding(j) /\ Holding(j)' = Holding(j) \ {c}
      /\ \A i \in Ids : i # j => Holding(i)' = Holding(i)
  BY <1>1, <1>2, NoneIsNoAnswer, SameHolding DEF Holding, m
<1>5. /\ IsFiniteSet(Holding(j)')
      /\ Held(j)' = Held(j) - 1
  BY <1>2, <1>4, FS_RemoveElement DEF Traced, HoldingFinite, Held
<1>6. HoldingFinite'
  BY <1>4, <1>5 DEF HoldingFinite, Traced
<1>7. \A i \in Ids : /\ Asked(i)' = Asked(i) /\ Returning(i)' = Returning(i)
                     /\ i # j => Held(i)' = Held(i)
  BY <1>1, <1>4 DEF Asked, Returning, Held
<1>8. /\ Held(j) \in Nat /\ Held(j) # 0
      /\ Asked(j) \in Nat /\ Returning(j) \in Nat /\ Delivered(j) \in {0, 1}
  <2>1. Held(j) \in Nat /\ Asked(j) \in Nat /\ Returning(j) \in Nat
        /\ Delivered(j) \in {0, 1}
    BY <1>2, PartsAreNumbers DEF Traced
  <2>2. Held(j) # 0
    BY <1>2, <1>4, FS_EmptySet DEF Traced, HoldingFinite, Held
  <2> QED
    BY <2>1, <2>2
<1>9. ASSUME NEW i \in Ids, i # j
      PROVE  /\ slot'[i] = slot[i] /\ UnderWay(i)' = UnderWay(i)
             /\ i \in pending' <=> i \in pending
  <2>1. i \notin Receiver(m)
    BY <1>2, <1>9 DEF Receiver
  <2>2. slot'[i] = slot[i] /\ (i \in pending' <=> i \in pending)
    BY <1>1, <2>1
  <2> QED
    BY <1>7, <1>9, <2>2 DEF UnderWay, Delivered
<1>10. NoneYet'
  <2>1. j < nextId
    <3>1. UnderWay(j) # 0
      BY <1>8 DEF UnderWay
    <3>2. j \in Nat
      BY <1>2, TransportAssumption DEF Ids
    <3> QED
      BY <1>1, <1>2, <3>1, <3>2 DEF Traced, NoneYet
  <2>2. \A i \in Ids : nextId =< i => i # j
    BY <1>1, <1>2, <2>1, TransportAssumption DEF Ids
  <2> QED
    BY <1>1, <1>9, <2>2 DEF Traced, NoneYet
<1>11. OneEach'
  <2> SUFFICES ASSUME Answered("error")' = {},
                      NEW d \in Callers, NEW i \in Ids, id'[d] = i
               PROVE  /\ UnderWay(i)' = 1
                      /\ i \in pending' <=> slot'[i] = None
    BY DEF OneEach
  <2>1. /\ id[d] = i /\ Answered("error") = {}
    BY <1>1 DEF Answered
  <2>2. /\ UnderWay(i) = 1
        /\ i \in pending <=> slot[i] = None
    BY <2>1 DEF Traced, OneEach
  <2>3. CASE i # j
    BY <1>9, <2>2, <2>3
  <2>4. CASE i = j
    <3>1. Delivered(j) = 0 /\ Held(j) = 1 /\ Asked(j) = 0 /\ Returning(j) = 0
      BY <1>8, <2>2, <2>4 DEF UnderWay
    <3>2. slot[j] = None /\ j \in pending
      BY <2>2, <2>4, <3>1 DEF Delivered
    <3>3. j \in Receiver(m) /\ Live(j)
      BY <1>2, <2>1, <2>4, <3>2 DEF Receiver, Live
    <3>4. slot'[j] = j /\ j \notin pending'
      BY <1>1, <1>2, <3>3
    <3>5. Delivered(j)' = 1
      BY <1>2, <1>3, <3>4 DEF Delivered
    <3> QED
      BY <1>2, <1>3, <1>5, <1>7, <2>4, <3>1, <3>4, <3>5 DEF UnderWay
  <2> QED
    BY <2>3, <2>4
<1> QED
  BY <1>6, <1>10, <1>11 DEF Traced

\* A caller that returns an error holds one, so that one was answered.
LEMMA ErrorAnswers ==
    ASSUME TransportInv, CallsInv, ErrorsCounted, Traced,
           NEW c \in Callers, ProcessError(c)
    PROVE  Traced'
<1>1. /\ line[c].kind = "error" /\ line[c] # None
      /\ line[c] \in Incoming \cup {None}
      /\ line \in [Callers -> Incoming \cup {None}]
      /\ line' = [line EXCEPT ![c] = None]
      /\ UNCHANGED <<nextId, outgoing, incoming, slot, answered>>
  BY DEF ProcessError, Processing, At, TransportInv, CallerStates, CallersOK,
         peerVars
<1>2. Answered("error") # {}
  <2>1. c \in InHand
    BY <1>1, ErrorLinesAre DEF InHand
  <2>2. Cardinality(InHand) # 0
    BY <2>1, FS_EmptySet DEF ErrorsCounted
  <2>3. Cardinality(Answered("error")) # 0
    BY <2>2, CountsAreNumbers DEF ErrorsCounted
  <2> QED
    BY <2>3, FS_EmptySet
<1>3. OneEach'
  BY <1>1, <1>2 DEF OneEach, Answered
<1>4. ASSUME NEW i \in Ids
      PROVE  /\ IsFiniteSet(Holding(i)')
             /\ nextId =< i => UnderWay(i)' = 0
  <2>1. Holding(i)' = Holding(i) \ {c}
    BY <1>1, NoneIsNoAnswer DEF Holding
  <2>2. /\ IsFiniteSet(Holding(i)')
        /\ Held(i)' = IF c \in Holding(i) THEN Held(i) - 1 ELSE Held(i)
    BY <2>1, FS_RemoveElement DEF Traced, HoldingFinite, Held
  <2>3. /\ Asked(i)' = Asked(i) /\ Returning(i)' = Returning(i)
        /\ Delivered(i)' = Delivered(i)
    BY <1>1 DEF Asked, Returning, Delivered
  <2>4. c \in Holding(i) => Held(i) # 0
    BY FS_EmptySet DEF Traced, HoldingFinite, Held
  <2>5. nextId =< i => UnderWay(i) = 0
    BY DEF Traced, NoneYet
  <2>6. /\ Asked(i) \in Nat /\ Returning(i) \in Nat /\ Held(i) \in Nat
        /\ Delivered(i) \in {0, 1}
    BY PartsAreNumbers DEF Traced
  <2> QED
    BY <2>2, <2>3, <2>4, <2>5, <2>6 DEF UnderWay
<1> QED
  BY <1>1, <1>3, <1>4 DEF Traced, HoldingFinite, NoneYet

LEMMA ReadAnswers ==
    ASSUME TransportInv, Traced, NEW c \in Callers, ReadLine(c)
    PROVE  Traced'
<1>1. /\ incoming \in Seq(Incoming) /\ incoming # <<>>
      /\ incoming' = Tail(incoming)
      /\ line \in [Callers -> Incoming \cup {None}]
      /\ line[c] = None
      /\ line' = [line EXCEPT ![c] = Head(incoming)]
      /\ UNCHANGED <<nextId, pending, slot, id, outgoing, answered>>
  BY DEF ReadLine, At, TransportInv, CallerStates, CallersOK, ChannelsOK
<1>2. ASSUME NEW i \in Ids
      PROVE  IsFiniteSet(Holding(i))' /\ UnderWay(i)' = UnderWay(i)
  <2>1. Returning(i)' = Returning(i)
          - (IF Head(incoming) \in AnswersTo(i) THEN 1 ELSE 0)
    BY <1>1, PlacesAfterTail DEF Returning
  <2>2. /\ IsFiniteSet(Holding(i)')
        /\ Held(i)' = Held(i)
             + (IF Head(incoming) \in AnswersTo(i) THEN 1 ELSE 0)
    <3>1. CASE Head(incoming) \in AnswersTo(i)
      <4>1. c \notin Holding(i) /\ Holding(i)' = Holding(i) \cup {c}
        BY <1>1, <3>1, NoneIsNoAnswer DEF Holding
      <4> QED
        BY <3>1, <4>1, FS_AddElement DEF Traced, HoldingFinite, Held
    <3>2. CASE Head(incoming) \notin AnswersTo(i)
      <4>1. Holding(i)' = Holding(i)
        BY <1>1, <3>2, NoneIsNoAnswer, SameHolding
      <4> QED
        BY <3>2, <4>1, PartsAreNumbers DEF Traced, HoldingFinite, Held
    <3> QED
      BY <3>1, <3>2
  <2>3. Asked(i)' = Asked(i) /\ Delivered(i)' = Delivered(i)
    BY <1>1 DEF Asked, Delivered
  <2> QED
    BY <2>1, <2>2, <2>3, PartsAreNumbers DEF UnderWay, Traced
<1> QED
  BY <1>1, <1>2, CarriedOn DEF Answered

\* What a caller drops that is no answer, when its line is processed.
LEMMA OtherCallerAnswers ==
    ASSUME TransportInv, CallsInv, Traced, NEW c \in Callers,
           \/ Pause(c) \/ Check(c) \/ Lock(c) \/ WaitEnds(c) \/ ReadEof(c)
           \/ ReadWouldBlock(c) \/ YieldEnds(c) \/ ProcessFails(c)
           \/ ProcessRequest(c) \/ HandlerDone(c)
    PROVE  Traced'
<1>1. /\ UNCHANGED <<nextId, pending, slot, incoming, answered>>
      /\ \/ line' = line
         \/ /\ line' = [line EXCEPT ![c] = None]
            /\ line[c].kind \in {"garbage", "request"}
      /\ id' = id \/ id' = [id EXCEPT ![c] = None]
  BY DEF Pause, Check, Lock, WaitEnds, ReadEof, ReadWouldBlock, YieldEnds,
         ProcessFails, ProcessRequest, HandlerDone, Processing, Ends, peerVars,
         TransportInv, CallerStates
<1>2. \A d \in Callers : id'[d] \in {id[d], None}
  BY <1>1 DEF TransportInv, CallersOK
<1>3. \A i \in Ids : Holding(i)' = Holding(i)
  <2>1. CASE line' = line
    BY <2>1 DEF Holding
  <2>2. CASE line' # line
    <3>1. \A i \in Ids : line[c] \notin AnswersTo(i)
      BY <1>1, <2>2 DEF AnswersTo
    <3> QED
      BY <1>1, <2>2, <3>1, NoneIsNoAnswer, SameHolding
  <2> QED
    BY <2>1, <2>2
<1>4. CASE outgoing' = outgoing
  BY <1>1, <1>2, <1>3, <1>4, QuietAnswers
<1>5. CASE HandlerDone(c) /\ outgoing' = Append(outgoing, Reply(c))
  <2>1. /\ outgoing \in Seq(Outgoing)
        /\ line[c] \in Incoming \cup {None}
        /\ line[c].kind = "request" /\ line[c] # None
    BY <1>5 DEF HandlerDone, TransportInv, ChannelsOK, CallersOK, CallerStates
  <2>2. Reply(c) \in Outgoing /\ Reply(c).kind = "reply"
    BY <2>1 DEF Incoming, Outgoing, Reply
  <2>3. \A i \in Ids : Reply(c) \notin RequestOf(i)
    BY <2>2 DEF RequestOf
  <2>4. ASSUME NEW i \in Ids
        PROVE  Asked(i)' = Asked(i) + 0
    BY <1>5, <2>1, <2>2, <2>3, PlacesAfterAppend DEF Asked
  <2>5. \A i \in Ids : IsFiniteSet(Holding(i))' /\ UnderWay(i)' = UnderWay(i)
    BY <1>1, <1>3, <2>4, PartsAreNumbers
       DEF UnderWay, Returning, Held, Delivered, Traced, HoldingFinite
  <2> QED
    BY <1>1, <1>2, <2>5, CarriedOn DEF Answered
<1> QED
  BY <1>4, <1>5
     DEF Pause, Check, Lock, WaitEnds, ReadEof, ReadWouldBlock, YieldEnds,
         ProcessFails, ProcessRequest, HandlerDone

LEMMA PeerTraced ==
    ASSUME TransportInv, Traced, Peer
    PROVE  Traced'
<1>1. UNCHANGED <<nextId, pending, slot, id, line>>
  BY DEF Peer, PeerReads, PeerAnswers, PeerTakesReply, PeerAsks, PeerBabbles,
         PeerCloses, callerVars
<1>2. \A i \in Ids : /\ Holding(i)' = Holding(i)
                     /\ Held(i)' = Held(i)
                     /\ Delivered(i)' = Delivered(i)
  BY <1>1 DEF Holding, Held, Delivered
<1>3. outgoing \in Seq(Outgoing) /\ incoming \in Seq(Incoming)
  BY DEF TransportInv, ChannelsOK
<1>4. CASE PeerCloses
  BY <1>1, <1>2, <1>4, QuietAnswers DEF PeerCloses
<1>5. ASSUME NEW m \in Incoming, m.kind \in {"request", "garbage"},
             incoming' = Append(incoming, m), UNCHANGED <<outgoing, answered>>
      PROVE  Traced'
  <2>1. \A i \in Ids : m \notin AnswersTo(i)
    BY <1>5 DEF AnswersTo
  <2>2. ASSUME NEW i \in Ids
        PROVE  Returning(i)' = Returning(i) + 0
    BY <1>3, <1>5, <2>1, PlacesAfterAppend DEF Returning
  <2>3. \A i \in Ids : IsFiniteSet(Holding(i))' /\ UnderWay(i)' = UnderWay(i)
    BY <1>2, <1>5, <2>2, PartsAreNumbers
       DEF UnderWay, Asked, Traced, HoldingFinite
  <2> QED
    BY <1>1, <1>5, <2>3, CarriedOn DEF Answered
<1>6. ASSUME NEW r \in PeerRequests, PeerAsks(r)
      PROVE  Traced'
  <2>1. [kind |-> "request", id |-> r] \in Incoming
    BY DEF Incoming
  <2> QED
    BY <1>5, <1>6, <2>1 DEF PeerAsks
<1>7. CASE PeerBabbles
  <2>1. [kind |-> "garbage"] \in Incoming
    BY DEF Incoming
  <2> QED
    BY <1>5, <1>7, <2>1 DEF PeerBabbles
<1>8. ASSUME PeerTakes
      PROVE  /\ Head(outgoing) \in Outgoing
             /\ \A i \in Ids :
                  Asked(i)' = Asked(i)
                    - (IF Head(outgoing) \in RequestOf(i) THEN 1 ELSE 0)
  <2>1. outgoing # <<>> /\ outgoing' = Tail(outgoing)
    BY <1>8 DEF PeerTakes
  <2>2. Head(outgoing) \in Outgoing
    BY <1>3, <2>1, HeadTailProperties, EmptySeq, ElementOfSeq
  <2>3. ASSUME NEW i \in Ids
        PROVE  Asked(i)' = Asked(i)
                 - (IF Head(outgoing) \in RequestOf(i) THEN 1 ELSE 0)
    BY <1>3, <2>1, PlacesAfterTail DEF Asked
  <2> QED
    BY <2>2, <2>3
<1>9. CASE PeerTakesReply
  <2>1. PeerTakes /\ Head(outgoing).kind = "reply"
        /\ UNCHANGED <<incoming, answered>>
    BY <1>9 DEF PeerTakesReply, peerVars
  <2>2. \A i \in Ids : Head(outgoing) \notin RequestOf(i)
    BY <2>1 DEF RequestOf
  <2>3. \A i \in Ids : IsFiniteSet(Holding(i))' /\ UnderWay(i)' = UnderWay(i)
    BY <1>2, <1>8, <2>1, <2>2, PartsAreNumbers
       DEF UnderWay, Returning, Traced, HoldingFinite
  <2> QED
    BY <1>1, <2>1, <2>3, CarriedOn DEF Answered
<1>10. CASE PeerAnswers
  <2>1. /\ PeerTakes /\ Head(outgoing).kind = "request"
        /\ Head(outgoing) \in Outgoing
    BY <1>8, <1>10 DEF PeerAnswers
  <2>2. PICK j \in Ids : Head(outgoing).id = j
    BY <2>1 DEF Outgoing
  <2>3. \A i \in Ids : Head(outgoing) \in RequestOf(i) <=> i = j
    BY <2>1, <2>2 DEF RequestOf
  <2>4. PICK m \in Incoming :
          /\ m.kind \in {"response", "error"} /\ m.id = j
          /\ incoming' = Append(incoming, m)
    <3>1. /\ [kind |-> "response", id |-> j, result |-> j] \in Incoming
          /\ [kind |-> "error", id |-> j] \in Incoming
      BY DEF Incoming
    <3>2. \/ incoming' = Append(incoming, [kind |-> "response", id |-> j,
                                           result |-> j])
          \/ incoming' = Append(incoming, [kind |-> "error", id |-> j])
      BY <1>10, <2>2 DEF PeerAnswers
    <3> QED
      BY <3>1, <3>2
  <2>5. \A i \in Ids : m \in AnswersTo(i) <=> i = j
    BY <2>4 DEF AnswersTo
  <2>6. ASSUME NEW i \in Ids
        PROVE  Returning(i)' = Returning(i) + (IF i = j THEN 1 ELSE 0)
    <3>1. Cardinality(Places(incoming', AnswersTo(i)))
            = Cardinality(Places(incoming, AnswersTo(i)))
                + (IF m \in AnswersTo(i) THEN 1 ELSE 0)
      BY <1>3, <2>4, PlacesAfterAppend
    <3> QED
      BY <2>5, <3>1 DEF Returning
  <2>7. \A i \in Ids : IsFiniteSet(Holding(i))' /\ UnderWay(i)' = UnderWay(i)
    BY <1>2, <1>8, <2>1, <2>3, <2>6, PartsAreNumbers
       DEF UnderWay, Traced, HoldingFinite
  <2>8. Answered("error") \subseteq Answered("error")'
    <3>1. answered[j] = "none"
      <4>1. outgoing # <<>>
        BY <2>1 DEF PeerTakes
      <4>2. Head(outgoing) = outgoing[1] /\ 1 \in 1 .. Len(outgoing)
        BY <1>3, <4>1, HeadTailProperties, EmptySeq
      <4> QED
        BY <2>1, <2>2, <4>2 DEF TransportInv, RequestsFresh
    <3>2. \A i \in Ids : i # j => answered'[i] = answered[i]
      BY <1>10, <2>2 DEF PeerAnswers, TransportInv, HistoryOK
    <3> QED
      BY <3>1, <3>2 DEF Answered
  <2> QED
    BY <1>1, <2>7, <2>8, CarriedOn
<1> QED
  BY <1>4, <1>6, <1>7, <1>9, <1>10 DEF Peer, PeerReads

LEMMA StepTraced ==
    ASSUME TransportInv, CallsInv, ErrorsCounted, Traced, [Next]_vars
    PROVE  Traced'
<1>1. CASE UNCHANGED vars
  <2>1. UNCHANGED <<nextId, pending, slot, outgoing, incoming, answered, line,
                    id>>
    BY <1>1 DEF vars, callerVars, peerVars
  <2> QED
    BY <2>1, QuietAnswers DEF Holding
<1>2. ASSUME NEW c \in Callers, Caller(c)
      PROVE  Traced'
  BY <1>2, CallAnswers, ResponseAnswers, ErrorAnswers, ReadAnswers,
     OtherCallerAnswers DEF Caller, Step
<1> QED
  BY <1>1, <1>2, PeerTraced DEF Next

LEMMA TracesAreUnderWay ==
    ASSUME TransportInv, NEW i \in Ids
    PROVE  Traces(i) = UnderWay(i)
<1>1. /\ outgoing \in Seq(Outgoing) /\ incoming \in Seq(Incoming)
      /\ line \in [Callers -> Incoming \cup {None}]
  BY DEF TransportInv, ChannelsOK, CallersOK
<1>2. /\ \A k \in 1 .. Len(outgoing) : outgoing[k] \in Outgoing
      /\ \A k \in 1 .. Len(incoming) : incoming[k] \in Incoming
  BY <1>1, ElementOfSeq
<1>3. CountOn(outgoing, i, {"request"}) = Asked(i)
  <2>1. {k \in 1 .. Len(outgoing) :
           outgoing[k].kind \in {"request"} /\ outgoing[k].id = i}
          = Places(outgoing, RequestOf(i))
    BY <1>2 DEF Places, RequestOf
  <2> QED
    BY <2>1 DEF CountOn, Asked
<1>4. CountOn(incoming, i, {"response", "error"}) = Returning(i)
  <2>1. {k \in 1 .. Len(incoming) :
           incoming[k].kind \in {"response", "error"} /\ incoming[k].id = i}
          = Places(incoming, AnswersTo(i))
    BY <1>2 DEF Places, AnswersTo
  <2> QED
    BY <2>1 DEF CountOn, Returning
<1>5. {c \in Callers : /\ line[c] # None
                       /\ line[c].kind \in {"response", "error"}
                       /\ line[c].id = i} = Holding(i)
  BY <1>1, NoneIsNoAnswer DEF Holding, AnswersTo
<1> QED
  BY <1>3, <1>4, <1>5 DEF Traces, UnderWay, Held, Delivered

\* As long as the peer sends no error response, the answer of every call that
\* has not ended is in exactly one place, and its sender waits for it: nothing
\* call, process_message or a failing call does loses or doubles an answer.
THEOREM TransportAnswerUnderWay == Spec => []AnswerUnderWay
<1>1. TransportInv /\ Traced => AnswerUnderWay
  <2> SUFFICES ASSUME TransportInv, Traced, Answered("error") = {},
                      NEW c \in Callers, id[c] # None
               PROVE  /\ Traces(id[c]) = 1
                      /\ id[c] \in pending <=> slot[id[c]] = None
    BY DEF AnswerUnderWay
  <2>1. id[c] \in Ids
    BY DEF TransportInv, CallersOK
  <2> QED
    BY <2>1, TracesAreUnderWay DEF Traced, OneEach
<1> QED
  BY <1>1, InitTransportInv, StepTransportInv, InitCallsInv, StepCallsInv,
     InitErrorsCounted, StepErrors, InitTraced, StepTraced, PTL DEF Spec
=============================================================================

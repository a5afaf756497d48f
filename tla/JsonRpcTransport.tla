--------------------------- MODULE JsonRpcTransport ---------------------------
(***************************************************************************)
(* JsonRpcTransport of crates/wasmi-plugin-pdk/src/transport.rs, shared by *)
(* several callers on one single-threaded executor, and its peer.          *)
(*                                                                         *)
(* There is no task that pumps the reader: each call pumps it while it     *)
(* waits, and hands the responses of other calls to their oneshot          *)
(* channels.  Only one call can pump at a time, the one that holds the     *)
(* reader's lock.  The guard of that lock lives in the scrutinee of a      *)
(* match, so a call that meets WouldBlock yields with the lock held.       *)
(*                                                                         *)
(* The executor is single-threaded: a caller that runs keeps running until *)
(* it awaits something that is not ready.  The lock of pending and that of *)
(* the writer are never held across an await and never contended; they     *)
(* need no state.                                                          *)
(*                                                                         *)
(* The peer answers requests in the order in which they were written, one  *)
(* at a time: it is another JsonRpcTransport, and process_message awaits   *)
(* its handler before the next line is read.                               *)
(***************************************************************************)
EXTENDS Naturals, Sequences, FiniteSets

CONSTANTS Callers,       \* the tasks that share the transport
          MaxCalls,      \* bound: calls that they make altogether
          PeerRequests,  \* the requests the peer makes on its own
          HasHandler,    \* with_handler or new
          Faults,        \* what may go wrong: "error" responses, "garbage"
                         \* lines, "eof", failing "write"s
          None           \* no caller, no call, no line, no payload

\* The ids of all calls that the bounds allow.
Ids == 0 .. MaxCalls - 1

\* What travels to the peer: requests, and replies to the peer's requests.
Outgoing == [kind : {"request"}, id : Ids]
                \cup [kind : {"reply"}, id : PeerRequests]

\* What travels from the peer.  A response carries the id of the call and a
\* result, here the id of the request it was computed from.
Incoming == [kind : {"response"}, id : Ids, result : Ids]
                \cup [kind : {"error"}, id : Ids]
                \cup [kind : {"request"}, id : PeerRequests]
                \cup [kind : {"garbage"}]

ASSUME TransportAssumption ==
    /\ MaxCalls \in Nat
    /\ HasHandler \in BOOLEAN
    /\ Faults \subseteq {"error", "garbage", "eof", "write"}
    /\ None \notin Callers \cup PeerRequests \cup Nat
    /\ None \notin Incoming
    /\ PeerRequests \cap Nat = {}

VARIABLES
    nextId,    \* the atomic counter id
    pending,   \* the ids that have a sender in the map pending
    slot,      \* the oneshot channel of each call: its result, or None
    holder,    \* who holds the lock of the reader, or None
    running,   \* the caller the executor is running, or None
    pc,        \* where each caller is
    id,        \* the call each caller is in, or None
    line,      \* the line each caller is processing, or None
    outgoing,  \* lines written and not yet taken by the peer
    incoming,  \* lines from the peer that were not read yet
    open,      \* the peer has not closed its end
    unasked,   \* bound: the peer's requests that it has not made yet
    outcome,   \* history: how each call ended, "none" while it has not
    answered   \* history: how the peer answered each call, or "none"

callerVars == <<holder, running, pc, id, line>>
peerVars == <<incoming, open, unasked, answered>>
vars == <<nextId, pending, slot, callerVars, outgoing, peerVars, outcome>>

CallersOK == /\ holder \in Callers \cup {None}
             /\ running \in Callers \cup {None}
             /\ pc \in [Callers -> {"idle", "check", "lock", "waitLock",
                                    "read", "yield", "process", "handle"}]
             /\ id \in [Callers -> Ids \cup {None}]
             /\ line \in [Callers -> Incoming \cup {None}]

ChannelsOK == /\ nextId \in Nat
              /\ pending \subseteq Ids
              /\ slot \in [Ids -> Ids \cup {None}]
              /\ outgoing \in Seq(Outgoing)
              /\ incoming \in Seq(Incoming)
              /\ open \in BOOLEAN
              /\ unasked \subseteq PeerRequests

HistoryOK == /\ outcome \in [Ids -> {"none", "ok", "error", "failed"}]
             /\ answered \in [Ids -> {"none", "ok", "error"}]

TypeOK == CallersOK /\ ChannelsOK /\ HistoryOK

Init == /\ nextId = 0
        /\ pending = {}
        /\ slot = [i \in Ids |-> None]
        /\ holder = None
        /\ running = None
        /\ pc = [c \in Callers |-> "idle"]
        /\ id = [c \in Callers |-> None]
        /\ line = [c \in Callers |-> None]
        /\ outgoing = <<>>
        /\ incoming = <<>>
        /\ open = TRUE
        /\ unasked = PeerRequests
        /\ outcome = [i \in Ids |-> "none"]
        /\ answered = [i \in Ids |-> "none"]

-----------------------------------------------------------------------------
(***************************************************************************)
(* A caller.  At(c, l): it is running and about to do l.                   *)
(***************************************************************************)
At(c, l) == running = c /\ pc[c] = l

\* The call of c ends.  The task goes on running: it may call again without
\* an await in between.  An entry left in pending stays there.
Ends(c, how) == /\ outcome' = [outcome EXCEPT ![id[c]] = how]
                /\ id' = [id EXCEPT ![c] = None]
                /\ pc' = [pc EXCEPT ![c] = "idle"]

\* call, up to its loop: take an id, insert the sender, write the request.
Call(c) ==
    /\ running \in {None, c}
    /\ pc[c] = "idle"
    /\ nextId \in Ids
    /\ nextId' = nextId + 1
    /\ pending' = pending \cup {nextId}
    /\ running' = c
    /\ \/ /\ outgoing' = Append(outgoing, [kind |-> "request", id |-> nextId])
          /\ id' = [id EXCEPT ![c] = nextId]
          /\ pc' = [pc EXCEPT ![c] = "check"]
          /\ UNCHANGED outcome
       \/ /\ "write" \in Faults
          /\ outcome' = [outcome EXCEPT ![nextId] = "failed"]
          /\ UNCHANGED <<outgoing, id, pc>>
    /\ UNCHANGED <<slot, holder, line, peerVars>>

\* The task awaits something else, or is done.
Pause(c) == /\ At(c, "idle")
            /\ running' = None
            /\ UNCHANGED <<nextId, pending, slot, holder, pc, id, line,
                           outgoing, peerVars, outcome>>

\* rx.try_recv(): return the result, or go and pump one line.
Check(c) ==
    /\ At(c, "check")
    /\ \/ /\ slot[id[c]] # None
          /\ Ends(c, "ok")
       \/ /\ slot[id[c]] = None
          /\ pc' = [pc EXCEPT ![c] = "lock"]
          /\ UNCHANGED <<id, outcome>>
    /\ UNCHANGED <<nextId, pending, slot, holder, running, line, outgoing,
                   peerVars>>

\* self.reader.lock().await: take the lock if it is free, whoever waits for it.
Lock(c) ==
    /\ At(c, "lock")
    /\ \/ /\ holder = None
          /\ holder' = c
          /\ pc' = [pc EXCEPT ![c] = "read"]
          /\ UNCHANGED running
       \/ /\ holder # None
          /\ pc' = [pc EXCEPT ![c] = "waitLock"]
          /\ running' = None
          /\ UNCHANGED holder
    /\ UNCHANGED <<nextId, pending, slot, id, line, outgoing, peerVars,
                   outcome>>

\* The waiter is woken when the lock is released, and finds it free.
WaitEnds(c) ==
    /\ running = None
    /\ pc[c] = "waitLock"
    /\ holder = None
    /\ holder' = c
    /\ pc' = [pc EXCEPT ![c] = "read"]
    /\ running' = c
    /\ UNCHANGED <<nextId, pending, slot, id, line, outgoing, peerVars,
                   outcome>>

\* Faulty: the guard lives until the line is processed.
ReadLineKeepsGuard(c) ==
    /\ At(c, "read")
    /\ incoming # <<>>
    /\ line' = [line EXCEPT ![c] = Head(incoming)]
    /\ incoming' = Tail(incoming)
    /\ pc' = [pc EXCEPT ![c] = "process"]
    /\ UNCHANGED <<nextId, pending, slot, holder, running, id, outgoing, open,
                   unasked, answered, outcome>>

\* read_line has a line; the guard is dropped with the return of next_line.
ReadLine(c) ==
    /\ At(c, "read")
    /\ incoming # <<>>
    /\ line' = [line EXCEPT ![c] = Head(incoming)]
    /\ incoming' = Tail(incoming)
    /\ holder' = None
    /\ pc' = [pc EXCEPT ![c] = "process"]
    /\ UNCHANGED <<nextId, pending, slot, running, id, outgoing, open, unasked,
                   answered, outcome>>

\* Faulty: the end of the stream is taken for WouldBlock.
ReadEofAsWouldBlock(c) ==
    /\ At(c, "read")
    /\ incoming = <<>>
    /\ ~open
    /\ pc' = [pc EXCEPT ![c] = "yield"]
    /\ running' = None
    /\ UNCHANGED <<nextId, pending, slot, holder, id, line, outgoing, peerVars,
                   outcome>>

\* Ok(0): the call fails.
ReadEof(c) ==
    /\ At(c, "read")
    /\ incoming = <<>>
    /\ ~open
    /\ holder' = None
    /\ Ends(c, "failed")
    /\ UNCHANGED <<nextId, pending, slot, running, line, outgoing, peerVars>>

\* WouldBlock: yield_now().await, with the guard alive.
ReadWouldBlock(c) ==
    /\ At(c, "read")
    /\ incoming = <<>>
    /\ open
    /\ pc' = [pc EXCEPT ![c] = "yield"]
    /\ running' = None
    /\ UNCHANGED <<nextId, pending, slot, holder, id, line, outgoing, peerVars,
                   outcome>>

\* The yield is over: continue drops the guard and the loop takes the lock
\* back before anybody else can.
YieldEnds(c) ==
    /\ running = None
    /\ pc[c] = "yield"
    /\ pc' = [pc EXCEPT ![c] = "read"]
    /\ running' = c
    /\ UNCHANGED <<nextId, pending, slot, holder, id, line, outgoing, peerVars,
                   outcome>>

-----------------------------------------------------------------------------
(***************************************************************************)
(* process_next_line after the line was read, and process_message.         *)
(***************************************************************************)
Processing(c, kind) == At(c, "process") /\ line[c].kind = kind

Live(i) == \E c \in Callers : id[c] = i

\* Faulty: the response goes to whoever was the last to call.
ReceiverIsLatest(resp) ==
    {i \in pending : \A j \in pending : j =< i}

\* pending.remove(&resp.id): the call the response is sent to, if any.
Receiver(resp) == pending \cap {resp.id}

\* Faulty: the sender is looked up and left in the map.
RemainPending(i) == pending

Forget(i) == pending \ i

\* A response: its sender is taken from the map and used.  A response nobody
\* waits for is dropped, as is one whose call has already failed (the send
\* fails and its error is ignored).
ProcessResponse(c) ==
    /\ Processing(c, "response")
    /\ pending' = Forget(Receiver(line[c]))
    /\ slot' = [i \in Ids |-> IF i \in Receiver(line[c]) /\ Live(i)
                              THEN line[c].result ELSE slot[i]]
    /\ line' = [line EXCEPT ![c] = None]
    /\ pc' = [pc EXCEPT ![c] = "check"]
    /\ UNCHANGED <<nextId, holder, running, id, outgoing, peerVars, outcome>>

\* An error response, whatever its id: the call that read it returns the error.
ProcessError(c) ==
    /\ Processing(c, "error")
    /\ line' = [line EXCEPT ![c] = None]
    /\ Ends(c, "error")
    /\ UNCHANGED <<nextId, pending, slot, holder, running, outgoing, peerVars>>

\* A line that is no message, and a request when there is no handler: the call
\* that read it fails.
ProcessFails(c) ==
    /\ Processing(c, "garbage") \/ (Processing(c, "request") /\ ~HasHandler)
    /\ line' = [line EXCEPT ![c] = None]
    /\ Ends(c, "failed")
    /\ UNCHANGED <<nextId, pending, slot, holder, running, outgoing, peerVars>>

\* A request: the handler's future is awaited in the call that read it.
ProcessRequest(c) ==
    /\ Processing(c, "request")
    /\ HasHandler
    /\ pc' = [pc EXCEPT ![c] = "handle"]
    /\ running' \in {c, None}
    /\ UNCHANGED <<nextId, pending, slot, holder, id, line, outgoing, peerVars,
                   outcome>>

\* Faulty: the response carries the id of the call that pumps.
ReplyWithOwnId(c) == [kind |-> "reply", id |-> id[c]]

\* The response to the peer's request, whether the handler succeeded or not.
Reply(c) == [kind |-> "reply", id |-> line[c].id]

\* Faulty: the handler's error is returned by the call and not written back.
HandlerDoneOrCallFails(c) ==
    /\ pc[c] = "handle"
    /\ running \in {None, c}
    /\ running' = c
    /\ line' = [line EXCEPT ![c] = None]
    /\ \/ /\ outgoing' = Append(outgoing, Reply(c))
          /\ pc' = [pc EXCEPT ![c] = "check"]
          /\ UNCHANGED <<id, outcome>>
       \/ /\ Ends(c, "error")
          /\ UNCHANGED outgoing
    /\ UNCHANGED <<nextId, pending, slot, holder, peerVars>>

HandlerDone(c) ==
    /\ pc[c] = "handle"
    /\ running \in {None, c}
    /\ running' = c
    /\ line' = [line EXCEPT ![c] = None]
    /\ \/ /\ outgoing' = Append(outgoing, Reply(c))
          /\ pc' = [pc EXCEPT ![c] = "check"]
          /\ UNCHANGED <<id, outcome>>
       \/ /\ "write" \in Faults
          /\ Ends(c, "failed")
          /\ UNCHANGED outgoing
    /\ UNCHANGED <<nextId, pending, slot, holder, peerVars>>

-----------------------------------------------------------------------------
(***************************************************************************)
(* The peer.                                                               *)
(***************************************************************************)
PeerTakes == /\ open
             /\ outgoing # <<>>
             /\ outgoing' = Tail(outgoing)

PeerAnswers ==
    /\ PeerTakes
    /\ Head(outgoing).kind = "request"
    /\ LET i == Head(outgoing).id IN
         \/ /\ incoming' = Append(incoming,
                             [kind |-> "response", id |-> i, result |-> i])
            /\ answered' = [answered EXCEPT ![i] = "ok"]
         \/ /\ "error" \in Faults
            /\ incoming' = Append(incoming, [kind |-> "error", id |-> i])
            /\ answered' = [answered EXCEPT ![i] = "error"]
    /\ UNCHANGED <<nextId, pending, slot, callerVars, open, unasked, outcome>>

PeerTakesReply ==
    /\ PeerTakes
    /\ Head(outgoing).kind = "reply"
    /\ UNCHANGED <<nextId, pending, slot, callerVars, peerVars, outcome>>

PeerAsks(r) ==
    /\ open
    /\ r \in unasked
    /\ unasked' = unasked \ {r}
    /\ incoming' = Append(incoming, [kind |-> "request", id |-> r])
    /\ UNCHANGED <<nextId, pending, slot, callerVars, outgoing, open, answered,
                   outcome>>

\* Bound: one line of garbage at a time.
PeerBabbles ==
    /\ open
    /\ "garbage" \in Faults
    /\ \A k \in 1 .. Len(incoming) : incoming[k].kind # "garbage"
    /\ incoming' = Append(incoming, [kind |-> "garbage"])
    /\ UNCHANGED <<nextId, pending, slot, callerVars, outgoing, open, unasked,
                   answered, outcome>>

PeerCloses ==
    /\ open
    /\ "eof" \in Faults
    /\ open' = FALSE
    /\ UNCHANGED <<nextId, pending, slot, callerVars, outgoing, incoming,
                   unasked, answered, outcome>>

-----------------------------------------------------------------------------
\* What a caller does once its call has begun.
Step(c) == \/ Check(c) \/ Lock(c) \/ WaitEnds(c)
           \/ ReadLine(c) \/ ReadEof(c) \/ ReadWouldBlock(c) \/ YieldEnds(c)
           \/ ProcessResponse(c) \/ ProcessError(c) \/ ProcessFails(c)
           \/ ProcessRequest(c) \/ HandlerDone(c)

Caller(c) == Call(c) \/ Pause(c) \/ Step(c)

PeerReads == PeerAnswers \/ PeerTakesReply

Peer == \/ PeerReads
        \/ \E r \in PeerRequests : PeerAsks(r)
        \/ PeerBabbles
        \/ PeerCloses

Next == (\E c \in Callers : Caller(c)) \/ Peer

Spec == Init /\ [][Next]_vars

(***************************************************************************)
(* The executor runs every caller that can go on; a task whose call has    *)
(* returned goes on to something else in the end; the peer reads and       *)
(* answers as long as it is there.  Nobody has to make a call, close the   *)
(* connection or send a line of its own.                                   *)
(***************************************************************************)
FairSpec == /\ Spec
            /\ \A c \in Callers : WF_vars(Step(c) \/ Pause(c))
            /\ WF_vars(PeerReads)

-----------------------------------------------------------------------------
(***************************************************************************)
(* Safety.                                                                 *)
(***************************************************************************)

\* What a call is given was computed from its own request, whatever responses
\* to earlier, failed calls are still on their way.
OwnResult == \A i \in Ids : slot[i] \in {None, i}

\* A call returns Ok only if the peer answered it with a response.
OkIsThePeers == \A i \in Ids : outcome[i] = "ok" => answered[i] = "ok"

\* The calls that ended in some way, and those the peer answered in some way.
Ended(how) == {i \in Ids : outcome[i] = how}

Answered(how) == {i \in Ids : answered[i] = how}

\* A call returns the peer's error only if the peer answered that call, and no
\* other, with an error.  It does not hold for concurrent callers.
ErrorIsThePeers == Ended("error") \subseteq Answered("error")

\* No error response fails more than one call, and without any from the peer
\* no call returns an error: an error of the handler is the peer's to see.
ErrorsAreThePeers ==
    Cardinality(Ended("error")) =< Cardinality(Answered("error"))

CountOn(s, i, kinds) ==
    Cardinality({k \in 1 .. Len(s) : s[k].kind \in kinds /\ s[k].id = i})

\* Where the request of call i or the answer to it is: on the way out, on the
\* way back, in the hands of a caller, or in the call's own channel.
Traces(i) ==
    CountOn(outgoing, i, {"request"})
      + CountOn(incoming, i, {"response", "error"})
      + Cardinality({c \in Callers : /\ line[c] # None
                                     /\ line[c].kind \in {"response", "error"}
                                     /\ line[c].id = i})
      + (IF slot[i] # None THEN 1 ELSE 0)

\* An error response fails the call that reads it, whose own answer is then
\* still on its way.  Until one was sent, the answer of a call that has not
\* ended is never lost or duplicated, whatever befalls other calls, and its
\* sender waits in pending for as long as the answer is not delivered.
AnswerUnderWay ==
    Answered("error") = {} =>
      \A c \in Callers : id[c] # None =>
        /\ Traces(id[c]) = 1
        /\ id[c] \in pending <=> slot[id[c]] = None

\* Unless a call failed, the map holds no sender of a call that has ended.
NothingLeftPending ==
    Ended("error") \cup Ended("failed") = {} => \A i \in pending : Live(i)

\* The reader is locked exactly by the caller that reads or sleeps over it.
ReaderLocked ==
    \A c \in Callers : holder = c <=> pc[c] \in {"read", "yield"}

-----------------------------------------------------------------------------
(***************************************************************************)
(* Liveness.                                                               *)
(***************************************************************************)

\* Every call ends.  It does not hold for concurrent callers.
CallsEnd == \A c \in Callers : (id[c] # None) ~> (id[c] = None)

\* The answer of a call is in its channel, where another call put it while this
\* one waited for the lock; it looks there only when it has read another line.
Stranded(c) == pc[c] \in {"waitLock", "read", "yield"} /\ slot[id[c]] # None

\* The answer of a call was an error response, and another call returned it.
Robbed(c) == answered[id[c]] = "error" /\ Traces(id[c]) = 0

\* There is no third way in which a call can hang: it ends, or is stranded, or
\* was robbed of its answer, also when the peer closes or babbles.
CallsEndOrHang ==
    \A c \in Callers :
      (id[c] # None) ~> (id[c] = None \/ Stranded(c) \/ Robbed(c))
=============================================================================

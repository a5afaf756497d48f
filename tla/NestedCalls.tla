------------------------------ MODULE NestedCalls ------------------------------
(***************************************************************************)
(* What nested calls between a host and its plugins promise, without       *)
(* messages, ids or instances: activations form a stack on which host and  *)
(* guests alternate, a host method knows the plugin that called it, and    *)
(* whatever an activation raises is what its caller is given.              *)
(***************************************************************************)
EXTENDS Naturals, Sequences

CONSTANTS Plugin, Calls, Outcome,
          Death,   \* the outcome of a guest that dies, a member of Outcome
          None

VARIABLES active,  \* the stack, the application at the bottom
          raised,  \* how each call ended, or None
          given    \* what its caller was told, or None

vars == <<active, raised, given>>

Top == active[Len(active)]

Init == /\ active = <<[call |-> 0, side |-> "host", plugin |-> None]>>
        /\ raised = [n \in Calls |-> None]
        /\ given = [n \in Calls |-> None]

New(n) == raised[n] = None /\ \A k \in 1 .. Len(active) : active[k].call # n

\* An activation begins, and may end at once.
Invoke(n, p, o) ==
    /\ New(n)
    /\ Top.call = 0 \/ raised[Top.call] = None \/ Top.side = "guest"
    /\ Top.side = "guest" => p = Top.plugin
    /\ active' = Append(active,
         [call |-> n, plugin |-> p,
          side |-> IF Top.side = "guest" THEN "host" ELSE "guest"])
    /\ raised' = [raised EXCEPT ![n] = o]
    /\ UNCHANGED given

\* A call that never comes to an activation.
Fail(n, o) == /\ New(n)
              /\ raised' = [raised EXCEPT ![n] = o]
              /\ given' = [given EXCEPT ![n] = o]
              /\ UNCHANGED active

\* The top ends in any way; a guest below it can only die.
Raise(k, o) ==
    /\ active[k].call # 0
    /\ raised[active[k].call] = None
    /\ k = Len(active) \/ (active[k].side = "guest" /\ o = Death)
    /\ raised' = [raised EXCEPT ![active[k].call] = o]
    /\ UNCHANGED <<active, given>>

\* The caller is told, unless it is dead.
Return ==
    LET n == Top.call
        caller == active[Len(active) - 1].call
    IN  /\ n # 0
        /\ raised[n] # None
        /\ active' = SubSeq(active, 1, Len(active) - 1)
        /\ \/ /\ caller = 0 \/ raised[caller] = None
              /\ given' = [given EXCEPT ![n] = raised[n]]
           \/ /\ caller # 0
              /\ raised[caller] # None
              /\ UNCHANGED given
        /\ UNCHANGED raised

Next == \/ \E n \in Calls, p \in Plugin, o \in Outcome \cup {None} : Invoke(n, p, o)
        \/ \E n \in Calls, o \in Outcome : Fail(n, o)
        \/ \E k \in 1 .. Len(active), o \in Outcome : Raise(k, o)
        \/ Return

Spec == Init /\ [][Next]_vars
=============================================================================

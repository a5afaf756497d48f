----------------------------- MODULE CallContract -----------------------------
(***************************************************************************)
(* What one Plugin::call promises its caller, without pipes, polls or      *)
(* wake-ups.  The plugin says things and logs things until it stops.  The  *)
(* call decides by the first thing the plugin says that settles the call,  *)
(* or finds that the plugin stopped without one.  It returns only when the *)
(* plugin has stopped and the logger was shown every readable log line.    *)
(***************************************************************************)
EXTENDS Naturals, Sequences

CONSTANTS Verdict,    \* what the plugin can say that settles the call
          Log,        \* what the plugin can log
          Unreadable  \* the logs that are not UTF-8: the logger stops at one

VARIABLES verdict,   \* what the plugin said first, or "none"
          logs,      \* everything the plugin has logged
          stopped,   \* the plugin runs no more
          outcome,   \* what the call has decided, or "pending"
          shown,     \* the lines the logger was shown
          returned   \* the call has returned

vars == <<verdict, logs, stopped, outcome, shown, returned>>

Init == /\ verdict = "none"
        /\ logs = <<>>
        /\ stopped = FALSE
        /\ outcome = "pending"
        /\ shown = <<>>
        /\ returned = FALSE

Say == /\ ~stopped
       /\ verdict = "none"
       /\ verdict' \in Verdict
       /\ UNCHANGED <<logs, stopped, outcome, shown, returned>>

WriteLog == /\ ~stopped
            /\ \E l \in Log : logs' = Append(logs, l)
            /\ UNCHANGED <<verdict, stopped, outcome, shown, returned>>

Stop == /\ ~stopped
        /\ stopped' = TRUE
        /\ UNCHANGED <<verdict, logs, outcome, shown, returned>>

Decide == /\ outcome = "pending"
          /\ \/ verdict # "none" /\ outcome' = verdict
             \/ stopped /\ verdict = "none" /\ outcome' = "eof"
          /\ UNCHANGED <<verdict, logs, stopped, shown, returned>>

ShowLog == /\ Len(shown) < Len(logs)
           /\ logs[Len(shown) + 1] \notin Unreadable
           /\ shown' = Append(shown, logs[Len(shown) + 1])
           /\ UNCHANGED <<verdict, logs, stopped, outcome, returned>>

AllShown == \/ shown = logs
            \/ /\ Len(shown) < Len(logs)
               /\ logs[Len(shown) + 1] \in Unreadable

Return == /\ stopped
          /\ outcome # "pending"
          /\ AllShown
          /\ returned' = TRUE
          /\ UNCHANGED <<verdict, logs, stopped, outcome, shown>>

Next == Say \/ WriteLog \/ Stop \/ Decide \/ ShowLog \/ Return

Spec == Init /\ [][Next]_vars
=============================================================================

---------------------------- MODULE HandleQueue ----------------------------
(***************************************************************************)
(* What the pool of error handles promises its callers, without rings,     *)
(* positions or slots: handles wait in a queue and the one that has waited *)
(* longest is used next; a new one is made only for a caller that found    *)
(* the queue empty; and the queue may be forgotten as a whole, but only    *)
(* when the last handle that is in use comes back to it.                   *)
(***************************************************************************)
EXTENDS Sequences

CONSTANTS Callers, Handles, NULL

VARIABLES
    queue,      \* handles waiting to be used, oldest first
    creating,   \* callers that were told to create a handle
    made,       \* handles created so far
    held        \* the handle of each caller, or NULL

qvars == <<queue, creating, made, held>>

QInit ==
    /\ queue = <<>>
    /\ creating = {}
    /\ made = {}
    /\ held = [c \in Callers |-> NULL]

Take(c) ==
    /\ held[c] = NULL
    /\ c \notin creating
    /\ queue # <<>>
    /\ held' = [held EXCEPT ![c] = Head(queue)]
    /\ queue' = Tail(queue)
    /\ UNCHANGED <<creating, made>>

FindEmpty(c) ==
    /\ held[c] = NULL
    /\ c \notin creating
    /\ queue = <<>>
    /\ creating' = creating \cup {c}
    /\ UNCHANGED <<queue, made, held>>

Create(c) ==
    /\ c \in creating
    /\ creating' = creating \ {c}
    /\ \/ \E h \in Handles \ made :
             /\ made' = made \cup {h}
             /\ held' = [held EXCEPT ![c] = h]
       \/ UNCHANGED <<made, held>>
    /\ UNCHANGED queue

GiveBack(c) ==
    /\ held[c] # NULL
    /\ held' = [held EXCEPT ![c] = NULL]
    /\ \/ queue' = Append(queue, held[c])
       \/ /\ queue' = <<>>
          /\ creating = {}
          /\ \A d \in Callers \ {c} : held[d] = NULL
    /\ UNCHANGED <<creating, made>>

Forget(c) ==
    /\ held[c] # NULL
    /\ held' = [held EXCEPT ![c] = NULL]
    /\ UNCHANGED <<queue, creating, made>>

QNext ==
    \E c \in Callers :
        Take(c) \/ FindEmpty(c) \/ Create(c) \/ GiveBack(c) \/ Forget(c)

QSpec == QInit /\ [][QNext]_qvars
=============================================================================

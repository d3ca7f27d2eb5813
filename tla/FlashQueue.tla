----------------------------- MODULE FlashQueue -----------------------------
(***************************************************************************)
(* What the flash controller promises the firmware, whatever happens       *)
(* behind its command port: every bank is a FIFO of the commands issued to *)
(* it, at most one command in the whole controller waits behind a busy     *)
(* bank, and a controller reset empties every queue without running        *)
(* anything.  FlashPort implements this module.                            *)
(***************************************************************************)
EXTENDS Integers, Sequences

CONSTANTS Banks,    \* the real banks of the controller
          Ids       \* names of commands; 0 for the NAND reset and FC_WAIT of a recovery

VARIABLES queue,    \* queue[b]: the commands of bank b not yet finished, oldest first
          finished  \* the finished commands, 0 left out

vars == <<queue, finished>>

Init == /\ queue = [b \in Banks |-> <<>>]
        /\ finished = {}

\* A command joins its bank's queue; nobody else in the controller is waiting.
Submit(b, c) == /\ \A a \in Banks : Len(queue[a]) <= 1
                /\ queue' = [queue EXCEPT ![b] = Append(@, c)]
                /\ UNCHANGED finished

\* The oldest command of a bank finishes.
Retire(b) == /\ queue[b] # <<>>
             /\ finished' = finished \cup ({Head(queue[b])} \ {0})
             /\ queue' = [queue EXCEPT ![b] = Tail(@)]

\* A controller reset throws every unfinished command away.
Abandon == /\ queue' = [b \in Banks |-> <<>>]
           /\ UNCHANGED finished

Next == \/ \E b \in Banks, c \in Ids : Submit(b, c)
        \/ \E b \in Banks : Retire(b)
        \/ Abandon

Spec == Init /\ [][Next]_vars
=============================================================================

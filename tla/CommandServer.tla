--------------------------- MODULE CommandServer ----------------------------
(***************************************************************************)
(* What the drive promises a host that has one command or reset            *)
(* outstanding: what it has sent is in the drive once, is answered once,   *)
(* and nothing else is answered in between.  There are two exceptions: a   *)
(* slow command or a reset may be forgotten, and after a reset the host    *)
(* may take what the drive still does for a command it has given up for    *)
(* the answer to a new one; then all is in doubt until its next reset.     *)
(* SataCmd implements this module.                                         *)
(***************************************************************************)

CONSTANTS Commands,    \* what a host may send
          Resets,      \* its resets
          Mailed,      \* commands and resets that may be forgotten
          None

VARIABLES
  waiting,    \* what the host waits for, or None
  inside,     \* what the drive will answer, of what was sent since the last reset
  doubt,      \* the host has taken an answer for another
  wasReset    \* the host has reset the drive before

vars == <<waiting, inside, doubt, wasReset>>

Init == /\ waiting \in Resets /\ inside = {waiting}
        /\ ~doubt /\ ~wasReset

Send(c) == /\ waiting = None
           /\ waiting' = c
           /\ inside' = IF doubt THEN {} ELSE inside \cup {c}
           /\ UNCHANGED <<doubt, wasReset>>

Reset(r) == /\ waiting' = r /\ inside' = {r}
            /\ doubt' = FALSE /\ wasReset' = TRUE

Answer == /\ waiting \in inside
          /\ waiting' = None /\ inside' = inside \ {waiting}
          /\ UNCHANGED <<doubt, wasReset>>

Forget == /\ inside # {} /\ inside \subseteq Mailed
          /\ inside' = {}
          /\ UNCHANGED <<waiting, doubt, wasReset>>

\* The drive is late with something of before the reset.
Confuse == /\ wasReset /\ ~doubt
           /\ waiting' \in {waiting, None}
           /\ inside' = {} /\ doubt' = TRUE
           /\ UNCHANGED wasReset

AnyAnswer == /\ doubt
             /\ waiting' = None
             /\ UNCHANGED <<inside, doubt, wasReset>>

Next == \/ \E c \in Commands : Send(c)
        \/ \E r \in Resets : Reset(r)
        \/ Answer \/ Forget \/ Confuse \/ AnyAnswer

Spec == Init /\ [][Next]_vars
=============================================================================

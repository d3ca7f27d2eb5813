----------------------------- MODULE PageStream -----------------------------
(***************************************************************************)
(* What the ring of read buffers promises the FTL and the host, whatever   *)
(* order the banks finish in: pages are asked for one at a time, arrive    *)
(* in any order, leave in the order in which they were asked for, and a    *)
(* call returns only when there is room for its page.  No page is lost     *)
(* but by a recovery, which loses all that have not arrived.  ReadRing     *)
(* implements this module.                                                 *)
(***************************************************************************)
EXTENDS Integers

CONSTANT Capacity    \* pages under way when a call returns

VARIABLES
  asked,     \* pages asked for; the last one by the call in progress, if
  calling,   \* there is one
  sent,      \* pages delivered
  arrived,   \* pages that wait for their turn
  lost       \* pages that will not arrive

vars == <<asked, calling, sent, arrived, lost>>

Init == asked = 0 /\ ~calling /\ sent = 0 /\ arrived = {} /\ lost = {}

\* Pages whose call has returned and that are still to come.
Expected == {p \in sent + 1 .. asked : p \notin arrived \cup lost /\ (calling => p # asked)}

Ask == /\ ~calling
       /\ asked' = asked + 1 /\ calling' = TRUE
       /\ UNCHANGED <<sent, arrived, lost>>

Return == /\ calling /\ asked - sent <= Capacity
          /\ calling' = FALSE
          /\ UNCHANGED <<asked, sent, arrived, lost>>

Recover == /\ calling /\ asked - sent <= Capacity /\ Expected # {}
           /\ calling' = FALSE
           /\ lost' = lost \cup Expected \cup {asked}
           /\ UNCHANGED <<asked, sent, arrived>>

Arrive(p) == /\ p \in Expected
             /\ arrived' = arrived \cup {p}
             /\ UNCHANGED <<asked, calling, sent, lost>>

Deliver == /\ sent + 1 \in arrived
           /\ arrived' = arrived \ {sent + 1} /\ sent' = sent + 1
           /\ UNCHANGED <<asked, calling, lost>>

Next == Ask \/ Return \/ Recover \/ (\E p \in Expected : Arrive(p)) \/ Deliver

Spec == Init /\ [][Next]_vars
=============================================================================

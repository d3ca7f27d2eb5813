------------------------------ MODULE ReadRing ------------------------------
(***************************************************************************)
(* The ring of page buffers in DRAM through which data go from flash to    *)
(* the host.  nand_page_read_to_host and nand_page_ptread_to_host          *)
(* (flash_wrapper.c) take the next buffer for each call, wait for room in  *)
(* the ring and issue one flash command; the hardware fills the buffer and *)
(* sends it by itself.  The flash controller may lose commands in a        *)
(* recovery (FlashPort), and nothing puts the ring right after it.         *)
(*                                                                         *)
(* Pages are numbered in the order of the calls; a buffer holds the number *)
(* of the page that waits in it, or 0.                                     *)
(***************************************************************************)
EXTENDS Integers, FiniteSets

CONSTANTS NumRd,      \* NUM_RD_BUFFERS
          NumBanks,   \* NUM_BANKS
          MaxReads    \* bound: pages read to the host

ASSUME NumRdAssumption == NumRd \in Nat /\ NumRd > 1
ASSUME NumBanksAssumption == NumBanks \in Nat \ {0}
ASSUME MaxReadsAssumption == MaxReads \in Nat

Bufs == 0 .. NumRd - 1
Pages == 1 .. MaxReads

VARIABLES
  pc,        \* Main: between calls, in the loop on SATA_RBUF_PTR, or in flash_issue_cmd
  fcp,       \* the command in the FCP registers: which buffer, which page
  inFlight,  \* commands issued and not finished
  readId,    \* g_ftl_read_buf_id
  rbufPtr,   \* SATA_RBUF_PTR
  buf,       \* the read buffers
  asked,     \* pages the FTL has read to the host so far
  sent,      \* pages the host has received
  lost       \* history: pages whose command a recovery has thrown away

ring == <<readId, rbufPtr, buf, asked, sent>>
vars == <<pc, fcp, inFlight, ring, lost>>

Commands == [buf : Bufs, page : Pages]
NoCommand == [buf |-> 0, page |-> 0]

\* ftl_open sets the id to 0, sata_reset the pointer.
Init ==
  /\ pc = "idle" /\ fcp = NoCommand /\ inFlight = {} /\ lost = {}
  /\ readId = 0 /\ rbufPtr = 0 /\ buf = [b \in Bufs |-> 0]
  /\ asked = 0 /\ sent = 0

-----------------------------------------------------------------------------
(* The firmware. *)

\* The id that follows (slip: the ring is taken to have one buffer more).
NextIdLate(id) == (id + 1) % (NumRd + 1)
NextId(id) == (id + 1) % NumRd

\* The routine up to its loop: the id is advanced before the command is issued.
ReadToHost ==
  /\ pc = "idle" /\ asked < MaxReads
  /\ asked' = asked + 1
  /\ fcp' = [buf |-> readId, page |-> asked + 1]
  /\ readId' = NextId(readId)
  /\ pc' = "spin"
  /\ UNCHANGED <<inFlight, rbufPtr, buf, sent, lost>>

\* The loop ends when the next buffer is not the one to be sent (slips: the loop is left
\* out; it looks at the buffer just taken).
NoWait == TRUE
TakenBuffer == fcp.buf # rbufPtr
RingHasRoom == readId # rbufPtr

LeaveSpin ==
  /\ pc = "spin" /\ RingHasRoom
  /\ pc' = "issue"
  /\ UNCHANGED <<fcp, inFlight, ring, lost>>

\* flash_issue_cmd(bank, RETURN_ON_ISSUE): each bank runs a command, and one waits.
Issue ==
  /\ pc = "issue" /\ Cardinality(inFlight) < NumBanks + 1
  /\ inFlight' = inFlight \cup {fcp}
  /\ pc' = "idle"
  /\ UNCHANGED <<fcp, ring, lost>>

\* A time-out in flash_issue_cmd: flash_reset_one_bank drops what is in the controller,
\* overwrites the FCP registers, and leaves the ring as it is.
IssueRecovers ==
  /\ pc = "issue" /\ inFlight # {}
  /\ lost' = lost \cup {fcp.page} \cup {c.page : c \in inFlight}
  /\ inFlight' = {}
  /\ pc' = "idle"
  /\ UNCHANGED <<fcp, ring>>

-----------------------------------------------------------------------------
(* The hardware (external). *)

\* [flash -> DRAM]; the banks finish in any order.
FlashOut(c) ==
  /\ c \in inFlight
  /\ buf' = [buf EXCEPT ![c.buf] = c.page]
  /\ inFlight' = inFlight \ {c}
  /\ UNCHANGED <<pc, fcp, readId, rbufPtr, asked, sent, lost>>

\* FO_B_SATA_R: [DRAM -> SATA] follows, buffer after buffer.
SataSend ==
  /\ buf[rbufPtr] # 0
  /\ buf' = [buf EXCEPT ![rbufPtr] = 0]
  /\ rbufPtr' = (rbufPtr + 1) % NumRd
  /\ sent' = sent + 1
  /\ UNCHANGED <<pc, fcp, inFlight, readId, asked, lost>>

-----------------------------------------------------------------------------
Next ==
  \/ ReadToHost \/ LeaveSpin \/ Issue \/ IssueRecovers
  \/ \E c \in Commands : FlashOut(c)
  \/ SataSend

Spec == Init /\ [][Next]_vars

\* A call in progress goes on, every command in the controller finishes, and the host
\* takes what is sent.
Fairness ==
  /\ WF_vars(LeaveSpin \/ Issue)
  /\ \A c \in Commands : WF_vars(FlashOut(c))
  /\ WF_vars(SataSend)

FairSpec == Spec /\ Fairness

-----------------------------------------------------------------------------
(* Properties. *)

\* Types of the ring; a buffer number never runs into the write buffers, which follow.
TypeOK ==
  /\ pc \in {"idle", "spin", "issue"}
  /\ fcp \in Commands \cup {NoCommand}
  /\ inFlight \subseteq Commands
  /\ readId \in Bufs /\ rbufPtr \in Bufs
  /\ buf \in [Bufs -> 0 .. MaxReads]
  /\ asked \in 0 .. MaxReads /\ sent \in 0 .. MaxReads
  /\ lost \subseteq Pages

\* The host gets the pages in the order in which the FTL read them, though the banks
\* finish in any order and the ring wraps; no buffer is filled again before it is sent, and
\* no page is lost but by a recovery, after which the ring stops at the page it lost: the
\* ring is the stream of PageStream, which knows of no buffers.
Stream == INSTANCE PageStream WITH
  Capacity <- NumRd - 1, calling <- pc # "idle", arrived <- {buf[b] : b \in Bufs} \ {0}

ImplementsStream == Stream!Spec

\* Every page is sent to the host, up to the first one that a recovery lost; there the
\* hardware waits for ever, and one lap later the firmware does.
ReadsServed ==
  \A p \in Pages : asked = p ~> (sent >= p \/ \E q \in lost : q <= p)

=============================================================================

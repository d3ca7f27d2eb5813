--------------------------- MODULE ReadRingProofs ---------------------------
(***************************************************************************)
(* The read ring delivers the pages in order, for any number of buffers    *)
(* and banks.  The argument: the ids are counters modulo NumRd, at most    *)
(* NumRd pages are on their way, and fewer than that when one is issued;   *)
(* so two pages on their way never share a buffer.                         *)
(* No page is forgotten either: what was asked for and not sent is in one  *)
(* of four places.  With these facts each step of the ring is a step of    *)
(* PageStream or a stutter.                                                *)
(***************************************************************************)
EXTENDS ReadRing, TLAPS

\* A page on its way is in the buffer its number belongs to.
Place(p, b) == sent < p /\ p <= asked /\ b = (p - 1) % NumRd

Pointers == readId = asked % NumRd /\ rbufPtr = sent % NumRd

Room == /\ sent <= asked /\ asked <= sent + NumRd
        /\ pc # "spin" => asked < sent + NumRd

Filled == \A b \in Bufs : buf[b] # 0 => Place(buf[b], b)

Flying == \A c \in inFlight : Place(c.page, c.buf) /\ buf[c.buf] # c.page

\* The page of the call in progress is nowhere yet.
Calling == pc # "idle" => /\ fcp \in Commands /\ fcp.page = asked /\ Place(asked, fcp.buf)
                          /\ buf[fcp.buf] # asked
                          /\ \A c \in inFlight : c.page # asked

IInv == TypeOK /\ Pointers /\ Room /\ Filled /\ Flying /\ Calling

-----------------------------------------------------------------------------
(* Counting modulo the size of the ring. *)

LEMMA EuclideanDivision ==
  ASSUME NEW N \in Nat \ {0}, NEW a \in Nat
  PROVE  /\ a % N \in 0 .. N - 1
         /\ a \div N \in Nat
         /\ a = N * (a \div N) + (a % N)
<1>1. a % N \in 0 .. N - 1
  OBVIOUS
<1>2. a \div N \in Nat
  OBVIOUS
<1>3. a = N * (a \div N) + (a % N)
  OBVIOUS
<1>4. QED
  BY <1>1, <1>2, <1>3

LEMMA Division ==
  ASSUME NEW a \in Nat
  PROVE  /\ a % NumRd \in Bufs /\ a \div NumRd \in Nat
         /\ a = NumRd * (a \div NumRd) + (a % NumRd)
<1>1. NumRd \in Nat \ {0}
  BY NumRdAssumption
<1>2. QED
  BY <1>1, EuclideanDivision DEF Bufs

\* Less than one lap apart, two numbers have different remainders.
LEMMA Distinct ==
  ASSUME NEW a \in Nat, NEW b \in Nat, a < b, b < a + NumRd
  PROVE  a % NumRd # b % NumRd
<1> SUFFICES ASSUME a % NumRd = b % NumRd PROVE FALSE
  OBVIOUS
<1> DEFINE k == (b \div NumRd) - (a \div NumRd)
<1>1. k \in Int /\ b - a = NumRd * k
  BY Division, NumRdAssumption
<1> HIDE DEF k
<1>2. CASE k <= 0
  <2>1. NumRd * k <= 0
    BY <1>1, <1>2, NumRdAssumption
  <2>2. QED BY <1>1, <2>1
<1>3. CASE k >= 1
  <2>1. NumRd * k >= NumRd
    BY <1>1, <1>3, NumRdAssumption
  <2>2. QED BY <1>1, <2>1, NumRdAssumption
<1>4. QED
  BY <1>1, <1>2, <1>3

\* A whole lap apart, they are the same.
LEMMA FullLap == ASSUME NEW a \in Nat PROVE (a + NumRd) % NumRd = a % NumRd
<1> DEFINE r == a % NumRd
           q == a \div NumRd
           t == (a + NumRd) % NumRd
           u == (a + NumRd) \div NumRd
<1>1. a + NumRd \in Nat
  BY NumRdAssumption
<1>2. r \in Bufs /\ q \in Nat /\ a = NumRd * q + r
  BY Division, NumRdAssumption
<1>3. t \in Bufs /\ u \in Nat /\ a + NumRd = NumRd * u + t
  BY <1>1, Division, NumRdAssumption
<1> HIDE DEF r, q, t, u
<1> DEFINE k == u - q - 1
<1>4. k \in Int /\ NumRd * k = r - t /\ r \in 0 .. NumRd - 1 /\ t \in 0 .. NumRd - 1
  BY <1>2, <1>3, NumRdAssumption DEF Bufs
<1> HIDE DEF k
<1>5. ~ (k <= -1)
  <2>1. k <= -1 => NumRd * k <= -NumRd
    BY <1>4, NumRdAssumption
  <2>2. QED BY <1>4, <2>1, NumRdAssumption
<1>6. ~ (k >= 1)
  <2>1. k >= 1 => NumRd * k >= NumRd
    BY <1>4, NumRdAssumption
  <2>2. QED BY <1>4, <2>1, NumRdAssumption
<1>7. t = r
  BY <1>4, <1>5, <1>6, NumRdAssumption
<1>8. QED
  BY <1>7 DEF t, r

LEMMA Successor ==
  ASSUME NEW a \in Nat
  PROVE  (a + 1) % NumRd = ((a % NumRd) + 1) % NumRd
<1> DEFINE r == a % NumRd
           q == a \div NumRd
<1>1. r \in Bufs /\ q \in Nat /\ a = NumRd * q + r
  BY Division, NumRdAssumption
<1> DEFINE t == (a + 1) % NumRd
           u == (a + 1) \div NumRd
<1>2. t \in Bufs /\ u \in Nat /\ a + 1 = NumRd * u + t
  <2>1. a + 1 \in Nat
    OBVIOUS
  <2>2. QED BY <2>1, Division, NumRdAssumption
<1>3. (r + 1) % NumRd = IF r = NumRd - 1 THEN 0 ELSE r + 1
  BY <1>1, NumRdAssumption DEF Bufs
<1> HIDE DEF r, q, t, u
<1> DEFINE k == u - q
<1>4. k \in Int /\ NumRd * k = r + 1 - t /\ r \in 0 .. NumRd - 1 /\ t \in 0 .. NumRd - 1
  BY <1>1, <1>2, NumRdAssumption DEF Bufs
<1> HIDE DEF k
<1>5. k >= 0 /\ k <= 1
  <2>1. CASE k <= -1
    <3>1. NumRd * k <= -NumRd
      BY <1>4, <2>1, NumRdAssumption
    <3>2. QED BY <1>4, <3>1, NumRdAssumption
  <2>2. CASE k >= 2
    <3>1. NumRd * k >= 2 * NumRd
      BY <1>4, <2>2, NumRdAssumption
    <3>2. QED BY <1>4, <3>1, NumRdAssumption
  <2>3. QED BY <1>4, <2>1, <2>2
<1>6. CASE k = 0
  <2>1. t = r + 1
    BY <1>4, <1>6, NumRdAssumption
  <2>2. QED BY <1>3, <1>4, <2>1, NumRdAssumption DEF t, r
<1>7. CASE k = 1
  <2>1. NumRd = r + 1 - t
    BY <1>4, <1>7, NumRdAssumption
  <2>2. t = 0 /\ r = NumRd - 1
    BY <1>4, <2>1, NumRdAssumption
  <2>3. QED BY <1>3, <2>2 DEF t, r
<1>8. QED
  BY <1>4, <1>5, <1>6, <1>7

\* Two pages on their way in one buffer are one page.
LEMMA OnePageEach ==
  ASSUME TypeOK, Room, NEW p \in Nat, NEW q \in Nat, NEW b \in Bufs, Place(p, b), Place(q, b)
  PROVE  p = q
<1>1. sent \in Nat /\ asked \in Nat /\ asked <= sent + NumRd
  BY MaxReadsAssumption DEF TypeOK, Room
<1>2. p - 1 \in Nat /\ q - 1 \in Nat /\ (p - 1) % NumRd = (q - 1) % NumRd
  BY <1>1 DEF Place
<1>3. p < q + NumRd /\ q < p + NumRd
  BY <1>1, NumRdAssumption DEF Place
<1>4. ~ (p - 1 < q - 1) /\ ~ (q - 1 < p - 1)
  <2>1. p - 1 < q - 1 => (q - 1) < (p - 1) + NumRd
    BY <1>3, NumRdAssumption
  <2>2. q - 1 < p - 1 => (p - 1) < (q - 1) + NumRd
    BY <1>3, NumRdAssumption
  <2>3. QED BY <1>2, <2>1, <2>2, Distinct
<1>5. QED
  BY <1>3, <1>4

-----------------------------------------------------------------------------
(* The invariant. *)

LEMMA InitInv == Init => IInv
<1> SUFFICES ASSUME Init PROVE IInv
  OBVIOUS
<1>1. 0 % NumRd = 0 /\ 0 \in Bufs
  BY NumRdAssumption DEF Bufs
<1>2. TypeOK
  BY <1>1, MaxReadsAssumption DEF Init, TypeOK
<1>3. QED
  BY <1>1, <1>2, NumRdAssumption
     DEF Init, IInv, Pointers, Room, Filled, Flying, Calling, Bufs

\* The ids as numbers, and where the next page goes.
LEMMA Counters ==
  ASSUME IInv
  PROVE  /\ asked \in Nat /\ sent \in Nat /\ NumRd \in Nat /\ NumRd > 1
         /\ NextId(readId) = (asked + 1) % NumRd
         /\ (rbufPtr + 1) % NumRd = (sent + 1) % NumRd
         /\ NextId(readId) \in Bufs /\ (rbufPtr + 1) % NumRd \in Bufs
<1>1. asked \in Nat /\ sent \in Nat
  BY MaxReadsAssumption DEF IInv, TypeOK
<1>2. asked + 1 \in Nat /\ sent + 1 \in Nat
  BY <1>1
<1>3. NextId(readId) = (asked + 1) % NumRd /\ (rbufPtr + 1) % NumRd = (sent + 1) % NumRd
  BY <1>1, Successor DEF IInv, Pointers, NextId
<1>4. QED
  BY <1>1, <1>2, <1>3, Division, NumRdAssumption

LEMMA ReadToHostInv == IInv /\ ReadToHost => IInv'
<1> SUFFICES ASSUME IInv, ReadToHost PROVE IInv'
  OBVIOUS
<1> USE DEF ReadToHost
<1>1. fcp' \in Commands /\ asked' = asked + 1 /\ asked' \in 1 .. MaxReads
  BY Counters, MaxReadsAssumption DEF IInv, TypeOK, Commands, Pages
<1>2. TypeOK'
  BY <1>1, Counters DEF IInv, TypeOK
<1>3. Pointers' /\ Room'
  BY Counters DEF IInv, Pointers, Room
<1>4. Filled'
  BY Counters DEF IInv, TypeOK, Filled, Place
<1>5. Flying'
  BY Counters DEF IInv, TypeOK, Flying, Place, Commands, Pages
<1>6. Calling'
  <2>1. fcp'.page = asked' /\ fcp'.buf = readId /\ asked' - 1 = asked
    BY Counters, <1>1
  <2>2. Place(asked, fcp.buf)'
    BY <2>1, Counters DEF IInv, Place, Pointers, Room
  <2>3. buf[readId] # asked + 1
    BY Counters DEF IInv, TypeOK, Filled, Place
  <2>4. \A c \in inFlight : c.page # asked + 1
    BY Counters DEF IInv, TypeOK, Flying, Place, Commands, Pages
  <2>5. QED
    BY <1>1, <2>1, <2>2, <2>3, <2>4 DEF Calling
<1>7. QED
  BY <1>2, <1>3, <1>4, <1>5, <1>6 DEF IInv

\* The loop: with room, the page of the call is less than a lap ahead.
LEMMA LeaveSpinInv == IInv /\ LeaveSpin => IInv'
<1> SUFFICES ASSUME IInv, LeaveSpin PROVE IInv'
  OBVIOUS
<1>1. asked # sent + NumRd
  <2>1. SUFFICES ASSUME asked = sent + NumRd PROVE FALSE
    OBVIOUS
  <2>2. (sent + NumRd) % NumRd = sent % NumRd
    BY FullLap, Counters
  <2>3. QED
    BY <2>1, <2>2 DEF LeaveSpin, RingHasRoom, IInv, Pointers
<1>2. Room'
  BY <1>1, Counters DEF LeaveSpin, IInv, Room, ring
<1>3. QED
  BY <1>2 DEF LeaveSpin, ring, IInv, TypeOK, Pointers, Filled, Flying, Calling, Place

LEMMA IssueInv == IInv /\ (Issue \/ IssueRecovers) => IInv'
<1> SUFFICES ASSUME IInv, Issue \/ IssueRecovers PROVE IInv'
  OBVIOUS
<1>1. UNCHANGED <<fcp, readId, rbufPtr, buf, asked, sent>> /\ pc = "issue" /\ pc' = "idle"
  BY DEF Issue, IssueRecovers, ring
<1>2. fcp \in Commands /\ fcp.page = asked /\ Place(asked, fcp.buf) /\ buf[fcp.buf] # asked
  BY <1>1 DEF IInv, Calling
<1>3. inFlight' \subseteq inFlight \cup {fcp}
  BY DEF Issue, IssueRecovers
<1>4. TypeOK'
  BY <1>1, <1>2, <1>3 DEF IInv, TypeOK, Issue, IssueRecovers, Commands
<1>5. Flying'
  BY <1>1, <1>2, <1>3 DEF IInv, Flying, Place
<1>6. QED
  BY <1>1, <1>4, <1>5 DEF IInv, Pointers, Room, Filled, Calling, Place

LEMMA FlashOutInv == ASSUME NEW c \in Commands, IInv, FlashOut(c) PROVE IInv'
<1> USE DEF FlashOut
<1>1. c.page \in Nat \ {0} /\ c.page \in 0 .. MaxReads /\ c.buf \in Bufs /\ Place(c.page, c.buf)
  BY MaxReadsAssumption DEF IInv, Flying, Commands, Pages
<1>2. buf'[c.buf] = c.page /\ \A b \in Bufs \ {c.buf} : buf'[b] = buf[b]
  BY <1>1 DEF IInv, TypeOK
<1>3. TypeOK'
  BY <1>1 DEF IInv, TypeOK
<1>4. Filled'
  BY <1>1, <1>2 DEF IInv, Filled, Place
<1>5. ASSUME NEW d \in inFlight'
      PROVE  Place(d.page, d.buf) /\ buf'[d.buf] # d.page
  <2>1. d \in inFlight /\ d # c /\ d \in Commands /\ d.buf \in Bufs /\ d.page \in Nat
    BY MaxReadsAssumption DEF IInv, TypeOK, Commands, Pages
  <2>2. Place(d.page, d.buf) /\ buf[d.buf] # d.page
    BY <2>1 DEF IInv, Flying
  <2>3. CASE d.buf # c.buf
    BY <1>2, <2>1, <2>2, <2>3
  <2>4. CASE d.buf = c.buf
    <3>1. d.page # c.page
      BY <2>1, <2>4 DEF Commands
    <3>2. QED BY <1>2, <2>2, <2>4, <3>1
  <2>5. QED BY <2>3, <2>4
<1>6. Flying'
  BY <1>5 DEF Flying, Place
<1>7. Calling'
  <2>1. SUFFICES ASSUME pc # "idle" PROVE Calling'
    BY DEF Calling
  <2>2. fcp \in Commands /\ fcp.page = asked /\ Place(asked, fcp.buf) /\ buf[fcp.buf] # asked
        /\ \A d \in inFlight : d.page # asked
    BY <2>1 DEF IInv, Calling
  <2>3. fcp.buf \in Bufs
    BY <2>2 DEF Commands
  <2>4. buf'[fcp.buf] # asked
    BY <1>2, <2>2, <2>3
  <2>5. QED
    BY <2>2, <2>4 DEF Calling, Place
<1>8. QED
  BY <1>3, <1>4, <1>6, <1>7 DEF IInv, Pointers, Room

\* The buffer at SATA_RBUF_PTR holds the oldest page on its way, or nothing yet.
LEMMA Oldest == ASSUME IInv, buf[rbufPtr] # 0 PROVE buf[rbufPtr] = sent + 1
<1>1. rbufPtr \in Bufs /\ buf[rbufPtr] \in Nat
  BY MaxReadsAssumption DEF IInv, TypeOK
<1>2. Place(buf[rbufPtr], rbufPtr)
  BY <1>1 DEF IInv, Filled
<1>3. Place(sent + 1, rbufPtr)
  BY <1>1, <1>2, Counters DEF IInv, Place, Pointers
<1>4. QED
  BY <1>1, <1>2, <1>3, Counters, OnePageEach DEF IInv

LEMMA SataSendInv == IInv /\ SataSend => IInv'
<1> SUFFICES ASSUME IInv, SataSend PROVE IInv'
  OBVIOUS
<1> USE DEF SataSend
<1>1. rbufPtr \in Bufs /\ buf[rbufPtr] = sent + 1 /\ Place(sent + 1, rbufPtr) /\ sent < asked
  BY Oldest, Counters DEF IInv, TypeOK, Filled, Place
<1>2. buf'[rbufPtr] = 0 /\ \A b \in Bufs \ {rbufPtr} : buf'[b] = buf[b]
  BY <1>1 DEF IInv, TypeOK
<1>3. TypeOK'
  <2>1. sent' \in 0 .. MaxReads
    BY <1>1, Counters, MaxReadsAssumption DEF IInv, TypeOK
  <2>2. buf' \in [Bufs -> 0 .. MaxReads]
    BY <1>1, MaxReadsAssumption DEF IInv, TypeOK
  <2>3. QED BY <2>1, <2>2, Counters DEF IInv, TypeOK
<1>4. Pointers' /\ Room'
  BY <1>1, Counters DEF IInv, Pointers, Room
<1>5. ASSUME NEW q \in Nat, NEW b \in Bufs, Place(q, b), b = rbufPtr => q # sent + 1
      PROVE  Place(q, b)'
  <2>1. q # sent + 1
    BY <1>1, <1>5, Counters DEF Place
  <2>2. QED BY <1>5, <2>1, Counters DEF Place
<1>6. Filled'
  <2>1. ASSUME NEW b \in Bufs, buf'[b] # 0 PROVE Place(buf[b], b)'
    <3>1. b # rbufPtr /\ buf'[b] = buf[b] /\ buf[b] \in Nat
      BY <1>2, <2>1, MaxReadsAssumption DEF IInv, TypeOK
    <3>2. Place(buf[b], b)
      BY <2>1, <3>1 DEF IInv, Filled
    <3>3. QED BY <1>5, <3>1, <3>2 DEF Place
  <2>2. QED BY <2>1 DEF Filled
<1>7. Flying'
  <2>1. ASSUME NEW c \in inFlight PROVE Place(c.page, c.buf)' /\ buf'[c.buf] # c.page
    <3>1. c.page \in Nat /\ c.page # 0 /\ c.buf \in Bufs
      BY MaxReadsAssumption DEF IInv, TypeOK, Commands, Pages
    <3>2. Place(c.page, c.buf) /\ buf[c.buf] # c.page
      BY DEF IInv, Flying
    <3>3. Place(c.page, c.buf)'
      BY <1>1, <1>5, <3>1, <3>2 DEF Place
    <3>4. QED BY <1>2, <3>1, <3>2, <3>3
  <2>2. QED BY <2>1 DEF Flying
<1>8. Calling'
  <2>1. SUFFICES ASSUME pc # "idle" PROVE Calling'
    BY DEF Calling
  <2>2. fcp \in Commands /\ fcp.page = asked /\ Place(asked, fcp.buf) /\ buf[fcp.buf] # asked
        /\ \A d \in inFlight : d.page # asked
    BY <2>1 DEF IInv, Calling
  <2>3. fcp.buf \in Bufs /\ asked # 0
    BY <2>2, Counters DEF Commands, Place
  <2>4. Place(asked, fcp.buf)'
    BY <1>1, <1>5, <2>2, <2>3, Counters DEF Place
  <2>5. buf'[fcp.buf] # asked
    BY <1>2, <2>2, <2>3
  <2>6. QED
    BY <2>2, <2>4, <2>5 DEF Calling
<1>9. QED
  BY <1>3, <1>4, <1>6, <1>7, <1>8 DEF IInv

LEMMA StepInv == IInv /\ [Next]_vars => IInv'
<1> SUFFICES ASSUME IInv, [Next]_vars PROVE IInv'
  OBVIOUS
<1>1. CASE UNCHANGED vars
  BY <1>1 DEF vars, ring, IInv, TypeOK, Pointers, Room, Filled, Flying, Calling, Place
<1>2. CASE Next
  BY <1>2, ReadToHostInv, LeaveSpinInv, IssueInv, FlashOutInv, SataSendInv DEF Next
<1>3. QED
  BY <1>1, <1>2

-----------------------------------------------------------------------------
\* The inductive invariant of the ring: the pages on their way are those the ids count,
\* each in the buffer of its number, fewer than a lap of them when one is issued.
THEOREM Invariant == Spec => []IInv
<1>1. QED
  BY InitInv, StepInv, PTL DEF Spec

\* Every variable keeps its type; no buffer number leaves the ring.
THEOREM TypeCorrect == Spec => []TypeOK
<1>1. IInv => TypeOK
  BY DEF IInv
<1>2. QED
  BY <1>1, Invariant, PTL

\* nand_page_read_to_host and the hardware deliver the pages in the order of the calls,
\* for every ring of two or more buffers, with and without recoveries.
THEOREM PagesInOrder == Spec => [][sent' # sent => sent' = sent + 1 /\ buf[rbufPtr] = sent']_vars
<1>1. IInv /\ [Next]_vars => [sent' # sent => sent' = sent + 1 /\ buf[rbufPtr] = sent']_vars
  <2> SUFFICES ASSUME IInv, Next, sent' # sent
               PROVE  sent' = sent + 1 /\ buf[rbufPtr] = sent'
    BY DEF vars, ring
  <2>1. SataSend
    BY DEF Next, ReadToHost, LeaveSpin, Issue, IssueRecovers, FlashOut, ring
  <2>2. QED
    BY <2>1, Oldest DEF SataSend
<1>2. QED
  BY <1>1, Invariant, PTL DEF Spec

\* No read fills a buffer whose page has not been sent.
THEOREM NoOverrun == Spec => [][\A b \in Bufs : buf[b] # 0 => buf'[b] \in {buf[b], 0}]_vars
<1>1. IInv /\ [Next]_vars => [\A b \in Bufs : buf[b] # 0 => buf'[b] \in {buf[b], 0}]_vars
  <2> SUFFICES ASSUME IInv, Next, NEW b \in Bufs, buf[b] # 0
               PROVE  buf'[b] \in {buf[b], 0}
    BY DEF vars
  <2>1. CASE SataSend
    BY <2>1 DEF SataSend, IInv, TypeOK
  <2>2. ASSUME NEW c \in Commands, FlashOut(c) PROVE buf'[b] \in {buf[b], 0}
    <3>1. c \in inFlight /\ c.buf \in Bufs /\ c.page \in Nat /\ buf[b] \in Nat
      BY <2>2, MaxReadsAssumption DEF FlashOut, Commands, Pages, IInv, TypeOK
    <3>2. Place(c.page, c.buf) /\ Place(buf[b], b) /\ buf[c.buf] # c.page
      BY <3>1 DEF IInv, Flying, Filled
    <3>3. b # c.buf
      BY <3>1, <3>2, OnePageEach DEF IInv
    <3>4. QED BY <2>2, <3>3 DEF FlashOut, IInv, TypeOK
  <2>3. CASE ReadToHost \/ LeaveSpin \/ Issue \/ IssueRecovers
    BY <2>3 DEF ReadToHost, LeaveSpin, Issue, IssueRecovers, ring
  <2>4. QED
    BY <2>1, <2>2, <2>3 DEF Next
<1>2. QED
  BY <1>1, Invariant, PTL DEF Spec

-----------------------------------------------------------------------------
(* No page is lost. *)

\* Where a page asked for and not sent is.
Somewhere(p) == \/ p \in lost
                \/ \E b \in Bufs : buf[b] = p
                \/ \E c \in inFlight : c.page = p
                \/ pc # "idle" /\ p = asked

\* A lost page is nowhere else, and the host is not past it.
Gone(q) == /\ sent < q /\ q <= asked
           /\ \A b \in Bufs : buf[b] # q
           /\ \A c \in inFlight : c.page # q
           /\ pc # "idle" => q # asked

Kept == /\ \A p \in sent + 1 .. asked : Somewhere(p)
        /\ \A q \in lost : Gone(q)

\* The loop on SATA_RBUF_PTR waits for a page that is there, on its way or lost.
NeverStuck == pc = "spin" /\ ~RingHasRoom =>
  \/ buf[rbufPtr] = sent + 1
  \/ \E c \in inFlight : c.page = sent + 1
  \/ sent + 1 \in lost

\* What is in flight or is being issued is not in a buffer.
LEMMA NotThere ==
  ASSUME IInv
  PROVE  /\ \A c \in inFlight, b \in Bufs : buf[b] # c.page
         /\ pc # "idle" => \A b \in Bufs : buf[b] # asked
<1>1. ASSUME NEW c \in inFlight, NEW b \in Bufs PROVE buf[b] # c.page
  <2>1. Place(c.page, c.buf) /\ buf[c.buf] # c.page /\ c.page # 0
    BY DEF IInv, TypeOK, Flying, Commands, Pages
  <2>2. buf[b] # 0 => Place(buf[b], b)
    BY DEF IInv, Filled
  <2>3. QED BY <2>1, <2>2 DEF Place
<1>2. ASSUME pc # "idle", NEW b \in Bufs PROVE buf[b] # asked
  <2>1. Place(asked, fcp.buf) /\ buf[fcp.buf] # asked /\ asked # 0
    BY <1>2, Counters DEF IInv, Calling, Place
  <2>2. buf[b] # 0 => Place(buf[b], b)
    BY DEF IInv, Filled
  <2>3. QED BY <2>1, <2>2 DEF Place
<1>3. QED BY <1>1, <1>2

LEMMA ReadToHostKept == IInv /\ Kept /\ ReadToHost => Kept'
<1> SUFFICES ASSUME IInv, Kept, ReadToHost PROVE Kept'
  OBVIOUS
<1> USE DEF ReadToHost
<1>1. ASSUME NEW p \in sent' + 1 .. asked' PROVE Somewhere(p)'
  <2>1. p = asked' \/ p \in sent + 1 .. asked
    BY Counters
  <2>2. QED BY <2>1 DEF Kept, Somewhere
<1>2. ASSUME NEW q \in lost PROVE Gone(q)'
  <2>1. q \in Int
    BY MaxReadsAssumption DEF IInv, TypeOK, Pages
  <2>2. QED BY <2>1, Counters DEF Kept, Gone
<1>3. QED BY <1>1, <1>2 DEF Kept

LEMMA IssueKept == IInv /\ Kept /\ Issue => Kept'
<1> SUFFICES ASSUME IInv, Kept, Issue PROVE Kept'
  OBVIOUS
<1> USE DEF Issue, ring
<1>1. fcp.page = asked /\ inFlight' = inFlight \cup {fcp}
  BY DEF IInv, Calling
<1>2. ASSUME NEW p \in sent' + 1 .. asked' PROVE Somewhere(p)'
  BY <1>1, <1>2 DEF Kept, Somewhere
<1>3. ASSUME NEW q \in lost' PROVE Gone(q)'
  BY <1>1, <1>3 DEF Kept, Gone
<1>4. QED BY <1>2, <1>3 DEF Kept

LEMMA IssueRecoversKept == IInv /\ Kept /\ IssueRecovers => Kept'
<1> SUFFICES ASSUME IInv, Kept, IssueRecovers PROVE Kept'
  OBVIOUS
<1> USE DEF IssueRecovers, ring
<1>1. fcp.page = asked /\ sent < asked /\ inFlight' = {} /\ pc' = "idle"
      /\ lost' = lost \cup {asked} \cup {c.page : c \in inFlight}
  BY DEF IInv, Calling, Place
<1>2. ASSUME NEW p \in sent' + 1 .. asked' PROVE Somewhere(p)'
  BY <1>1, <1>2 DEF Kept, Somewhere
<1>3. ASSUME NEW q \in lost' PROVE Gone(q)'
  <2>1. CASE q \in lost
    BY <1>1, <2>1 DEF Kept, Gone
  <2>2. CASE q = asked
    BY <1>1, <2>2, NotThere, Counters DEF Gone
  <2>3. ASSUME NEW c \in inFlight, q = c.page PROVE Gone(q)'
    <3>1. Place(q, c.buf)
      BY <2>3 DEF IInv, Flying
    <3>2. QED BY <1>1, <2>3, <3>1, NotThere DEF Gone, Place
  <2>4. QED BY <1>1, <2>1, <2>2, <2>3
<1>4. QED BY <1>2, <1>3 DEF Kept

LEMMA FlashOutKept == ASSUME NEW c \in Commands, IInv, Kept, FlashOut(c) PROVE Kept'
<1> USE DEF FlashOut
<1>1. c \in inFlight /\ c.buf \in Bufs /\ Place(c.page, c.buf) /\ c.page \in Nat
  BY DEF IInv, Flying, Commands, Pages
<1>2. buf'[c.buf] = c.page /\ \A b \in Bufs \ {c.buf} : buf'[b] = buf[b]
  BY <1>1 DEF IInv, TypeOK
<1>3. ASSUME NEW p \in sent' + 1 .. asked' PROVE Somewhere(p)'
  <2>1. p \in Nat /\ p # 0 /\ Somewhere(p)
    BY Counters DEF Kept
  <2>2. ASSUME NEW b \in Bufs, buf[b] = p PROVE \E e \in Bufs : buf'[e] = p
    <3>1. CASE b = c.buf
      <4>1. Place(p, c.buf)
        BY <2>1, <2>2, <3>1 DEF IInv, Filled
      <4>2. p = c.page
        BY <1>1, <2>1, <4>1, OnePageEach DEF IInv
      <4>3. QED BY <1>1, <1>2, <4>2
    <3>2. CASE b # c.buf
      BY <1>2, <2>2, <3>2
    <3>3. QED BY <3>1, <3>2
  <2>3. ASSUME NEW d \in inFlight, d.page = p PROVE Somewhere(p)'
    BY <1>1, <1>2, <2>3 DEF Somewhere
  <2>4. QED BY <2>1, <2>2, <2>3 DEF Somewhere
<1>4. ASSUME NEW q \in lost' PROVE Gone(q)'
  <2>1. Gone(q)
    BY DEF Kept
  <2>2. \A b \in Bufs : buf'[b] # q
    BY <1>1, <1>2, <2>1 DEF Gone
  <2>3. QED BY <2>1, <2>2 DEF Gone
<1>5. QED BY <1>3, <1>4 DEF Kept

LEMMA SataSendKept == IInv /\ Kept /\ SataSend => Kept'
<1> SUFFICES ASSUME IInv, Kept, SataSend PROVE Kept'
  OBVIOUS
<1> USE DEF SataSend
<1>1. rbufPtr \in Bufs /\ buf[rbufPtr] = sent + 1 /\ sent' = sent + 1
  BY Oldest DEF IInv, TypeOK
<1>2. buf'[rbufPtr] = 0 /\ \A b \in Bufs \ {rbufPtr} : buf'[b] = buf[b]
  BY <1>1 DEF IInv, TypeOK
<1>3. ASSUME NEW p \in sent' + 1 .. asked' PROVE Somewhere(p)'
  <2>1. p \in sent + 1 .. asked /\ p # sent + 1
    BY <1>1, Counters
  <2>2. Somewhere(p)
    BY <2>1 DEF Kept
  <2>3. QED BY <1>1, <1>2, <2>1, <2>2 DEF Somewhere
<1>4. ASSUME NEW q \in lost' PROVE Gone(q)'
  <2>1. Gone(q) /\ q \in Int
    BY MaxReadsAssumption DEF Kept, IInv, TypeOK, Pages
  <2>2. sent' < q
    BY <1>1, <2>1, Counters DEF Gone
  <2>3. \A b \in Bufs : buf'[b] # q
    BY <1>1, <1>2, <2>1, <2>2, Counters DEF Gone
  <2>4. QED BY <2>1, <2>2, <2>3 DEF Gone
<1>5. QED BY <1>3, <1>4 DEF Kept

LEMMA KeptStep == IInv /\ Kept /\ [Next]_vars => Kept'
<1>1. Kept /\ (LeaveSpin \/ UNCHANGED vars) => Kept'
  BY DEF LeaveSpin, vars, ring, Kept, Somewhere, Gone
<1>2. QED
  BY <1>1, ReadToHostKept, IssueKept, IssueRecoversKept, FlashOutKept, SataSendKept DEF Next

\* Every page the FTL has read to the host and the host has not had is in a buffer, on its way or
\* lost by a recovery; and the host never gets past a lost page.
THEOREM NothingForgotten == Spec => []Kept
<1>1. Init => Kept
  BY DEF Init, Kept
<1>2. QED
  BY <1>1, KeptStep, Invariant, PTL DEF Spec

\* The loop of nand_page_read_to_host never waits for a page that nobody will send, but for one
\* that a recovery has lost: the safety that ReadsServed rests on.
THEOREM LoopHasReason == Spec => []NeverStuck
<1>1. ASSUME IInv, Kept PROVE NeverStuck
  <2> SUFFICES ASSUME pc = "spin", ~RingHasRoom
               PROVE  \/ buf[rbufPtr] = sent + 1
                      \/ \E c \in inFlight : c.page = sent + 1
                      \/ sent + 1 \in lost
    BY DEF NeverStuck
  <2>1. asked = sent + NumRd
    <3>1. ~ (sent < asked /\ asked < sent + NumRd)
      BY <1>1, Counters, Distinct DEF RingHasRoom, IInv, Pointers
    <3>2. sent # asked
      BY <1>1, Counters DEF IInv, Calling, Place
    <3>3. QED BY <1>1, <3>1, <3>2, Counters DEF IInv, Room
  <2>2. sent + 1 \in sent + 1 .. asked /\ sent + 1 # asked
    BY <1>1, <2>1, Counters
  <2>3. Somewhere(sent + 1)
    BY <1>1, <2>2 DEF Kept
  <2>4. ASSUME NEW b \in Bufs, buf[b] = sent + 1 PROVE b = rbufPtr
    <3>1. Place(sent + 1, b) /\ (sent + 1) - 1 = sent
      BY <1>1, <2>4, Counters DEF IInv, Filled
    <3>2. QED BY <1>1, <3>1 DEF Place, IInv, Pointers
  <2>5. QED BY <2>2, <2>3, <2>4 DEF Somewhere
<1>2. QED
  BY <1>1, Invariant, NothingForgotten, PTL

-----------------------------------------------------------------------------
(* The refinement of PageStream. *)

LEMMA ExpectedIs == ASSUME IInv, Kept PROVE Stream!Expected = {c.page : c \in inFlight}
<1> DEFINE there == {buf[b] : b \in Bufs} \ {0}
<1>1. Stream!Expected = {p \in sent + 1 .. asked :
                          p \notin there \cup lost /\ (pc # "idle" => p # asked)}
  BY DEF Stream!Expected
<1>2. ASSUME NEW c \in inFlight PROVE c.page \in Stream!Expected
  <2>1. c.page \in Nat /\ Place(c.page, c.buf)
    BY DEF IInv, TypeOK, Flying, Commands, Pages
  <2>2. c.page \in sent + 1 .. asked
    BY <2>1, Counters DEF Place
  <2>3. c.page \notin there
    BY NotThere
  <2>4. c.page \notin lost /\ (pc # "idle" => c.page # asked)
    BY DEF Kept, Gone, IInv, Calling
  <2>5. QED BY <1>1, <2>2, <2>3, <2>4
<1>3. ASSUME NEW p \in Stream!Expected PROVE p \in {c.page : c \in inFlight}
  <2>1. p \in sent + 1 .. asked /\ p \notin there /\ p \notin lost /\ (pc # "idle" => p # asked)
    BY <1>1
  <2>2. p # 0
    BY <2>1, Counters
  <2>3. \A b \in Bufs : buf[b] # p
    BY <2>1, <2>2
  <2>4. QED BY <2>1, <2>3 DEF Kept, Somewhere
<1>4. QED BY <1>2, <1>3

LEMMA FlashOutRefines ==
  ASSUME NEW c \in Commands, IInv, Kept, FlashOut(c)
  PROVE  \E p \in Stream!Expected : Stream!Arrive(p)
<1> USE DEF FlashOut
<1> DEFINE there == {buf[b] : b \in Bufs} \ {0}
<1>1. c.page \in Stream!Expected
  BY ExpectedIs
<1>2. c \in inFlight /\ c.buf \in Bufs /\ Place(c.page, c.buf) /\ c.page \in Nat /\ c.page # 0
  BY DEF IInv, Flying, Commands, Pages
<1>3. buf'[c.buf] = c.page /\ \A b \in Bufs \ {c.buf} : buf'[b] = buf[b]
  BY <1>2 DEF IInv, TypeOK
<1>4. buf[c.buf] = 0
  <2>1. buf[c.buf] \in Nat /\ buf[c.buf] # c.page
    BY <1>2, MaxReadsAssumption DEF IInv, TypeOK, Flying
  <2>2. buf[c.buf] # 0 => Place(buf[c.buf], c.buf)
    BY <1>2 DEF IInv, Filled
  <2>3. QED BY <1>2, <2>1, <2>2, OnePageEach DEF IInv
<1>5. there' = there \cup {c.page}
  BY <1>2, <1>3, <1>4
<1>6. UNCHANGED <<asked, pc, sent, lost>>
  OBVIOUS
<1> HIDE DEF there
<1>7. Stream!Arrive(c.page)
  BY <1>1, <1>5, <1>6 DEF Stream!Arrive, there
<1>8. QED BY <1>1, <1>7

LEMMA SataSendRefines == IInv /\ SataSend => Stream!Deliver
<1> SUFFICES ASSUME IInv, SataSend PROVE Stream!Deliver
  OBVIOUS
<1> USE DEF SataSend
<1> DEFINE there == {buf[b] : b \in Bufs} \ {0}
<1>1. rbufPtr \in Bufs /\ buf[rbufPtr] = sent + 1 /\ sent' = sent + 1 /\ sent + 1 \in Nat
  BY Oldest, Counters DEF IInv, TypeOK
<1>2. buf'[rbufPtr] = 0 /\ \A b \in Bufs \ {rbufPtr} : buf'[b] = buf[b]
  BY <1>1 DEF IInv, TypeOK
<1>3. ASSUME NEW b \in Bufs, buf[b] = sent + 1 PROVE b = rbufPtr
  <2>1. Place(sent + 1, b) /\ (sent + 1) - 1 = sent
    BY <1>3, Counters DEF IInv, Filled
  <2>2. QED BY <2>1 DEF Place, IInv, Pointers
<1>4. sent + 1 \in there /\ there' = there \ {sent + 1}
  <2>1. sent + 1 # 0
    BY Counters
  <2>2. QED BY <1>1, <1>2, <1>3, <2>1
<1>5. UNCHANGED <<asked, pc, lost>>
  OBVIOUS
<1> HIDE DEF there
<1>6. QED BY <1>1, <1>4, <1>5 DEF Stream!Deliver, there

LEMMA StepRefines == IInv /\ Kept /\ [Next]_vars => [Stream!Next]_(Stream!vars)
<1> SUFFICES ASSUME IInv, Kept, [Next]_vars PROVE [Stream!Next]_(Stream!vars)
  OBVIOUS
<1>1. CASE ReadToHost
  BY <1>1 DEF ReadToHost, Stream!Ask, Stream!Next
<1>2. CASE LeaveSpin \/ UNCHANGED vars
  BY <1>2 DEF LeaveSpin, ring, vars, Stream!vars
<1>3. CASE Issue
  <2>1. asked - sent <= NumRd - 1
    BY <1>3, Counters DEF Issue, IInv, Room
  <2>2. QED BY <1>3, <2>1 DEF Issue, ring, Stream!Return, Stream!Next
<1>4. CASE IssueRecovers
  <2>1. asked - sent <= NumRd - 1
    BY <1>4, Counters DEF IssueRecovers, IInv, Room
  <2>2. fcp.page = asked /\ Stream!Expected # {}
        /\ lost' = lost \cup Stream!Expected \cup {asked}
    BY <1>4, ExpectedIs DEF IssueRecovers, IInv, Calling
  <2>3. QED BY <1>4, <2>1, <2>2 DEF IssueRecovers, ring, Stream!Recover, Stream!Next
<1>5. ASSUME NEW c \in Commands, FlashOut(c) PROVE Stream!Next
  BY <1>5, FlashOutRefines DEF Stream!Next
<1>6. CASE SataSend
  BY <1>6, SataSendRefines DEF Stream!Next
<1>7. QED
  BY <1>1, <1>2, <1>3, <1>4, <1>5, <1>6 DEF Next

\* The ring, its two pointers and the banks in any order implement a stream of pages that knows
\* of none of them, recoveries included.
THEOREM RingImplementsStream == Spec => ImplementsStream
<1>1. Init => Stream!Init
  BY DEF Init, Stream!Init
<1>2. Spec => [][Stream!Next]_(Stream!vars)
  BY Invariant, NothingForgotten, StepRefines, PTL DEF Spec
<1>3. QED
  BY <1>1, <1>2, PTL DEF Spec, ImplementsStream, Stream!Spec
=============================================================================

-------------------------- MODULE InstallerProofs --------------------------
(***************************************************************************)
(* The installer, for any set of banks, any layout of block 0 and any      *)
(* number of failures and exits.  The argument has three parts.  Lists:    *)
(* whatever a list of initial bad blocks can be read from, the lists in    *)
(* memory, page 0 of a bank or a saved file, holds a true one or says that *)
(* it has none, as long as no mark was erased; so the blocks that the      *)
(* erase of a bank spares are all its marked ones, and the next scan still *)
(* finds them.  Progress: each page that steps 2 to 4 have passed was read *)
(* back, in the ECC mode it is later read with, and no later step writes   *)
(* it.  Clean: from the erase to step 3 there is no stamp on a bank whose  *)
(* erase has worked, so that a stamp found there is this installation's.   *)
(***************************************************************************)
EXTENDS Installer, TLAPS, WellFoundedInduction, FiniteSetTheorems

\* A list of bank b: it names the bad blocks, and each once, with the two reservations.
Entries == Blocks \X Chips
Trusted(b, l) == /\ l \in Seq(Entries)
                 /\ ~untrusted => ToSet(l) = BadOf(b)
                 /\ ~untrusted /\ ~appended => Len(l) = Cardinality(BadOf(b))

Triple(x) == x = <<x[1], x[2], x[3]>>

Types ==
  /\ pc \in {"exited", "menu", "save", "erase", "lists", "program", "readback", "compare",
             "fill", "stamp", "firmware", "installed"}
  /\ bk \in Bmp /\ pg \in Nat /\ bl \in Nat /\ endBl \in {0, PblksPerBank} /\ bl <= endBl
  /\ image \in Images /\ dir \in Dirs /\ bad \in BadPatterns /\ marks \subseteq bad
  /\ sdram \in Wirings
  /\ DOMAIN list = AllBanks /\ \A b \in Bmp : list[b] \in Seq(Entries)
  /\ file = [d \in Dirs |-> [b \in Bmp |-> file[d][b]]]
  /\ block0 = [b \in Bmp |-> [p \in Pages |-> block0[b][p]]]
  /\ \A b \in Bmp, p \in Pages : Triple(block0[b][p])
  /\ DOMAIN dram = AllBanks /\ dram = [b \in AllBanks |-> dram[b]]

\* Wherever a list can be read from, it can be trusted; and an erase or an installation
\* has one for each bank, or was warned.
Working == {"lists", "program", "readback", "compare", "fill", "stamp", "firmware", "installed"}
Lists ==
  /\ ~untrusted => marks = bad
  /\ \A b \in Bmp : list[b] = <<>> \/ Trusted(b, list[b])
  /\ loaded => \A b \in Bmp : Trusted(b, list[b])
  /\ pc \in {"save"} \cup Working \/ (pc = "erase" /\ endBl = 0) => loaded
  /\ pc = "erase" => loaded \/ untrusted
  /\ pc = "program" => \A b \in Bmp : dram[b] = ListOf(b)
  /\ \A b \in Bmp : block0[b][0][1] = "list" => Trusted(b, block0[b][0][2])
  /\ \A d \in Dirs, b \in Bmp : \/ file[d][b] \in {<<"none">>, <<"empty">>}
                                \/ file[d][b][1] = "list" /\ Trusted(b, file[d][b][2])

\* The pages an installation has written and found right.
Done(b, p) == b < bk \/ (b = bk /\ p < pg)
Progress ==
  /\ pc \in {"program", "readback", "compare", "fill"} => strong = FALSE
  /\ pc \in {"stamp", "firmware"} => strong = TRUE
  /\ pc = "readback" => \A b \in Bmp : b < bk => dram[b] = ReadOut(block0[b][0], FALSE)
  /\ pc = "compare" => \A b \in Bmp : dram[b] = ReadOut(block0[b][0], FALSE)
  /\ pc \in {"fill", "stamp", "firmware", "installed"} =>
       \A b \in Bmp : block0[b][0] = Written(ListOf(b), FALSE)
  /\ pc = "fill" => pg \in 1 .. STAMP_PAGE_OFFSET - 1
  /\ \A b \in Bmp, p \in 1 .. STAMP_PAGE_OFFSET - 1 :
       (pc = "fill" /\ Done(b, p)) \/ pc \in {"stamp", "firmware", "installed"} =>
         block0[b][p] = Written(Fill, FALSE)
  /\ pc = "stamp" => pg = STAMP_PAGE_OFFSET
  /\ \A b \in Bmp :
       (pc = "stamp" /\ ok /\ b < bk) \/ pc \in {"firmware", "installed"} =>
         block0[b][STAMP_PAGE_OFFSET] = Written(Stamp, TRUE)
  /\ pc = "firmware" => pg \in FW_PAGE_OFFSET .. EndFw - 1
  /\ \A b \in Bmp, p \in FW_PAGE_OFFSET .. EndFw - 1 :
       (pc = "firmware" /\ Done(b, p)) \/ pc = "installed" =>
         block0[b][p] = Written(FwPage(image, p - FW_PAGE_OFFSET), TRUE)

\* A bank whose block 0 this installation has erased has no stamp before step 3.
Clean ==
  \A b \in Bmp \ unerased :
    pc \in {"lists", "program", "readback", "compare", "fill"}
      \/ (pc = "erase" /\ endBl = 0 /\ b < bk) => block0[b][STAMP_PAGE_OFFSET] = Blank

IInv == Types /\ Lists /\ Progress /\ Clean /\ BootBlock /\ SdramMatches

-----------------------------------------------------------------------------
(* Banks, pages and lists. *)

LEMMA Least ==
  ASSUME NEW T, T \subseteq Nat, T # {}
  PROVE  \E x \in T : \A y \in T : x <= y
<1> DEFINE R == {ss \in Nat \X Nat : ss[1] < ss[2]}
<1>1. \A x, y \in Nat : <<y, x>> \in R <=> y < x
  OBVIOUS
<1>2. IsWellFoundedOn(R, Nat)
  BY NatLessThanWellFounded DEF OpToRel
<1> HIDE DEF R
<1>3. PICK x \in T : \A y \in T : ~ (<<y, x>> \in R)
  BY <1>2, WFMin
<1>4. ASSUME NEW y \in T PROVE x <= y
  <2>1. x \in Nat /\ y \in Nat
    OBVIOUS
  <2>2. ~(y < x)
    BY <1>1, <1>3, <2>1
  <2>3. QED BY <2>1, <2>2
<1>5. QED
  BY <1>4

LEMMA First == FirstBank \in Bmp /\ \A c \in Bmp : FirstBank <= c
<1>1. \E b \in Bmp : \A c \in Bmp : b <= c
  BY BanksAssumption, Least
<1>2. QED
  BY <1>1 DEF FirstBank

LEMMA Following ==
  ASSUME NEW b \in Bmp, Later(b) # {}
  PROVE  /\ NextBank(b) \in Bmp /\ b < NextBank(b)
         /\ \A c \in Bmp : c < NextBank(b) => c <= b
<1>1. Later(b) \subseteq Bmp /\ Bmp \subseteq Nat /\ \A c \in Bmp : c \in Later(b) <=> c > b
  BY BanksAssumption DEF Later
<1>2. \E c \in Later(b) : \A d \in Later(b) : c <= d
  BY <1>1, Least
<1>3. PICK n : n = NextBank(b) /\ n \in Later(b) /\ \A d \in Later(b) : n <= d
  BY <1>2 DEF NextBank
<1>4. n \in Bmp /\ b < n
  BY <1>1, <1>3
<1>5. ASSUME NEW c \in Bmp, c < n PROVE c <= b
  <2>1. b \in Nat /\ c \in Nat /\ n \in Nat
    BY <1>1, <1>4
  <2>2. c > b => n <= c
    BY <1>1, <1>3
  <2>3. QED BY <1>5, <2>1, <2>2
<1>6. QED
  BY <1>3, <1>4, <1>5

LEMMA LastBank == ASSUME NEW b \in Bmp, Later(b) = {} PROVE \A c \in Bmp : c <= b
BY BanksAssumption DEF Later

\* The pages of block 0 an installation writes.
LEMMA Layout ==
  /\ PblksPerBank \in Nat \ {0} /\ Bmp \subseteq Nat /\ Bmp \subseteq AllBanks
  /\ STAMP_PAGE_OFFSET \in Nat /\ FW_PAGE_OFFSET \in Nat
  /\ 1 < STAMP_PAGE_OFFSET /\ STAMP_PAGE_OFFSET < FW_PAGE_OFFSET
  /\ 0 \in Pages /\ STAMP_PAGE_OFFSET \in Pages /\ 1 .. STAMP_PAGE_OFFSET - 1 \subseteq Pages
  /\ \A i \in Images : /\ NumFwPages[i] \in Nat \ {0}
                       /\ FW_PAGE_OFFSET .. FW_PAGE_OFFSET + NumFwPages[i] - 1 \subseteq Pages
<1>1. PICK i \in Images : NumFwPages[i] \in Nat \ {0} /\ FW_PAGE_OFFSET + NumFwPages[i] <= PagesPerBlk
  BY ImageAssumption
<1>2. PagesPerBlk \in Nat /\ STAMP_PAGE_OFFSET \in Nat /\ FW_PAGE_OFFSET \in Nat
  BY LayoutAssumption
<1>3. \A j \in Images : NumFwPages[j] \in Nat \ {0} /\ FW_PAGE_OFFSET + NumFwPages[j] <= PagesPerBlk
  BY ImageAssumption
<1>4. QED
  BY <1>1, <1>2, <1>3, BanksAssumption, BlocksAssumption, LayoutAssumption DEF Pages

LEMMA Concatenated ==
  ASSUME NEW S, NEW s \in Seq(S), NEW t \in Seq(S)
  PROVE  s \o t \in Seq(S) /\ ToSet(s \o t) = ToSet(s) \cup ToSet(t)
<1>1. s \o t \in Seq(S) /\ Len(s \o t) = Len(s) + Len(t) /\ Len(s) \in Nat /\ Len(t) \in Nat
  OBVIOUS
<1>2. ASSUME NEW i \in 1 .. Len(s) + Len(t)
      PROVE  (s \o t)[i] = IF i <= Len(s) THEN s[i] ELSE t[i - Len(s)]
  OBVIOUS
<1>3. ToSet(s \o t) = {(s \o t)[i] : i \in 1 .. Len(s) + Len(t)}
  BY <1>1 DEF ToSet
<1>4. ToSet(s) = {s[i] : i \in 1 .. Len(s)} /\ ToSet(t) = {t[i] : i \in 1 .. Len(t)}
  BY DEF ToSet
<1>5. ASSUME NEW x \in ToSet(s \o t) PROVE x \in ToSet(s) \cup ToSet(t)
  <2>1. PICK i \in 1 .. Len(s) + Len(t) : x = (s \o t)[i]
    BY <1>3
  <2>2. CASE i <= Len(s)
    BY <1>1, <1>2, <1>4, <2>1, <2>2
  <2>3. CASE ~(i <= Len(s))
    <3>1. i - Len(s) \in 1 .. Len(t) /\ x = t[i - Len(s)]
      BY <1>1, <1>2, <2>1, <2>3
    <3>2. QED BY <1>4, <3>1
  <2>4. QED BY <2>2, <2>3
<1>6. ASSUME NEW x \in ToSet(s) PROVE x \in ToSet(s \o t)
  <2>1. PICK i \in 1 .. Len(s) : x = s[i]
    BY <1>4
  <2>2. i \in 1 .. Len(s) + Len(t) /\ x = (s \o t)[i]
    BY <1>1, <1>2, <2>1
  <2>3. QED BY <1>3, <2>2
<1>7. ASSUME NEW x \in ToSet(t) PROVE x \in ToSet(s \o t)
  <2>1. PICK i \in 1 .. Len(t) : x = t[i]
    BY <1>4
  <2>2. i + Len(s) \in 1 .. Len(s) + Len(t) /\ (i + Len(s)) - Len(s) = i /\ ~(i + Len(s) <= Len(s))
    BY <1>1
  <2>3. x = (s \o t)[i + Len(s)]
    BY <1>2, <2>1, <2>2
  <2>4. QED BY <1>3, <2>2, <2>3
<1>8. QED
  BY <1>1, <1>5, <1>6, <1>7

LEMMA NoEntries == ToSet(<<>>) = {}
BY DEF ToSet

LEMMA Listed ==
  ASSUME NEW S, IsFiniteSet(S)
  PROVE  SetToSeq(S) \in Seq(S) /\ ToSet(SetToSeq(S)) = S /\ Len(SetToSeq(S)) = Cardinality(S)
<1> DEFINE n == Cardinality(S)
           s == SetToSeq(S)
<1>1. n \in Nat /\ ExistsBijection(1 .. n, S)
  BY FS_CardinalityType
<1>2. \E f \in [1 .. n -> S] : IsInjective(f)
  BY <1>1 DEF ExistsBijection, Bijection, Injection
<1>3. s \in [1 .. n -> S] /\ IsInjective(s)
  BY <1>2 DEF SetToSeq
<1>4. s \in Injection(1 .. n, S)
  BY <1>3 DEF Injection
<1>5. IsFiniteSet(1 .. n) /\ Cardinality(1 .. n) = n
  <2>1. IsFiniteSet(1 .. n) /\ Cardinality(1 .. n) = IF 1 > n THEN 0 ELSE n - 1 + 1
    BY <1>1, FS_Interval
  <2> HIDE DEF n
  <2>2. QED BY <1>1, <2>1
<1>6. s \in Surjection(1 .. n, S)
  BY <1>4, <1>5, FS_Injection
<1>7. \A x \in S : \E i \in 1 .. n : s[i] = x
  BY <1>6 DEF Surjection
<1> HIDE DEF n, s
<1>8. s \in Seq(S) /\ Len(s) = n /\ DOMAIN s = 1 .. n
  BY <1>1, <1>3
<1>9. ToSet(s) = S
  BY <1>3, <1>7, <1>8 DEF ToSet
<1>10. QED
  BY <1>8, <1>9 DEF n, s

\* However it is wired, the size of the SDRAM is found.
LEMMA SizeFound == ASSUME NEW w \in Wirings PROVE DetectSdramSize(w) = SizeOf(w)
<1> USE DEF DetectSdramSize, SizeOf, Store, Cell
<1>1. CASE w = "16MB"
  BY <1>1
<1>2. CASE w = "32MB_alias"
  BY <1>2
<1>3. CASE w = "32MB_open"
  BY <1>3
<1>4. CASE w = "64MB"
  BY <1>4
<1>5. QED
  BY <1>1, <1>2, <1>3, <1>4 DEF Wirings

-----------------------------------------------------------------------------
(* What programming a page of block 0 does, and what its reading back proves. *)

LEMMA ReadBack ==
  ASSUME NEW x, Triple(x), NEW e, NEW k, NEW v, k \notin {"blank", "garbage"}, ReadOut(x, e) = <<k, v>>
  PROVE  x = <<k, v, e>>
<1>1. CASE x = Blank
  BY <1>1 DEF ReadOut, Blank
<1>2. CASE x # Blank /\ x[3] = e
  <2>1. <<x[1], x[2]>> = <<k, v>>
    BY <1>2 DEF ReadOut
  <2>2. x[1] = k /\ x[2] = v
    BY <2>1
  <2>3. QED BY <1>2, <2>2 DEF Triple
<1>3. CASE x # Blank /\ x[3] # e
  BY <1>3 DEF ReadOut
<1>4. QED
  BY <1>1, <1>2, <1>3

LEMMA BlankRead == Blank[1] = "blank" /\ \A e : ReadOut(Blank, e)[1] = "blank"
BY DEF ReadOut, Blank

LEMMA IsTriple == \A k, v, e : Triple(<<k, v, e>>)
BY DEF Triple

LEMMA Programmed ==
  ASSUME Types, NEW b \in Bmp, NEW p \in Pages, NEW k, NEW v, NEW e, Program(b, p, <<k, v, e>>)
  PROVE  /\ block0' = [c \in Bmp |-> [q \in Pages |-> block0'[c][q]]]
         /\ \A c \in Bmp, q \in Pages : Triple(block0'[c][q])
         /\ \A c \in Bmp, q \in Pages : c # b \/ q # p => block0'[c][q] = block0[c][q]
         /\ block0'[b][p] \in {<<k, v, e>>, Garbage}
<1>1. PICK x : /\ block0' = [block0 EXCEPT ![b][p] = x]
               /\ x \in {<<k, v, e>>, Garbage}
  BY DEF Program
<1>2. Triple(x)
  BY <1>1, IsTriple DEF Garbage
<1>3. /\ block0 = [c \in Bmp |-> [q \in Pages |-> block0[c][q]]]
      /\ \A c \in Bmp, q \in Pages : Triple(block0[c][q])
  BY DEF Types
<1>4. block0'[b][p] = x /\ \A c \in Bmp, q \in Pages : c # b \/ q # p => block0'[c][q] = block0[c][q]
  BY <1>1, <1>3
<1>5. block0' = [c \in Bmp |-> [q \in Pages |-> block0'[c][q]]]
  <2> DEFINE row == [block0[b] EXCEPT ![p] = x]
  <2>1. row = [q \in Pages |-> row[q]]
    BY <1>3
  <2>2. block0' = [block0 EXCEPT ![b] = row]
    BY <1>1
  <2> HIDE DEF row
  <2>3. QED BY <1>3, <2>1, <2>2
<1>6. QED
  BY <1>1, <1>2, <1>3, <1>4, <1>5

-----------------------------------------------------------------------------
(* The initial state, and the steps that leave block 0 as it is. *)

LEMMA InitInv == Init => IInv
<1> SUFFICES ASSUME Init PROVE IInv
  OBVIOUS
<1>1. Types
  <2>1. /\ pc = "exited" /\ bk = FirstBank /\ pg = 0 /\ bl = 0 /\ endBl = 0
        /\ list = [b \in AllBanks |-> <<>>] /\ bad \in BadPatterns /\ marks = bad
        /\ block0 = [b \in Bmp |-> [p \in Pages |-> Blank]]
        /\ dram = [b \in AllBanks |-> <<"garbage", 0>>]
        /\ file = [d \in Dirs |-> [b \in Bmp |-> <<"none">>]]
    BY DEF Init
  <2>2. image \in Images /\ dir \in Dirs /\ sdram \in Wirings
    BY ImageAssumption, DirsAssumption DEF Init
  <2>3. Triple(Blank)
    BY DEF Triple, Blank
  <2>4. \A b \in Bmp : list[b] \in Seq(Entries)
    BY <2>1, Layout
  <2>5. \A b \in Bmp, p \in Pages : Triple(block0[b][p])
    BY <2>1, <2>3
  <2>6. QED BY <2>1, <2>2, <2>4, <2>5, First DEF Types
<1>2. Lists
  <2>1. /\ pc = "exited" /\ loaded = FALSE /\ marks = bad
        /\ list = [b \in AllBanks |-> <<>>]
        /\ block0 = [b \in Bmp |-> [p \in Pages |-> Blank]]
        /\ file = [d \in Dirs |-> [b \in Bmp |-> <<"none">>]]
    BY DEF Init
  <2>2. \A b \in Bmp : block0[b][0][1] # "list" /\ list[b] = <<>>
    BY <2>1, Layout DEF Blank
  <2>3. QED BY <2>1, <2>2 DEF Lists, Working
<1>3. Progress /\ Clean /\ SdramMatches
  BY DEF Init, Progress, Clean, SdramMatches
<1>4. BootBlock
  <2>1. \A b \in Bmp : ~Stamped(b)
    BY Layout DEF Init, Stamped, ReadOut, Blank
  <2>2. QED BY <2>1 DEF BootBlock
<1>5. QED
  BY <1>1, <1>2, <1>3, <1>4 DEF IInv

\* Nothing is being installed after the step, and what was, was cut off.
LEMMA Quiet ==
  ASSUME IInv, UNCHANGED <<block0, unerased>>, cut => cut',
         pc \in {"stamp", "firmware"} => cut',
         pc' \in {"exited", "menu", "save"} \/ (pc' = "erase" /\ bk' = FirstBank)
  PROVE  Progress' /\ Clean' /\ BootBlock'
<1>1. Progress'
  BY DEF Progress
<1>2. Clean'
  <2>1. \A b \in Bmp : pc' = "erase" => ~(b < bk')
    BY First, Layout
  <2>2. QED BY <2>1 DEF Clean
<1>3. BootBlock'
  <2> SUFFICES ASSUME NEW b \in Bmp \ unerased', Stamped(b)'
               PROVE  /\ ReadOut(block0'[b][0], FALSE)[1] = "list"
                      /\ pc' \notin {"stamp", "firmware"} /\ ~cut' =>
                           \E i \in Images :
                             /\ NumFwPages[i] = block0'[b][STAMP_PAGE_OFFSET][2]
                             /\ \A p \in 0..NumFwPages[i] - 1 :
                                  block0'[b][FW_PAGE_OFFSET + p] = Written(FwPage(i, p), TRUE)
    BY DEF BootBlock
  <2>1. b \in Bmp \ unerased /\ Stamped(b)
    BY DEF Stamped
  <2>2. QED BY <2>1 DEF IInv, BootBlock
<1>4. QED
  BY <1>1, <1>2, <1>3

\* What is known of a list is not forgotten.
LEMMA StillTrusted ==
  ASSUME bad' = bad, untrusted => untrusted', appended => appended'
  PROVE  \A b, l : Trusted(b, l) => Trusted(b, l)'
BY DEF Trusted, BadOf

\* Lists on flash and on disk, when the step at most erases or spoils one, or writes the one in memory.
LEMMA Kept ==
  ASSUME IInv, bad' = bad, untrusted => untrusted', appended => appended',
         ~untrusted' => marks' = marks, file' = file,
         \A b \in Bmp : \/ block0'[b][0] = block0[b][0] \/ block0'[b][0][1] # "list"
                        \/ loaded /\ block0'[b][0][2] = list[b]
  PROVE  /\ ~untrusted' => marks' = bad'
         /\ \A b \in Bmp : block0'[b][0][1] = "list" => Trusted(b, block0[b][0][2])'
         /\ \A d \in Dirs, b \in Bmp : \/ file'[d][b] \in {<<"none">>, <<"empty">>}
                                       \/ file'[d][b][1] = "list" /\ Trusted(b, file[d][b][2])'
<1>1. Lists
  BY DEF IInv
<1>2. \A b, l : Trusted(b, l) => Trusted(b, l)'
  BY StillTrusted
<1>3. ASSUME NEW b \in Bmp, block0'[b][0][1] = "list" PROVE Trusted(b, block0[b][0][2])'
  <2>1. PICK l : l = block0'[b][0][2] /\ Trusted(b, l)
    BY <1>1, <1>3 DEF Lists
  <2>2. Trusted(b, l)'
    BY <1>2, <2>1
  <2>3. QED BY <2>1, <2>2
<1>4. ASSUME NEW d \in Dirs, NEW b \in Bmp, file'[d][b] \notin {<<"none">>, <<"empty">>}
      PROVE  file'[d][b][1] = "list" /\ Trusted(b, file[d][b][2])'
  <2>1. PICK l : l = file[d][b][2] /\ Trusted(b, l) /\ file[d][b][1] = "list"
    BY <1>1, <1>4 DEF Lists
  <2>2. file'[d][b][2] = l /\ Trusted(b, l)'
    BY <1>2, <2>1
  <2>3. QED BY <2>1, <2>2
<1>5. QED
  BY <1>1, <1>3, <1>4 DEF Lists

\* The lists in memory, when the step leaves them.
LEMMA ListsKept ==
  ASSUME IInv, bad' = bad, untrusted => untrusted', appended => appended',
         list' = list, loaded' => loaded
  PROVE  /\ \A b \in Bmp : list'[b] = <<>> \/ Trusted(b, list[b])'
         /\ loaded' => \A b \in Bmp : Trusted(b, list[b])'
<1>1. Lists
  BY DEF IInv
<1>2. \A b, l : Trusted(b, l) => Trusted(b, l)'
  BY StillTrusted
<1>3. ASSUME NEW b \in Bmp, Trusted(b, list[b]) PROVE Trusted(b, list[b])'
  <2>1. PICK l : l = list[b] /\ Trusted(b, l)
    BY <1>3
  <2>2. list'[b] = l /\ Trusted(b, l)'
    BY <1>2, <2>1
  <2>3. QED BY <2>2
<1>4. QED
  BY <1>1, <1>3 DEF Lists

LEMMA OpenInv == ASSUME IInv, OpenTargetDrv PROVE IInv'
<1>1. /\ UNCHANGED <<host, bl, endBl, pg, ok, dir, disk, drive, hist, fixed>>
      /\ pc = "exited" /\ pc' \in {"exited", "menu"} /\ bk' \in Bmp
      /\ pc' # "exited" => DetectSdramSize(sdram) = BuiltSize
  BY First DEF OpenTargetDrv, Goto, IInv, Types
<1> USE DEF host, disk, drive, hist, fixed
<1>2. Types'
  BY <1>1 DEF IInv, Types
<1>3. Lists'
  BY <1>1, Kept, ListsKept DEF Lists, Working
<1>4. Progress' /\ Clean' /\ BootBlock'
  BY <1>1, Quiet
<1>5. SdramMatches'
  BY <1>1, SizeFound DEF SdramMatches, IInv, Types
<1>6. QED
  BY <1>2, <1>3, <1>4, <1>5 DEF IInv

\* The end of the program, for whatever reason.
LEMMA ExitInv ==
  ASSUME IInv, Exit, cut => cut', pc \in {"stamp", "firmware"} => cut',
         UNCHANGED <<disk, marks, block0, untrusted, appended, unerased, fixed>>
  PROVE  IInv'
<1>1. /\ pc' = "exited" /\ bk' = FirstBank /\ loaded' = FALSE /\ list' = [b \in AllBanks |-> <<>>]
      /\ bl' = 0 /\ endBl' = 0 /\ pg' = 0 /\ dram' = [b \in AllBanks |-> <<"garbage", 0>>]
      /\ UNCHANGED <<image, dir>>
  BY DEF Exit, Goto
<1>2. UNCHANGED <<made, file, marks, block0, untrusted, appended, unerased, bad, sdram>>
  BY DEF disk, fixed
<1>3. \A b \in Bmp : list'[b] = <<>> /\ list'[b] \in Seq(Entries)
  BY <1>1, Layout
<1>4. Types'
  <2>1. dram' = [b \in AllBanks |-> dram'[b]] /\ DOMAIN dram' = AllBanks
    BY <1>1
  <2>2. bk' \in Bmp /\ pg' \in Nat /\ bl' \in Nat /\ endBl' \in {0, PblksPerBank} /\ bl' <= endBl'
    BY <1>1, First
  <2>3. DOMAIN list' = AllBanks
    BY <1>1
  <2>4. QED BY <1>1, <1>2, <1>3, <2>1, <2>2, <2>3 DEF IInv, Types
<1>5. Lists'
  BY <1>1, <1>2, <1>3, Kept DEF Lists, Working
<1>6. Progress' /\ Clean' /\ BootBlock'
  BY <1>1, <1>2, Quiet
<1>7. SdramMatches'
  BY <1>1 DEF SdramMatches
<1>8. QED
  BY <1>4, <1>5, <1>6, <1>7 DEF IInv

LEMMA HostExitInv == ASSUME IInv, HostExit PROVE IInv'
<1>1. /\ Exit /\ (cut => cut') /\ (pc \in {"stamp", "firmware"} => cut')
      /\ UNCHANGED <<disk, marks, block0, untrusted, appended, unerased, fixed>>
  BY DEF HostExit
<1>2. QED
  BY <1>1, ExitInv

LEMMA MenuExitInv == ASSUME IInv, MenuExit \/ Complete PROVE IInv'
<1>1. /\ Exit /\ (cut => cut') /\ pc \notin {"stamp", "firmware"}
      /\ UNCHANGED <<disk, marks, block0, untrusted, appended, unerased, fixed>>
  BY DEF MenuExit, Complete, hist
<1>2. QED
  BY <1>1, ExitInv

LEMMA InitDriveInv == ASSUME IInv, InitDrive PROVE IInv'
<1>1. /\ UNCHANGED <<loaded, list, image, pc, loops, disk, marks, block0, dram, hist, fixed>>
      /\ pc = "menu"
  BY DEF InitDrive
<1> USE DEF loops, disk, hist, fixed
<1>2. Types'
  BY <1>1 DEF IInv, Types
<1>3. Lists'
  BY <1>1, Kept, ListsKept DEF Lists, Working
<1>4. Progress' /\ Clean' /\ BootBlock'
  BY <1>1, Quiet
<1>5. SdramMatches'
  BY <1>1 DEF SdramMatches, IInv
<1>6. QED
  BY <1>2, <1>3, <1>4, <1>5 DEF IInv

-----------------------------------------------------------------------------
(* Scanning, loading and saving lists; the start of an erase. *)

LEMMA MarkedIs ==
  ASSUME Types, NEW b \in Bmp
  PROVE  Marked(b) \subseteq Entries /\ IsFiniteSet(Marked(b)) /\ (marks = bad => Marked(b) = BadOf(b))
<1>1. marks \subseteq AllBanks \X Blocks \X Chips
  BY BlocksAssumption DEF Types
<1>2. Marked(b) \subseteq Entries
  BY <1>1 DEF Marked, Entries
<1>3. IsFiniteSet(Entries)
  <2>1. IsFiniteSet(Blocks)
    BY Layout, FS_Interval DEF Blocks
  <2>2. IsFiniteSet(Chips)
    <3>1. Chips = {"H"} \cup {"L"}
      BY DEF Chips
    <3>2. QED BY <3>1, FS_Singleton, FS_Union
  <2>3. QED BY <2>1, <2>2, FS_Product DEF Entries
<1>4. IsFiniteSet(Marked(b))
  BY <1>2, <1>3, FS_Subset
<1>5. marks = bad => Marked(b) = BadOf(b)
  BY DEF Marked, BadOf
<1>6. QED
  BY <1>2, <1>4, <1>5

LEMMA ScanInv == ASSUME IInv, ScanBadBlks PROVE IInv'
<1>1. /\ UNCHANGED <<up, image, pc, loops, disk, drive, untrusted, cut, unerased, fixed>>
      /\ pc = "menu" /\ loaded' = TRUE
      /\ list' = [b \in AllBanks |-> IF b \in Bmp THEN Scanned(b) ELSE list[b]]
      /\ appended' <=> appended \/ \E b \in Bmp : list[b] # <<>>
  BY DEF ScanBadBlks
<1> USE DEF loops, disk, drive, fixed
<1>2. ASSUME NEW b \in Bmp
      PROVE  /\ list'[b] \in Seq(Entries)
             /\ ~untrusted => ToSet(list'[b]) = BadOf(b)
             /\ ~untrusted /\ ~appended' => Len(list'[b]) = Cardinality(BadOf(b))
  <2> DEFINE m == Marked(b)
             r == ScanResult(b)
  <2>1. m \subseteq Entries /\ IsFiniteSet(m) /\ (~untrusted => m = BadOf(b))
    BY MarkedIs DEF IInv, Lists
  <2>2. r \in Seq(m) /\ ToSet(r) = m /\ Len(r) = Cardinality(m)
    BY <2>1, Listed DEF ScanResult
  <2>3. list'[b] = list[b] \o r
    BY <1>1, Layout DEF Scanned
  <2>4. list[b] \in Seq(Entries)
    BY DEF IInv, Types
  <2> HIDE DEF m, r
  <2>5. r \in Seq(Entries)
    BY <2>1, <2>2
  <2>6. list'[b] \in Seq(Entries) /\ ToSet(list'[b]) = ToSet(list[b]) \cup m
    BY <2>2, <2>3, <2>4, <2>5, Concatenated
  <2>7. ASSUME ~untrusted PROVE ToSet(list[b]) \in {{}, BadOf(b)}
    <3>1. list[b] = <<>> \/ Trusted(b, list[b])
      BY DEF IInv, Lists
    <3>2. QED BY <2>7, <3>1, NoEntries DEF Trusted
  <2>8. ASSUME ~appended' PROVE Len(list'[b]) = Cardinality(m)
    <3>1. list[b] = <<>>
      BY <1>1, <2>8
    <3>2. list'[b] = r
      BY <2>3, <2>5, <3>1
    <3>3. QED BY <2>2, <3>2
  <2>9. QED BY <2>1, <2>6, <2>7, <2>8
<1>3. ASSUME NEW b \in Bmp PROVE Trusted(b, list[b])'
  BY <1>1, <1>2 DEF Trusted, BadOf
<1>4. Types'
  BY <1>1, <1>2 DEF IInv, Types
<1>5. Lists'
  BY <1>1, <1>3, Kept DEF Lists, Working
<1>6. Progress' /\ Clean' /\ BootBlock'
  BY <1>1, Quiet
<1>7. SdramMatches'
  BY <1>1 DEF SdramMatches, IInv
<1>8. QED
  BY <1>4, <1>5, <1>6, <1>7 DEF IInv

LEMMA FromNandInv == ASSUME IInv, LoadScanListFromNand PROVE IInv'
<1> DEFINE found == {b \in Bmp : BankRead(b, 0)[1] = "list"}
<1>1. /\ UNCHANGED <<up, image, pc, loops, disk, drive, hist, fixed>>
      /\ pc = "menu" /\ (loaded' <=> loaded \/ found = Bmp)
      /\ list' = [b \in AllBanks |-> IF b \in found THEN BankRead(b, 0)[2] ELSE list[b]]
  BY DEF LoadScanListFromNand
<1> USE DEF loops, disk, drive, hist, fixed
<1>2. \A b, l : Trusted(b, l) => Trusted(b, l)'
  BY <1>1, StillTrusted
<1>3. ASSUME NEW b \in found PROVE Trusted(b, list[b])'
  <2>1. BankRead(b, 0)[1] = "list"
    OBVIOUS
  <2>2. block0[b][0][1] = "list" /\ BankRead(b, 0)[2] = block0[b][0][2]
    BY <2>1 DEF BankRead, ReadOut
  <2>3. PICK l : l = block0[b][0][2] /\ Trusted(b, l)
    BY <2>2 DEF IInv, Lists
  <2>4. list'[b] = l /\ Trusted(b, l)'
    BY <1>1, <1>2, <2>2, <2>3, Layout
  <2>5. QED BY <2>4
<1>4. ASSUME NEW b \in Bmp \ found, Trusted(b, list[b]) PROVE Trusted(b, list[b])'
  <2>1. PICK l : l = list[b] /\ Trusted(b, l)
    BY <1>4
  <2>2. list'[b] = l /\ Trusted(b, l)'
    BY <1>1, <1>2, <2>1, Layout
  <2>3. QED BY <2>2
<1>5. \A b \in Bmp \ found : list'[b] = list[b]
  BY <1>1, Layout
<1>6. \A b \in Bmp : list'[b] = <<>> \/ Trusted(b, list[b])'
  BY <1>3, <1>4, <1>5 DEF IInv, Lists
<1>7. loaded' => \A b \in Bmp : Trusted(b, list[b])'
  BY <1>1, <1>3, <1>4 DEF IInv, Lists
<1>8. Types'
  <2>1. \A b \in Bmp : list'[b] \in Seq(Entries)
    BY <1>3, <1>5 DEF IInv, Types, Trusted
  <2>2. DOMAIN list' = AllBanks
    BY <1>1
  <2>3. QED BY <1>1, <2>1, <2>2 DEF IInv, Types
<1>9. Lists'
  BY <1>1, <1>6, <1>7, Kept DEF Lists, Working
<1>10. Progress' /\ Clean' /\ BootBlock'
  BY <1>1, Quiet
<1>11. SdramMatches'
  BY <1>1 DEF SdramMatches, IInv
<1>12. QED
  BY <1>8, <1>9, <1>10, <1>11 DEF IInv

LEMMA FromFileInv == ASSUME IInv, LoadScanListFromFile PROVE IInv'
<1> DEFINE Read(d) == {b \in FilesRead(d) : file[d][b] # <<"empty">>}
<1>0. PICK d \in Dirs :
        /\ list' = [b \in AllBanks |-> IF b \in Read(d) THEN file[d][b][2] ELSE list[b]]
        /\ untrusted' <=> untrusted \/ (~loaded /\ Read(d) # Bmp)
  BY DEF LoadScanListFromFile
<1>1. PICK read :
        /\ read = {b \in FilesRead(d) : file[d][b] # <<"empty">>}
        /\ list' = [b \in AllBanks |-> IF b \in read THEN file[d][b][2] ELSE list[b]]
        /\ untrusted' <=> untrusted \/ (~loaded /\ read # Bmp)
  BY <1>0
<1> HIDE DEF Read
<1>2. /\ UNCHANGED <<up, image, pc, loops, disk, drive, appended, cut, unerased, fixed>>
      /\ pc = "menu" /\ loaded' = TRUE
  BY DEF LoadScanListFromFile
<1> USE DEF loops, disk, drive, fixed
<1>3. \A b, l : Trusted(b, l) => Trusted(b, l)'
  BY <1>1, <1>2, StillTrusted
<1>4. read \subseteq Bmp
  BY <1>1 DEF FilesRead
<1>5. ASSUME NEW b \in read PROVE Trusted(b, list[b])'
  <2>1. file[d][b] # <<"none">> /\ file[d][b] # <<"empty">> /\ b \in Bmp
    BY <1>1, Layout DEF FilesRead
  <2>2. PICK l : l = file[d][b][2] /\ Trusted(b, l)
    BY <2>1 DEF IInv, Lists
  <2>3. list'[b] = l /\ Trusted(b, l)'
    BY <1>1, <1>3, <2>1, <2>2, Layout
  <2>4. QED BY <2>3
<1>6. ASSUME NEW b \in Bmp \ read PROVE Trusted(b, list[b])'
  <2>1. PICK l \in Seq(Entries) : l = list[b]
    BY DEF IInv, Types
  <2>2. list'[b] = l
    BY <1>1, <2>1, Layout
  <2>3. CASE loaded
    <3>1. Trusted(b, l)
      BY <2>1, <2>3 DEF IInv, Lists
    <3>2. QED BY <1>3, <2>2, <3>1
  <2>4. CASE ~loaded
    <3>1. untrusted'
      BY <1>1, <1>4, <2>4
    <3>2. QED BY <2>1, <2>2, <3>1 DEF Trusted
  <2>5. QED BY <2>3, <2>4
<1>7. Types'
  <2>1. \A b \in Bmp : list'[b] \in Seq(Entries)
    BY <1>5, <1>6 DEF Trusted
  <2>2. DOMAIN list' = AllBanks
    BY <1>1
  <2>3. QED BY <1>2, <2>1, <2>2 DEF IInv, Types
<1>8. Lists'
  BY <1>1, <1>2, <1>5, <1>6, Kept DEF Lists, Working
<1>9. Progress' /\ Clean' /\ BootBlock'
  BY <1>2, Quiet
<1>10. SdramMatches'
  BY <1>2 DEF SdramMatches, IInv
<1>11. QED
  BY <1>7, <1>8, <1>9, <1>10 DEF IInv

LEMMA SaveScanInv == ASSUME IInv, SaveScan PROVE IInv'
<1>1. /\ UNCHANGED <<host, bl, endBl, pg, ok, file, drive, hist, fixed>>
      /\ pc = "menu" /\ loaded /\ pc' = "save" /\ bk' = FirstBank /\ dir' \in Dirs
  BY DEF SaveScan, Goto
<1> USE DEF host, drive, hist, fixed
<1>2. Types'
  BY <1>1, First DEF IInv, Types
<1>3. Lists'
  BY <1>1, Kept, ListsKept DEF Lists, Working
<1>4. Progress' /\ Clean' /\ BootBlock'
  BY <1>1, Quiet
<1>5. SdramMatches'
  BY <1>1 DEF SdramMatches, IInv
<1>6. QED
  BY <1>2, <1>3, <1>4, <1>5 DEF IInv

\* A file of the scan lists changes, to empty or to the list of its bank.
LEMMA SavedInv ==
  ASSUME IInv, pc = "save", UNCHANGED <<host, bl, endBl, pg, ok, dir, drive, hist, fixed>>,
         pc' \in {"save", "menu"}, bk' \in Bmp,
         NEW x, file' = [file EXCEPT ![dir][bk] = x], x = <<"empty">> \/ x = ListOf(bk)
  PROVE  IInv'
<1> USE DEF host, drive, hist, fixed
<1>1. loaded
  BY DEF IInv, Lists
<1>2. /\ dir \in Dirs /\ bk \in Bmp
      /\ file = [d \in Dirs |-> [b \in Bmp |-> file[d][b]]]
  BY DEF IInv, Types
<1>3. /\ file'[dir][bk] = x
      /\ \A d \in Dirs, b \in Bmp : d # dir \/ b # bk => file'[d][b] = file[d][b]
  BY <1>2
<1>4. file' = [d \in Dirs |-> [b \in Bmp |-> file'[d][b]]]
  <2> DEFINE one == [file[dir] EXCEPT ![bk] = x]
  <2>1. one = [b \in Bmp |-> one[b]]
    BY <1>2
  <2>2. file' = [file EXCEPT ![dir] = one]
    OBVIOUS
  <2> HIDE DEF one
  <2>3. QED BY <1>2, <2>1, <2>2
<1>5. \A b, l : Trusted(b, l) => Trusted(b, l)'
  BY StillTrusted
<1>6. ASSUME NEW d \in Dirs, NEW b \in Bmp
      PROVE  \/ file'[d][b] \in {<<"none">>, <<"empty">>}
             \/ file'[d][b][1] = "list" /\ Trusted(b, file[d][b][2])'
  <2>1. CASE d = dir /\ b = bk /\ x # <<"empty">>
    <3>1. PICK l : l = list[bk] /\ Trusted(bk, l)
      BY <1>1, <1>2 DEF IInv, Lists
    <3>2. file'[d][b] = <<"list", l>>
      BY <1>3, <2>1, <3>1 DEF ListOf
    <3>3. Trusted(b, l)' /\ file'[d][b][2] = l /\ file'[d][b][1] = "list"
      BY <1>5, <2>1, <3>1, <3>2
    <3>4. QED BY <3>3
  <2>2. CASE d = dir /\ b = bk /\ x = <<"empty">>
    BY <1>3, <2>2
  <2>3. CASE d # dir \/ b # bk
    <3>1. file'[d][b] = file[d][b]
      BY <1>3, <2>3
    <3>2. CASE file[d][b] \in {<<"none">>, <<"empty">>}
      BY <3>1, <3>2
    <3>3. CASE file[d][b] \notin {<<"none">>, <<"empty">>}
      <4>1. PICK l : l = file[d][b][2] /\ Trusted(b, l) /\ file[d][b][1] = "list"
        BY <3>3 DEF IInv, Lists
      <4>2. Trusted(b, l)' /\ file'[d][b][2] = l /\ file'[d][b][1] = "list"
        BY <1>5, <3>1, <4>1
      <4>3. QED BY <4>2
    <3>4. QED BY <3>2, <3>3
  <2>4. QED BY <2>1, <2>2, <2>3
<1>7. Types'
  BY <1>4 DEF IInv, Types
<1>8. Lists'
  <2>1. \A b \in Bmp : block0'[b][0][1] = "list" => Trusted(b, block0[b][0][2])'
    <3> SUFFICES ASSUME NEW b \in Bmp, block0'[b][0][1] = "list" PROVE Trusted(b, block0[b][0][2])'
      OBVIOUS
    <3>1. PICK l : l = block0[b][0][2] /\ Trusted(b, l)
      BY DEF IInv, Lists
    <3>2. Trusted(b, l)' /\ block0'[b][0][2] = l
      BY <1>5, <3>1
    <3>3. QED BY <3>2
  <2>2. ~untrusted' => marks' = bad'
    BY DEF IInv, Lists
  <2>3. QED BY <1>1, <1>6, <2>1, <2>2, ListsKept DEF Lists, Working
<1>9. Progress' /\ Clean' /\ BootBlock'
  BY Quiet
<1>10. SdramMatches'
  BY DEF SdramMatches, IInv
<1>11. QED
  BY <1>7, <1>8, <1>9, <1>10 DEF IInv

LEMMA SaveInv == ASSUME IInv, SaveOpen \/ SaveClose PROVE IInv'
<1>1. bk \in Bmp
  BY DEF IInv, Types
<1>2. CASE SaveOpen
  <2>1. /\ UNCHANGED <<host, bl, endBl, pg, ok, dir, drive, hist, fixed>>
        /\ pc = "save" /\ pc' = "save" /\ bk' = bk
        /\ file' = [file EXCEPT ![dir][bk] = <<"empty">>]
    BY <1>2 DEF SaveOpen, loops
  <2>2. QED BY <1>1, <2>1, SavedInv
<1>3. CASE SaveClose
  <2>1. /\ UNCHANGED <<host, bl, endBl, pg, ok, dir, drive, hist, fixed>>
        /\ pc = "save" /\ NextBankOr("menu")
        /\ file' = [file EXCEPT ![dir][bk] = ListOf(bk)]
    BY <1>3 DEF SaveClose
  <2>2. pc' \in {"save", "menu"} /\ bk' \in Bmp
    BY <1>1, <2>1, First, Following DEF NextBankOr, Goto
  <2>3. QED BY <2>1, <2>2, SavedInv
<1>4. QED
  BY <1>2, <1>3

LEMMA EraseAllInv == ASSUME IInv, EraseAll PROVE IInv'
<1>1. /\ UNCHANGED <<host, pg, ok, dir, disk, drive, appended, cut, unerased, fixed>>
      /\ pc = "menu" /\ pc' = "erase" /\ bk' = FirstBank /\ bl' = 0 /\ endBl' = PblksPerBank
      /\ untrusted' <=> untrusted \/ ~loaded
  BY DEF EraseAll, StartErase, Goto
<1> USE DEF host, disk, drive, fixed
<1>2. Types'
  BY <1>1, First, Layout DEF IInv, Types
<1>3. endBl' # 0
  BY <1>1, Layout
<1>4. Lists'
  BY <1>1, <1>3, Kept, ListsKept DEF Lists, Working
<1>5. Progress' /\ Clean' /\ BootBlock'
  BY <1>1, Quiet
<1>6. SdramMatches'
  BY <1>1 DEF SdramMatches, IInv
<1>7. QED
  BY <1>2, <1>4, <1>5, <1>6 DEF IInv

LEMMA InstallInv == ASSUME IInv, Install PROVE IInv'
<1>1. /\ UNCHANGED <<up, loaded, list, pg, ok, dir, disk, drive, hist, fixed>>
      /\ pc = "menu" /\ loaded /\ image' \in Images
      /\ pc' = "erase" /\ bk' = FirstBank /\ bl' = 0 /\ endBl' = 0
  BY DEF Install, StartErase, Goto
<1> USE DEF disk, drive, hist, fixed
<1>2. Types'
  BY <1>1, First DEF IInv, Types
<1>3. Lists'
  BY <1>1, Kept, ListsKept DEF Lists, Working
<1>4. Progress' /\ Clean' /\ BootBlock'
  BY <1>1, Quiet
<1>5. SdramMatches'
  BY <1>1 DEF SdramMatches, IInv
<1>6. QED
  BY <1>2, <1>3, <1>4, <1>5 DEF IInv

-----------------------------------------------------------------------------
(* One erase. *)

\* The marks of the bad blocks on a trusted list are out of its reach.
LEMMA MarksSpared ==
  ASSUME IInv, ~untrusted, loaded
  PROVE  marks \ {<<bk, bl, c>> : c \in Chips \ Masks(bk, bl)} = marks
<1>1. marks = bad /\ bk \in Bmp /\ Trusted(bk, list[bk])
  BY DEF IInv, Lists, Types
<1>2. ToSet(list[bk]) = BadOf(bk) /\ list[bk] \in Seq(Entries)
  BY <1>1 DEF Trusted
<1>3. ASSUME NEW c \in Chips \ Masks(bk, bl), <<bk, bl, c>> \in bad PROVE FALSE
  <2>1. <<bl, c>> \in BadOf(bk)
    BY <1>3 DEF BadOf
  <2>2. PICK i \in 1 .. Len(list[bk]) : list[bk][i] = <<bl, c>>
    BY <1>2, <2>1 DEF ToSet
  <2>3. c \in Masks(bk, bl)
    BY <2>2 DEF Masks, Contains
  <2>4. QED BY <2>3
<1>4. QED
  BY <1>1, <1>3

LEMMA EraseInv == ASSUME IInv, EraseBlock PROVE IInv'
<1> DEFINE rest == Chips \ Masks(bk, bl)
           none == [p \in Pages |-> Blank]
<1>1. /\ UNCHANGED <<host, endBl, pg, ok, dir, disk, dram, strong, untrusted, appended, cut, fixed>>
      /\ pc = "erase" /\ NextErase
  BY DEF EraseBlock
<1>2. bk \in Bmp /\ Types /\ Lists /\ (loaded \/ untrusted) /\ bl \in Nat /\ PblksPerBank \in Nat \ {0}
  BY <1>1, Layout DEF IInv, Types, Lists
<1>3. \/ Erased(bk, bl, rest) /\ unerased' = unerased \ (IF bl = 0 THEN {bk} ELSE {})
      \/ UNCHANGED <<marks, block0>> /\ unerased' = unerased \cup (IF bl = 0 THEN {bk} ELSE {})
  BY DEF EraseBlock
<1>4. block0' = [block0 EXCEPT ![bk] = none] \/ (block0' = block0 /\ (bl = 0 => bk \in unerased'))
  <2>1. CASE Erased(bk, bl, rest)
    <3>1. bl = 0 => bl \notin Blocks /\ bl # PblksPerBank
      BY <1>2 DEF Blocks
    <3>2. QED BY <2>1, <3>1 DEF Erased, ErasedBlock0
  <2>2. CASE UNCHANGED <<marks, block0>> /\ unerased' = unerased \cup (IF bl = 0 THEN {bk} ELSE {})
    BY <2>2
  <2>3. QED BY <1>3, <2>1, <2>2
<1>5. marks' \subseteq marks /\ (~untrusted => marks' = marks)
  <2>1. marks' = marks \/ marks' = marks \ {<<bk, bl, c>> : c \in rest}
    BY <1>3 DEF Erased
  <2>2. QED BY <1>2, <2>1, MarksSpared
<1>6. \A b \in Bmp : b # bk => (b \in unerased' <=> b \in unerased)
  BY <1>3
<1>7. bl # 0 => unerased' = unerased
  BY <1>3
<1> HIDE DEF rest
<1>8. /\ block0 = [b \in Bmp |-> [p \in Pages |-> block0[b][p]]]
      /\ \A b \in Bmp, p \in Pages : Triple(block0[b][p])
  BY <1>2 DEF Types
<1>9. \A b \in Bmp : block0'[b] = block0[b] \/ (b = bk /\ block0'[b] = none)
  BY <1>2, <1>4, <1>8
<1>10. block0'[bk] = none \/ (block0' = block0 /\ (bk \notin unerased' => bl # 0))
  BY <1>2, <1>4, <1>8
<1>11. /\ pc' \in {"erase", "lists", "menu"} /\ bk' \in Bmp /\ bl' \in Nat /\ bl' <= endBl'
       /\ pc' = "lists" => endBl = 0
       /\ endBl = 0 /\ pc' \in {"erase", "lists"} =>
            bl = 0 /\ \A c \in Bmp : pc' = "lists" \/ c < bk' => c <= bk
  <2>1. endBl' = endBl /\ endBl \in Nat /\ bl <= endBl /\ bl \in Nat
    BY <1>1, <1>2 DEF Types
  <2>2. CASE Later(bk) # {}
    BY <1>1, <1>2, <2>1, <2>2, Following DEF NextErase
  <2>3. CASE Later(bk) = {} /\ bl < endBl
    BY <1>1, <1>2, <2>1, <2>3, First DEF NextErase
  <2>4. CASE Later(bk) = {} /\ ~(bl < endBl)
    <3>1. pc' = (IF endBl = 0 THEN "lists" ELSE "menu") /\ bk' = FirstBank /\ bl' = bl
      BY <1>1, <2>4 DEF NextErase, Goto
    <3>2. \A c \in Bmp : c <= bk
      BY <1>2, <2>4, LastBank
    <3>3. QED BY <2>1, <3>1, <3>2, First
  <2>5. QED BY <2>2, <2>3, <2>4
<1> USE DEF host, disk, fixed
<1>12. Types'
  <2>1. \A b \in Bmp : block0'[b] = [p \in Pages |-> block0'[b][p]]
    BY <1>8, <1>9
  <2>2. DOMAIN block0' = Bmp /\ block0' = [b \in Bmp |-> block0'[b]]
    BY <1>4, <1>8
  <2>3. block0' = [b \in Bmp |-> [p \in Pages |-> block0'[b][p]]]
    BY <2>1, <2>2
  <2>4. Triple(Blank)
    BY IsTriple DEF Blank
  <2>5. \A b \in Bmp, p \in Pages : Triple(block0'[b][p])
    BY <1>8, <1>9, <2>4
  <2>6. QED BY <1>1, <1>2, <1>5, <1>11, <2>3, <2>5 DEF Types
<1>13. Lists'
  <2>1. \A b \in Bmp : block0'[b][0] = block0[b][0] \/ block0'[b][0][1] # "list"
    <3>1. none[0][1] = "blank"
      BY Layout, BlankRead
    <3> HIDE DEF none
    <3>2. QED BY <1>9, <3>1
  <2>2. bad' = bad /\ (~untrusted' => marks' = marks) /\ file' = file /\ list' = list
        /\ untrusted' = untrusted /\ appended' = appended /\ loaded' = loaded /\ endBl' = endBl
    BY <1>1, <1>5
  <2>3. QED BY <1>1, <1>2, <1>11, <2>1, <2>2, Kept, ListsKept DEF Lists, Working
<1>14. Progress'
  BY <1>11 DEF Progress
<1>15. Clean'
  <2> SUFFICES ASSUME NEW b \in Bmp \ unerased',
                      pc' = "lists" \/ (pc' = "erase" /\ endBl' = 0 /\ b < bk')
               PROVE  block0'[b][STAMP_PAGE_OFFSET] = Blank
    BY <1>11 DEF Clean
  <2>1. endBl = 0 /\ bl = 0 /\ b <= bk
    BY <1>1, <1>11
  <2>2. CASE b = bk
    BY <1>10, <2>1, <2>2, Layout
  <2>3. CASE b # bk
    <3>1. b \in Bmp \ unerased /\ b < bk
      BY <1>2, <1>6, <2>1, <2>3, Layout
    <3>2. block0[b][STAMP_PAGE_OFFSET] = Blank
      BY <1>1, <2>1, <3>1 DEF IInv, Clean
    <3>3. QED BY <1>9, <2>3, <3>2
  <2>4. QED BY <2>2, <2>3
<1>16. BootBlock'
  <2> SUFFICES ASSUME NEW b \in Bmp \ unerased', Stamped(b)'
               PROVE  /\ ReadOut(block0'[b][0], FALSE)[1] = "list"
                      /\ pc' \notin {"stamp", "firmware"} /\ ~cut' =>
                           \E i \in Images :
                             /\ NumFwPages[i] = block0'[b][STAMP_PAGE_OFFSET][2]
                             /\ \A p \in 0..NumFwPages[i] - 1 :
                                  block0'[b][FW_PAGE_OFFSET + p] = Written(FwPage(i, p), TRUE)
    BY DEF BootBlock
  <2>1. block0'[b] # none
    <3>1. ReadOut(none[STAMP_PAGE_OFFSET], TRUE)[1] = "blank"
      BY Layout, BlankRead
    <3>2. ReadOut(block0'[b][STAMP_PAGE_OFFSET], TRUE)[1] = "stamp"
      BY DEF Stamped
    <3> HIDE DEF none
    <3>3. QED BY <3>1, <3>2
  <2>2. block0'[b] = block0[b] /\ b \notin unerased
    BY <1>6, <1>7, <1>9, <1>10, <2>1
  <2>3. Stamped(b)
    BY <2>2 DEF Stamped
  <2>4. QED BY <1>1, <2>2, <2>3 DEF IInv, BootBlock
<1>17. SdramMatches'
  BY <1>1 DEF SdramMatches, IInv
<1>18. QED
  BY <1>12, <1>13, <1>14, <1>15, <1>16, <1>17 DEF IInv

-----------------------------------------------------------------------------
(* Step 1 of an installation: the lists. *)

\* Before step 3 there is no stamp, and these steps write none.
LEMMA Unstamped ==
  ASSUME IInv, pc \in {"lists", "program", "readback", "compare", "fill"}, pc' # "erase",
         unerased' = unerased,
         \A b \in Bmp : block0'[b][STAMP_PAGE_OFFSET] = block0[b][STAMP_PAGE_OFFSET]
  PROVE  Clean' /\ BootBlock'
<1>1. ASSUME NEW b \in Bmp \ unerased' PROVE block0'[b][STAMP_PAGE_OFFSET] = Blank
  BY DEF IInv, Clean
<1>2. ASSUME NEW b \in Bmp \ unerased' PROVE ~Stamped(b)'
  BY <1>1, BlankRead DEF Stamped
<1>3. QED
  BY <1>1, <1>2 DEF Clean, BootBlock

LEMMA SendListsInv == ASSUME IInv, SendLists PROVE IInv'
<1>1. /\ UNCHANGED <<host, bl, endBl, pg, ok, dir, disk, marks, block0, hist, fixed>>
      /\ pc = "lists" /\ pc' = "program" /\ bk' = FirstBank /\ strong' = FALSE
      /\ dram' = [b \in AllBanks |-> ListOf(b)]
  BY DEF SendLists, Goto, ResetFctrl
<1> USE DEF host, disk, hist, fixed
<1>2. loaded
  BY <1>1 DEF IInv, Lists, Working
<1>3. \A b \in Bmp : dram'[b] = ListOf(b)'
  BY <1>1, Layout DEF ListOf
<1>4. Types'
  <2>1. dram' = [b \in AllBanks |-> dram'[b]] /\ DOMAIN dram' = AllBanks
    BY <1>1
  <2>2. QED BY <1>1, <2>1, First DEF IInv, Types
<1>5. Lists'
  BY <1>1, <1>2, <1>3, Kept, ListsKept DEF Lists, Working
<1>6. Progress'
  BY <1>1 DEF Progress
<1>7. Clean' /\ BootBlock'
  BY <1>1, Unstamped
<1>8. SdramMatches'
  BY <1>1 DEF SdramMatches, IInv
<1>9. QED
  BY <1>4, <1>5, <1>6, <1>7, <1>8 DEF IInv

LEMMA ProgramListInv == ASSUME IInv, ProgramList PROVE IInv'
<1>1. /\ UNCHANGED <<host, bl, endBl, pg, ok, dir, disk, marks, dram, strong, hist, fixed>>
      /\ pc = "program" /\ Program(bk, 0, Written(dram[bk], strong)) /\ NextBankOr("readback")
  BY DEF ProgramList
<1> USE DEF host, disk, hist, fixed
<1>2. loaded /\ strong = FALSE /\ bk \in Bmp /\ dram[bk] = <<"list", list[bk]>>
  BY <1>1 DEF IInv, Lists, Working, Progress, Types, ListOf
<1>3. Program(bk, 0, <<"list", list[bk], FALSE>>)
  <2>1. dram[bk][1] = "list" /\ dram[bk][2] = list[bk]
    BY <1>2
  <2>2. QED BY <1>1, <1>2, <2>1 DEF Written
<1>4. /\ block0' = [c \in Bmp |-> [q \in Pages |-> block0'[c][q]]]
      /\ \A c \in Bmp, q \in Pages : Triple(block0'[c][q])
      /\ \A c \in Bmp, q \in Pages : c # bk \/ q # 0 => block0'[c][q] = block0[c][q]
      /\ block0'[bk][0] \in {<<"list", list[bk], FALSE>>, Garbage}
  BY <1>2, <1>3, Layout, Programmed DEF IInv
<1>5. /\ pc' \in {"program", "readback"} /\ bk' \in Bmp
      /\ pc' = "readback" => bk' = FirstBank
  BY <1>1, <1>2, First, Following DEF NextBankOr, Goto
<1>6. Types'
  BY <1>1, <1>4, <1>5 DEF IInv, Types
<1>7. Lists'
  <2>1. \A b \in Bmp : \/ block0'[b][0] = block0[b][0] \/ block0'[b][0][1] # "list"
                       \/ loaded /\ block0'[b][0][2] = list[b]
    <3>1. block0'[bk][0][1] # "list" \/ block0'[bk][0][2] = list[bk]
      <4>1. Garbage[1] # "list"
        BY DEF Garbage
      <4>2. CASE block0'[bk][0] = <<"list", list[bk], FALSE>>
        BY <4>2
      <4>3. CASE block0'[bk][0] = Garbage
        BY <4>1, <4>3
      <4>4. QED BY <1>4, <4>2, <4>3
    <3>2. QED BY <1>2, <1>4, <3>1, Layout
  <2>2. \A b \in Bmp : dram'[b] = ListOf(b)'
    BY <1>1 DEF IInv, Lists, ListOf
  <2>3. QED BY <1>1, <1>2, <1>5, <2>1, <2>2, Kept, ListsKept DEF Lists, Working
<1>8. Progress'
  <2>1. pc' = "readback" => \A b \in Bmp : ~(b < bk')
    BY <1>5, First, Layout
  <2>2. QED BY <1>1, <1>2, <1>5, <2>1 DEF Progress
<1>9. Clean' /\ BootBlock'
  <2>1. \A b \in Bmp : block0'[b][STAMP_PAGE_OFFSET] = block0[b][STAMP_PAGE_OFFSET]
    BY <1>4, Layout
  <2>2. QED BY <1>1, <1>5, <2>1, Unstamped
<1>10. SdramMatches'
  BY <1>1 DEF SdramMatches, IInv
<1>11. QED
  BY <1>6, <1>7, <1>8, <1>9, <1>10 DEF IInv

LEMMA ReadListInv == ASSUME IInv, ReadList PROVE IInv'
<1>1. /\ UNCHANGED <<host, bl, endBl, pg, ok, dir, disk, marks, block0, strong, hist, fixed>>
      /\ pc = "readback" /\ dram' = [dram EXCEPT ![bk] = BankRead(bk, 0)] /\ NextBankOr("compare")
  BY DEF ReadList
<1> USE DEF host, disk, hist, fixed
<1>2. loaded /\ strong = FALSE /\ bk \in Bmp /\ bk \in AllBanks /\ DOMAIN dram = AllBanks
  BY <1>1, Layout DEF IInv, Lists, Working, Progress, Types
<1>3. dram = [b \in AllBanks |-> dram[b]]
  BY DEF IInv, Types
<1>4. /\ DOMAIN dram' = AllBanks /\ dram' = [b \in AllBanks |-> dram'[b]]
      /\ dram'[bk] = ReadOut(block0[bk][0], FALSE)
      /\ \A b \in AllBanks : b # bk => dram'[b] = dram[b]
  BY <1>1, <1>2, <1>3 DEF BankRead
<1>5. /\ pc' \in {"readback", "compare"} /\ bk' \in Bmp
      /\ \A c \in Bmp : pc' = "compare" \/ c < bk' => c <= bk
  <2>1. CASE Later(bk) # {}
    BY <1>1, <1>2, <2>1, Following DEF NextBankOr
  <2>2. CASE Later(bk) = {}
    BY <1>1, <1>2, <2>2, First, LastBank DEF NextBankOr, Goto
  <2>3. QED BY <2>1, <2>2
<1>6. Types'
  BY <1>1, <1>4, <1>5 DEF IInv, Types
<1>7. Lists'
  BY <1>1, <1>2, <1>5, Kept, ListsKept DEF Lists, Working
<1>8. Progress'
  <2>1. ASSUME NEW b \in Bmp, b <= bk PROVE dram'[b] = ReadOut(block0'[b][0], FALSE)
    <3>1. CASE b = bk
      BY <1>1, <1>4, <3>1
    <3>2. CASE b # bk
      <4>1. b < bk /\ b \in AllBanks
        BY <1>2, <2>1, <3>2, Layout
      <4>2. dram[b] = ReadOut(block0[b][0], FALSE)
        BY <1>1, <4>1 DEF IInv, Progress
      <4>3. QED BY <1>1, <1>4, <3>2, <4>1, <4>2
    <3>3. QED BY <3>1, <3>2
  <2>2. QED BY <1>1, <1>2, <1>5, <2>1 DEF Progress
<1>9. Clean' /\ BootBlock'
  BY <1>1, <1>5, Unstamped
<1>10. SdramMatches'
  BY <1>1 DEF SdramMatches, IInv
<1>11. QED
  BY <1>6, <1>7, <1>8, <1>9, <1>10 DEF IInv

LEMMA CompareInv == ASSUME IInv, CompareLists PROVE IInv'
<1>1. /\ UNCHANGED <<host, bl, endBl, ok, dir, disk, marks, block0, strong, hist, fixed>>
      /\ pc = "compare" /\ pc' \in {"fill", "menu"} /\ bk' = FirstBank /\ pg' = 1
      /\ pc' = "fill" => \A b \in Bmp : dram[b] = ListOf(b)
      /\ dram' = [b \in AllBanks |-> <<"garbage", 0>>]
  BY DEF CompareLists, Goto
<1> USE DEF host, disk, hist, fixed
<1>2. loaded /\ strong = FALSE
  BY <1>1 DEF IInv, Lists, Working, Progress
<1>3. Types'
  <2>1. dram' = [b \in AllBanks |-> dram'[b]] /\ DOMAIN dram' = AllBanks
    BY <1>1
  <2>2. QED BY <1>1, <2>1, First DEF IInv, Types
<1>4. Lists'
  BY <1>1, <1>2, Kept, ListsKept DEF Lists, Working
<1>5. ASSUME NEW b \in Bmp, pc' = "fill" PROVE block0'[b][0] = Written(ListOf(b), FALSE)'
  <2>1. ReadOut(block0[b][0], FALSE) = <<"list", list[b]>>
    BY <1>1, <1>5 DEF IInv, Progress, ListOf
  <2>2. Triple(block0[b][0])
    BY Layout DEF IInv, Types
  <2>3. block0[b][0] = <<"list", list[b], FALSE>>
    BY <2>1, <2>2, ReadBack
  <2>4. QED BY <1>1, <2>3 DEF Written, ListOf
<1>6. Progress'
  <2>1. \A b \in Bmp, p \in 1 .. STAMP_PAGE_OFFSET - 1 : ~Done(b, p)'
    BY <1>1, First, Layout DEF Done
  <2>2. CASE pc' = "menu"
    BY <2>2 DEF Progress
  <2>3. CASE pc' = "fill"
    <3>1. pg' \in 1 .. STAMP_PAGE_OFFSET - 1 /\ strong' = FALSE
      BY <1>1, <1>2, Layout
    <3>2. QED BY <1>5, <2>1, <2>3, <3>1 DEF Progress
  <2>4. QED BY <1>1, <2>2, <2>3
<1>7. Clean' /\ BootBlock'
  BY <1>1, Unstamped
<1>8. SdramMatches'
  BY <1>1 DEF SdramMatches, IInv
<1>9. QED
  BY <1>3, <1>4, <1>6, <1>7, <1>8 DEF IInv

-----------------------------------------------------------------------------
(* Steps 2 to 4: write_to_flash. *)

LEMMA PageWritten ==
  ASSUME IInv, pg \in Pages, NEW k, NEW v, k \notin {"blank", "garbage"},
         Program(bk, pg, <<k, v, strong>>)
  PROVE  /\ block0' = [c \in Bmp |-> [q \in Pages |-> block0'[c][q]]]
         /\ \A c \in Bmp, q \in Pages : Triple(block0'[c][q])
         /\ \A c \in Bmp, q \in Pages : c # bk \/ q # pg => block0'[c][q] = block0[c][q]
         /\ ReadOut(block0'[bk][pg], strong) = <<k, v>> => block0'[bk][pg] = <<k, v, strong>>
<1>1. bk \in Bmp /\ Types
  BY DEF IInv, Types
<1>2. /\ block0' = [c \in Bmp |-> [q \in Pages |-> block0'[c][q]]]
      /\ \A c \in Bmp, q \in Pages : Triple(block0'[c][q])
      /\ \A c \in Bmp, q \in Pages : c # bk \/ q # pg => block0'[c][q] = block0[c][q]
  BY <1>1, Programmed
<1>3. QED
  BY <1>1, <1>2, ReadBack

\* What the three steps have in common: the lists are on flash and stay there.
LEMMA WriteKeeps ==
  ASSUME IInv, pc \in {"fill", "stamp", "firmware"}, pg \in Pages, pg # 0,
         UNCHANGED <<host, bl, endBl, dir, disk, marks, dram, untrusted, appended, unerased, fixed>>,
         pc' \in {"menu", "fill", "stamp", "firmware", "installed"}, bk' \in Bmp, pg' \in Nat,
         block0' = [c \in Bmp |-> [q \in Pages |-> block0'[c][q]]],
         \A c \in Bmp, q \in Pages : Triple(block0'[c][q]),
         \A c \in Bmp, q \in Pages : c # bk \/ q # pg => block0'[c][q] = block0[c][q]
  PROVE  /\ Types' /\ Lists' /\ SdramMatches'
         /\ \A b \in Bmp : block0'[b][0] = Written(ListOf(b), FALSE)'
<1> USE DEF host, disk, fixed
<1>1. loaded /\ \A b \in Bmp : block0[b][0] = Written(ListOf(b), FALSE)
  BY DEF IInv, Lists, Working, Progress
<1>2. \A b \in Bmp : block0'[b][0] = block0[b][0]
  BY Layout
<1>3. Types'
  BY DEF IInv, Types
<1>4. Lists'
  BY <1>1, <1>2, Kept, ListsKept DEF Lists, Working
<1>5. SdramMatches'
  BY DEF SdramMatches, IInv
<1>6. \A b \in Bmp : block0'[b][0] = Written(ListOf(b), FALSE)'
  BY <1>1, <1>2 DEF Written, ListOf
<1>7. QED
  BY <1>3, <1>4, <1>5, <1>6

LEMMA ListRead == \A b : ReadOut(Written(ListOf(b), FALSE)', FALSE)[1] = "list"
<1>1. \A l : ReadOut(<<"list", l, FALSE>>, FALSE)[1] = "list"
  BY DEF ReadOut, Blank
<1>2. \A b : Written(ListOf(b), FALSE)' = <<"list", list'[b], FALSE>>
  BY DEF Written, ListOf
<1>3. QED
  BY <1>1, <1>2

LEMMA FillInv == ASSUME IInv, FillPages PROVE IInv'
<1>1. /\ UNCHANGED <<host, bl, endBl, dir, disk, marks, dram, hist, fixed>>
      /\ pc = "fill"
  BY DEF FillPages
<1>2. PICK good \in BOOLEAN : WriteToFlash(Fill, good) /\
        \/ ~good /\ pc' = "menu" /\ bk' = FirstBank /\ pg' = pg /\ strong' = strong
        \/ good /\ pg + 1 < STAMP_PAGE_OFFSET /\ pg' = pg + 1 /\ UNCHANGED <<pc, bk, strong>>
        \/ /\ good /\ pg + 1 = STAMP_PAGE_OFFSET /\ Later(bk) # {}
           /\ bk' = NextBank(bk) /\ pg' = 1 /\ UNCHANGED <<pc, strong>>
        \/ /\ good /\ pg + 1 = STAMP_PAGE_OFFSET /\ Later(bk) = {}
           /\ pc' = "stamp" /\ bk' = FirstBank /\ pg' = STAMP_PAGE_OFFSET /\ strong' = TRUE
  BY DEF FillPages, Goto, ResetFctrl
<1> USE DEF hist
<1>3. /\ pg \in 1 .. STAMP_PAGE_OFFSET - 1 /\ pg \in Pages /\ strong = FALSE /\ bk \in Bmp /\ bk \in Nat
      /\ STAMP_PAGE_OFFSET \in Nat /\ 1 < STAMP_PAGE_OFFSET
  BY <1>1, Layout DEF IInv, Progress, Types
<1>4. /\ block0' = [c \in Bmp |-> [q \in Pages |-> block0'[c][q]]]
      /\ \A c \in Bmp, q \in Pages : Triple(block0'[c][q])
      /\ \A c \in Bmp, q \in Pages : c # bk \/ q # pg => block0'[c][q] = block0[c][q]
      /\ good => block0'[bk][pg] = <<"fill", 0, FALSE>>
  <2>1. PICK v : /\ v = 0 /\ Program(bk, pg, <<"fill", v, strong>>)
                 /\ good => ReadOut(block0'[bk][pg], strong) = <<"fill", v>>
    BY <1>2 DEF Fill, WriteToFlash, Written
  <2>2. pg \in Pages /\ "fill" \notin {"blank", "garbage"}
    BY <1>3
  <2>3. /\ block0' = [c \in Bmp |-> [q \in Pages |-> block0'[c][q]]]
        /\ \A c \in Bmp, q \in Pages : Triple(block0'[c][q])
        /\ \A c \in Bmp, q \in Pages : c # bk \/ q # pg => block0'[c][q] = block0[c][q]
        /\ good => block0'[bk][pg] = <<"fill", v, strong>>
    BY <2>1, <2>2, PageWritten
  <2>4. QED BY <1>3, <2>1, <2>3
<1>5. pc' \in {"menu", "fill", "stamp"} /\ bk' \in Bmp /\ pg' \in Nat
  BY <1>1, <1>2, <1>3, First, Following
<1>6. /\ Types' /\ Lists' /\ SdramMatches'
      /\ \A b \in Bmp : block0'[b][0] = Written(ListOf(b), FALSE)'
  <2>1. UNCHANGED <<host, bl, endBl, dir, disk, marks, dram, untrusted, appended, unerased, fixed>>
    BY <1>1
  <2>2. pg # 0 /\ pc \in {"fill", "stamp", "firmware"}
        /\ pc' \in {"menu", "fill", "stamp", "firmware", "installed"}
    BY <1>1, <1>3, <1>5
  <2>3. QED BY <1>3, <1>4, <1>5, <2>1, <2>2, WriteKeeps
<1>7. Clean' /\ BootBlock'
  <2>1. \A b \in Bmp : block0'[b][STAMP_PAGE_OFFSET] = block0[b][STAMP_PAGE_OFFSET]
    BY <1>3, <1>4, Layout
  <2>2. QED BY <1>1, <1>5, <2>1, Unstamped
<1>8. ASSUME good, NEW b \in Bmp, NEW p \in 1 .. STAMP_PAGE_OFFSET - 1, Done(b, p) \/ (b = bk /\ p = pg)
      PROVE  block0'[b][p] = Written(Fill, FALSE)
  <2>1. CASE b = bk /\ p = pg
    BY <1>4, <1>8, <2>1 DEF Written, Fill
  <2>2. CASE ~(b = bk /\ p = pg)
    <3>1. block0[b][p] = Written(Fill, FALSE)
      BY <1>1, <1>8, <2>2 DEF IInv, Progress
    <3>2. p \in Pages
      BY Layout
    <3>3. QED BY <1>4, <2>2, <3>1, <3>2
  <2>3. QED BY <2>1, <2>2
<1>9. Progress'
  <2>1. CASE pc' = "menu"
    BY <2>1 DEF Progress
  <2>2. CASE pc' = "fill"
    <3>1. good /\ pg' \in 1 .. STAMP_PAGE_OFFSET - 1 /\ strong' = FALSE
      BY <1>1, <1>2, <1>3, <2>2
    <3>2. ASSUME NEW b \in Bmp, NEW p \in 1 .. STAMP_PAGE_OFFSET - 1, Done(b, p)'
          PROVE  Done(b, p) \/ (b = bk /\ p = pg)
      <4>1. b \in Nat /\ p \in Nat /\ pg \in Nat
        BY <1>3, Layout
      <4>2. CASE bk' = bk /\ pg' = pg + 1
        BY <1>3, <3>2, <4>1, <4>2 DEF Done
      <4>3. CASE Later(bk) # {} /\ bk' = NextBank(bk) /\ pg' = 1 /\ pg + 1 = STAMP_PAGE_OFFSET
        <5>1. b <= bk
          BY <1>3, <3>2, <4>1, <4>3, Following DEF Done
        <5>2. p <= pg
          BY <1>3, <4>1, <4>3
        <5>3. QED BY <1>3, <4>1, <5>1, <5>2 DEF Done
      <4>4. QED BY <1>1, <1>2, <2>2, <4>2, <4>3
    <3>3. QED BY <1>6, <1>8, <2>2, <3>1, <3>2 DEF Progress, Written, Fill
  <2>3. CASE pc' = "stamp"
    <3>1. good /\ pg' = STAMP_PAGE_OFFSET /\ strong' = TRUE /\ bk' = FirstBank
          /\ pg + 1 = STAMP_PAGE_OFFSET /\ Later(bk) = {}
      BY <1>1, <1>2, <2>3
    <3>2. ASSUME NEW b \in Bmp, NEW p \in 1 .. STAMP_PAGE_OFFSET - 1
          PROVE  Done(b, p) \/ (b = bk /\ p = pg)
      <4>1. b \in Nat /\ p \in Nat /\ pg \in Nat /\ b <= bk /\ p <= pg
        BY <1>3, <3>1, Layout, LastBank
      <4>2. QED BY <1>3, <4>1 DEF Done
    <3>3. \A b \in Bmp : ~(b < bk')
      BY <3>1, First, Layout
    <3>4. QED BY <1>6, <1>8, <2>3, <3>1, <3>2, <3>3 DEF Progress, Written, Fill
  <2>4. QED BY <1>5, <2>1, <2>2, <2>3
<1>10. QED
  BY <1>6, <1>7, <1>9 DEF IInv

-----------------------------------------------------------------------------
(* Steps 3 and 4: the stamps and the image. *)

LEMMA StampInv == ASSUME IInv, WriteStamp PROVE IInv'
<1>1. /\ UNCHANGED <<host, bl, endBl, dir, disk, marks, dram, strong, untrusted, appended, unerased,
                     fixed>>
      /\ pc = "stamp" /\ NextBankOr(IF ok' THEN "firmware" ELSE "menu")
      /\ pg' = (IF Later(bk) = {} THEN FW_PAGE_OFFSET ELSE pg)
      /\ Later(bk) = {} /\ ~ok' => cut'
  BY DEF WriteStamp
<1>2. PICK good \in BOOLEAN : WriteToFlash(Stamp, good) /\ (ok' <=> ok /\ good)
  BY DEF WriteStamp
<1>3. /\ pg = STAMP_PAGE_OFFSET /\ pg \in Pages /\ strong = TRUE /\ bk \in Bmp /\ image \in Images
      /\ STAMP_PAGE_OFFSET \in Nat /\ FW_PAGE_OFFSET \in Nat /\ pg # 0
  BY <1>1, Layout DEF IInv, Progress, Types
<1>4. /\ block0' = [c \in Bmp |-> [q \in Pages |-> block0'[c][q]]]
      /\ \A c \in Bmp, q \in Pages : Triple(block0'[c][q])
      /\ \A c \in Bmp, q \in Pages : c # bk \/ q # pg => block0'[c][q] = block0[c][q]
      /\ good => block0'[bk][pg] = <<"stamp", NumFwPages[image], TRUE>>
  <2>1. PICK v : /\ v = NumFwPages[image] /\ Program(bk, pg, <<"stamp", v, strong>>)
                 /\ good => ReadOut(block0'[bk][pg], strong) = <<"stamp", v>>
    BY <1>2 DEF Stamp, WriteToFlash, Written
  <2>2. pg \in Pages /\ "stamp" \notin {"blank", "garbage"}
    BY <1>3
  <2>3. /\ block0' = [c \in Bmp |-> [q \in Pages |-> block0'[c][q]]]
        /\ \A c \in Bmp, q \in Pages : Triple(block0'[c][q])
        /\ \A c \in Bmp, q \in Pages : c # bk \/ q # pg => block0'[c][q] = block0[c][q]
        /\ good => block0'[bk][pg] = <<"stamp", v, strong>>
    BY <2>1, <2>2, PageWritten
  <2>4. QED BY <1>3, <2>1, <2>3
<1>5. \/ pc' = "stamp" /\ Later(bk) # {} /\ bk' = NextBank(bk) /\ pg' = pg
      \/ pc' = "firmware" /\ Later(bk) = {} /\ bk' = FirstBank /\ pg' = FW_PAGE_OFFSET /\ ok'
      \/ pc' = "menu" /\ bk' = FirstBank /\ pg' = FW_PAGE_OFFSET /\ cut'
  BY <1>1 DEF NextBankOr, Goto
<1>6. bk' \in Bmp /\ pg' \in Nat /\ pc' \in {"stamp", "firmware", "menu"}
  BY <1>3, <1>5, First, Following
<1>7. /\ Types' /\ Lists' /\ SdramMatches'
      /\ \A b \in Bmp : block0'[b][0] = Written(ListOf(b), FALSE)'
  BY <1>1, <1>3, <1>4, <1>6, WriteKeeps
<1>8. \A b \in Bmp, p \in 1 .. STAMP_PAGE_OFFSET - 1 : block0'[b][p] = Written(Fill, FALSE)'
  <2> SUFFICES ASSUME NEW b \in Bmp, NEW p \in 1 .. STAMP_PAGE_OFFSET - 1
               PROVE  block0'[b][p] = Written(Fill, FALSE)'
    OBVIOUS
  <2>1. p \in Pages /\ p # pg
    BY <1>3, Layout
  <2>2. block0[b][p] = Written(Fill, FALSE)
    BY <1>1 DEF IInv, Progress
  <2>3. QED BY <1>4, <2>1, <2>2 DEF Written, Fill
<1>9. ASSUME ok', NEW b \in Bmp, b < bk \/ b = bk
      PROVE  block0'[b][STAMP_PAGE_OFFSET] = Written(Stamp, TRUE)'
  <2>1. Written(Stamp, TRUE)' = <<"stamp", NumFwPages[image], TRUE>>
        /\ Written(Stamp, TRUE) = <<"stamp", NumFwPages[image], TRUE>>
    BY <1>1 DEF Written, Stamp, host
  <2>2. CASE b = bk
    BY <1>2, <1>3, <1>4, <1>9, <2>1, <2>2
  <2>3. CASE b # bk
    <3>1. block0[b][STAMP_PAGE_OFFSET] = Written(Stamp, TRUE)
      BY <1>1, <1>2, <1>9, <2>3 DEF IInv, Progress
    <3>2. QED BY <1>3, <1>4, <2>1, <2>3, <3>1
  <2>4. QED BY <2>2, <2>3
<1>10. Progress'
  <2>1. CASE pc' = "menu"
    BY <2>1 DEF Progress
  <2>2. CASE pc' = "stamp"
    <3>1. bk' = NextBank(bk) /\ Later(bk) # {} /\ pg' = STAMP_PAGE_OFFSET /\ strong' = TRUE
      BY <1>1, <1>3, <1>5, <2>2
    <3>2. \A b \in Bmp : b < bk' => b < bk \/ b = bk
      BY <1>3, <3>1, Following, Layout
    <3>3. QED BY <1>7, <1>8, <1>9, <2>2, <3>1, <3>2 DEF Progress
  <2>3. CASE pc' = "firmware"
    <3>1. Later(bk) = {} /\ bk' = FirstBank /\ pg' = FW_PAGE_OFFSET /\ ok' /\ strong' = TRUE
      BY <1>1, <1>3, <1>5, <2>3
    <3>2. \A b \in Bmp : b < bk \/ b = bk
      BY <1>3, <3>1, LastBank, Layout
    <3>3. image' = image /\ EndFw' = EndFw /\ EndFw \in Nat /\ FW_PAGE_OFFSET < EndFw
      BY <1>1, <1>3, Layout DEF EndFw, host
    <3>4. pg' \in FW_PAGE_OFFSET .. EndFw' - 1
      BY <1>3, <3>1, <3>3
    <3>5. ASSUME NEW b \in Bmp, NEW p \in FW_PAGE_OFFSET .. EndFw' - 1 PROVE ~Done(b, p)'
      <4>1. b \in Nat /\ FirstBank \in Nat /\ FirstBank <= b /\ p \in Nat /\ FW_PAGE_OFFSET <= p
        BY <1>3, <3>3, First, Layout
      <4>2. QED BY <1>3, <3>1, <4>1 DEF Done
    <3>6. QED BY <1>7, <1>8, <1>9, <2>3, <3>1, <3>2, <3>4, <3>5 DEF Progress
  <2>4. QED BY <1>6, <2>1, <2>2, <2>3
<1>11. Clean'
  BY <1>6 DEF Clean
<1>12. BootBlock'
  <2>1. \A b \in Bmp : ReadOut(block0'[b][0], FALSE)[1] = "list"
    BY <1>7, ListRead
  <2>2. QED BY <1>5, <2>1 DEF BootBlock
<1>13. QED
  BY <1>7, <1>10, <1>11, <1>12 DEF IInv

LEMMA FirmwareInv == ASSUME IInv, WriteFirmware PROVE IInv'
<1> DEFINE n == pg - FW_PAGE_OFFSET
<1>1. /\ UNCHANGED <<host, bl, endBl, ok, dir, disk, marks, dram, untrusted, appended, unerased, fixed>>
      /\ pc = "firmware"
  BY DEF WriteFirmware
<1>2. PICK good \in BOOLEAN : WriteToFlash(FwPage(image, n), good) /\
        \/ ~good /\ pc' = "menu" /\ bk' = FirstBank /\ pg' = pg /\ cut'
        \/ good /\ pg + 1 < EndFw /\ pg' = pg + 1 /\ UNCHANGED <<pc, bk, strong>>
        \/ /\ good /\ pg + 1 = EndFw /\ Later(bk) # {}
           /\ bk' = NextBank(bk) /\ pg' = FW_PAGE_OFFSET /\ UNCHANGED <<pc, strong>>
        \/ /\ good /\ pg + 1 = EndFw /\ Later(bk) = {}
           /\ pc' = "installed" /\ bk' = FirstBank /\ pg' = pg
  BY DEF WriteFirmware, Goto
<1> HIDE DEF n
<1>3. /\ EndFw \in Nat /\ FW_PAGE_OFFSET \in Nat /\ FW_PAGE_OFFSET < EndFw /\ image \in Images
      /\ EndFw' = EndFw /\ image' = image /\ FW_PAGE_OFFSET .. EndFw - 1 \subseteq Pages
      /\ STAMP_PAGE_OFFSET \in Nat /\ 1 < STAMP_PAGE_OFFSET /\ STAMP_PAGE_OFFSET < FW_PAGE_OFFSET
      /\ NumFwPages[image] \in Nat /\ EndFw = FW_PAGE_OFFSET + NumFwPages[image]
  BY <1>1, Layout DEF EndFw, host, IInv, Types
<1>4. pg \in FW_PAGE_OFFSET .. EndFw - 1 /\ pg \in Pages /\ strong = TRUE /\ bk \in Bmp /\ bk \in Nat
  BY <1>1, <1>3, Layout DEF IInv, Progress, Types
<1>5. /\ block0' = [c \in Bmp |-> [q \in Pages |-> block0'[c][q]]]
      /\ \A c \in Bmp, q \in Pages : Triple(block0'[c][q])
      /\ \A c \in Bmp, q \in Pages : c # bk \/ q # pg => block0'[c][q] = block0[c][q]
      /\ good => block0'[bk][pg] = Written(FwPage(image, n), TRUE)
  <2>1. PICK v : /\ v = <<image, n>> /\ Program(bk, pg, <<"fw", v, strong>>)
                 /\ good => ReadOut(block0'[bk][pg], strong) = <<"fw", v>>
    BY <1>2 DEF FwPage, WriteToFlash, Written
  <2>2. pg \in Pages /\ "fw" \notin {"blank", "garbage"}
    BY <1>4
  <2>3. /\ block0' = [c \in Bmp |-> [q \in Pages |-> block0'[c][q]]]
        /\ \A c \in Bmp, q \in Pages : Triple(block0'[c][q])
        /\ \A c \in Bmp, q \in Pages : c # bk \/ q # pg => block0'[c][q] = block0[c][q]
        /\ good => block0'[bk][pg] = <<"fw", v, strong>>
    BY <2>1, <2>2, PageWritten
  <2>4. Written(FwPage(image, n), TRUE) = <<"fw", v, TRUE>>
    BY <2>1 DEF Written, FwPage
  <2>5. QED BY <1>4, <2>3, <2>4
<1>6. pc' \in {"menu", "firmware", "installed"} /\ bk' \in Bmp /\ pg' \in Nat
  <2>1. pg \in Nat /\ pg + 1 \in Nat
    BY <1>3, <1>4
  <2>2. QED BY <1>1, <1>2, <1>3, <1>4, <2>1, First, Following
<1>7. /\ Types' /\ Lists' /\ SdramMatches'
      /\ \A b \in Bmp : block0'[b][0] = Written(ListOf(b), FALSE)'
  <2>1. pg # 0
    BY <1>3, <1>4
  <2>2. QED BY <1>1, <1>4, <1>5, <1>6, <2>1, WriteKeeps
<1>8. \A b \in Bmp, p \in 1 .. STAMP_PAGE_OFFSET - 1 : block0'[b][p] = Written(Fill, FALSE)'
  <2> SUFFICES ASSUME NEW b \in Bmp, NEW p \in 1 .. STAMP_PAGE_OFFSET - 1
               PROVE  block0'[b][p] = Written(Fill, FALSE)'
    OBVIOUS
  <2>1. p \in Pages /\ p # pg
    BY <1>3, <1>4, Layout
  <2>2. block0[b][p] = Written(Fill, FALSE)
    BY <1>1 DEF IInv, Progress
  <2>3. QED BY <1>5, <2>1, <2>2 DEF Written, Fill
<1>9. \A b \in Bmp : block0'[b][STAMP_PAGE_OFFSET] = Written(Stamp, TRUE)'
  <2> SUFFICES ASSUME NEW b \in Bmp PROVE block0'[b][STAMP_PAGE_OFFSET] = Written(Stamp, TRUE)'
    OBVIOUS
  <2>1. Written(Stamp, TRUE)' = Written(Stamp, TRUE)
    BY <1>3 DEF Written, Stamp
  <2>2. block0[b][STAMP_PAGE_OFFSET] = Written(Stamp, TRUE)
    BY <1>1 DEF IInv, Progress
  <2>3. STAMP_PAGE_OFFSET \in Pages /\ STAMP_PAGE_OFFSET # pg
    BY <1>3, <1>4, Layout
  <2>4. QED BY <1>5, <2>1, <2>2, <2>3
<1>10. ASSUME good, NEW b \in Bmp, NEW p \in FW_PAGE_OFFSET .. EndFw - 1,
              Done(b, p) \/ (b = bk /\ p = pg)
       PROVE  block0'[b][p] = Written(FwPage(image, p - FW_PAGE_OFFSET), TRUE)
  <2>1. CASE b = bk /\ p = pg
    BY <1>5, <1>10, <2>1 DEF n
  <2>2. CASE ~(b = bk /\ p = pg)
    <3>1. block0[b][p] = Written(FwPage(image, p - FW_PAGE_OFFSET), TRUE)
      BY <1>1, <1>10, <2>2 DEF IInv, Progress
    <3>2. p \in Pages
      BY <1>3
    <3>3. QED BY <1>5, <2>2, <3>1, <3>2
  <2>3. QED BY <2>1, <2>2
<1>11. \A p : Written(FwPage(image, p - FW_PAGE_OFFSET), TRUE)'
               = Written(FwPage(image, p - FW_PAGE_OFFSET), TRUE)
  BY <1>3 DEF Written, FwPage
<1>12. pc' = "installed" =>
         \A b \in Bmp, p \in FW_PAGE_OFFSET .. EndFw - 1 :
            block0'[b][p] = Written(FwPage(image, p - FW_PAGE_OFFSET), TRUE)
  <2> SUFFICES ASSUME pc' = "installed", NEW b \in Bmp, NEW p \in FW_PAGE_OFFSET .. EndFw - 1
               PROVE  block0'[b][p] = Written(FwPage(image, p - FW_PAGE_OFFSET), TRUE)
    OBVIOUS
  <2>1. good /\ pg + 1 = EndFw /\ Later(bk) = {}
    BY <1>1, <1>2
  <2>2. b \in Nat /\ p \in Nat /\ pg \in Nat /\ b <= bk /\ p <= pg
    BY <1>3, <1>4, <2>1, Layout, LastBank
  <2>3. Done(b, p) \/ (b = bk /\ p = pg)
    BY <1>4, <2>2 DEF Done
  <2>4. QED BY <1>10, <2>1, <2>3
<1>13. Progress'
  <2>1. CASE pc' = "menu"
    BY <2>1 DEF Progress
  <2>2. CASE pc' = "firmware"
    <3>1. good /\ pg' \in FW_PAGE_OFFSET .. EndFw' - 1 /\ strong' = TRUE
      <4>1. good /\ strong' = strong /\ (pg' = FW_PAGE_OFFSET \/ (pg + 1 < EndFw /\ pg' = pg + 1))
        BY <1>1, <1>2, <2>2
      <4>2. QED BY <1>3, <1>4, <4>1
    <3>2. ASSUME NEW b \in Bmp, NEW p \in FW_PAGE_OFFSET .. EndFw - 1, Done(b, p)'
          PROVE  Done(b, p) \/ (b = bk /\ p = pg)
      <4>1. b \in Nat /\ p \in Nat /\ pg \in Nat
        BY <1>3, <1>4, Layout
      <4>2. CASE bk' = bk /\ pg' = pg + 1
        BY <1>4, <3>2, <4>1, <4>2 DEF Done
      <4>3. CASE Later(bk) # {} /\ bk' = NextBank(bk) /\ pg' = FW_PAGE_OFFSET /\ pg + 1 = EndFw
        <5>1. b <= bk
          BY <1>3, <1>4, <3>2, <4>1, <4>3, Following DEF Done
        <5>2. p <= pg
          BY <1>3, <1>4, <4>1, <4>3
        <5>3. QED BY <1>4, <4>1, <5>1, <5>2 DEF Done
      <4>4. QED BY <1>1, <1>2, <2>2, <4>2, <4>3
    <3>3. \A b \in Bmp, p \in FW_PAGE_OFFSET .. EndFw' - 1 :
            Done(b, p)' => block0'[b][p] = Written(FwPage(image, p - FW_PAGE_OFFSET), TRUE)'
      BY <1>3, <1>10, <1>11, <3>1, <3>2
    <3>4. QED BY <1>7, <1>8, <1>9, <2>2, <3>1, <3>3 DEF Progress
  <2>3. CASE pc' = "installed"
    <3>1. \A b \in Bmp, p \in FW_PAGE_OFFSET .. EndFw' - 1 :
            block0'[b][p] = Written(FwPage(image, p - FW_PAGE_OFFSET), TRUE)'
      BY <1>3, <1>11, <1>12, <2>3
    <3>2. QED BY <1>7, <1>8, <1>9, <2>3, <3>1 DEF Progress
  <2>4. QED BY <1>6, <2>1, <2>2, <2>3
<1>14. Clean'
  BY <1>6 DEF Clean
<1>15. BootBlock'
  <2>1. \A b \in Bmp : ReadOut(block0'[b][0], FALSE)[1] = "list"
    BY <1>7, ListRead
  <2>2. ASSUME pc' = "installed", NEW b \in Bmp
        PROVE  /\ NumFwPages[image] = block0'[b][STAMP_PAGE_OFFSET][2]
               /\ \A p \in 0..NumFwPages[image] - 1 :
                    block0'[b][FW_PAGE_OFFSET + p] = Written(FwPage(image, p), TRUE)
    <3>1. block0'[b][STAMP_PAGE_OFFSET] = <<"stamp", NumFwPages[image], TRUE>>
      BY <1>3, <1>9 DEF Written, Stamp
    <3>2. ASSUME NEW p \in 0..NumFwPages[image] - 1
          PROVE  block0'[b][FW_PAGE_OFFSET + p] = Written(FwPage(image, p), TRUE)
      <4>1. FW_PAGE_OFFSET + p \in FW_PAGE_OFFSET .. EndFw - 1
            /\ (FW_PAGE_OFFSET + p) - FW_PAGE_OFFSET = p
        BY <1>3
      <4>2. QED BY <1>12, <2>2, <4>1
    <3>3. <<"stamp", NumFwPages[image], TRUE>>[2] = NumFwPages[image]
      OBVIOUS
    <3>4. QED BY <3>1, <3>2, <3>3
  <2>3. pc' = "menu" => cut'
    BY <1>1, <1>2
  <2>4. QED BY <1>3, <1>6, <2>1, <2>2, <2>3 DEF BootBlock
<1>16. QED
  BY <1>7, <1>13, <1>14, <1>15 DEF IInv

-----------------------------------------------------------------------------
(* The theorems. *)

LEMMA StutterInv == ASSUME IInv, UNCHANGED vars PROVE IInv'
<1> USE DEF vars, host, loops, disk, drive, hist, fixed
<1>1. Types'
  BY DEF IInv, Types
<1>2. Lists'
  <2>1. /\ ~untrusted' => marks' = bad'
        /\ \A b \in Bmp : block0'[b][0][1] = "list" => Trusted(b, block0[b][0][2])'
        /\ \A d \in Dirs, b \in Bmp : \/ file'[d][b] \in {<<"none">>, <<"empty">>}
                                      \/ file'[d][b][1] = "list" /\ Trusted(b, file[d][b][2])'
    BY Kept
  <2>2. /\ \A b \in Bmp : list'[b] = <<>> \/ Trusted(b, list[b])'
        /\ loaded' => \A b \in Bmp : Trusted(b, list[b])'
    BY ListsKept
  <2>3. /\ pc' \in {"save"} \cup Working \/ (pc' = "erase" /\ endBl' = 0) => loaded'
        /\ pc' = "erase" => loaded' \/ untrusted'
    BY DEF IInv, Lists
  <2>4. pc' = "program" => \A b \in Bmp : dram'[b] = ListOf(b)'
    BY DEF IInv, Lists, ListOf
  <2>5. QED BY <2>1, <2>2, <2>3, <2>4 DEF Lists, Working
<1>3. Progress'
  BY DEF IInv, Progress, Done, EndFw, ListOf, Stamp
<1>4. Clean'
  BY DEF IInv, Clean
<1>5. BootBlock'
  BY DEF IInv, BootBlock, Stamped
<1>6. SdramMatches'
  BY DEF IInv, SdramMatches
<1>7. QED
  BY <1>1, <1>2, <1>3, <1>4, <1>5, <1>6 DEF IInv

LEMMA StepInv == IInv /\ [Next]_vars => IInv'
<1> SUFFICES ASSUME IInv, [Next]_vars PROVE IInv'
  OBVIOUS
<1>1. CASE OpenTargetDrv \/ HostExit \/ MenuExit \/ Complete \/ InitDrive
  BY <1>1, OpenInv, HostExitInv, MenuExitInv, InitDriveInv
<1>2. CASE ScanBadBlks \/ LoadScanListFromNand \/ LoadScanListFromFile
  BY <1>2, ScanInv, FromNandInv, FromFileInv
<1>3. CASE SaveScan \/ SaveOpen \/ SaveClose
  BY <1>3, SaveScanInv, SaveInv
<1>4. CASE EraseAll \/ EraseBlock \/ Install
  BY <1>4, EraseAllInv, EraseInv, InstallInv
<1>5. CASE InstallBlockZero
  BY <1>5, SendListsInv, ProgramListInv, ReadListInv, CompareInv, FillInv, StampInv, FirmwareInv
     DEF InstallBlockZero
<1>6. CASE UNCHANGED vars
  BY <1>6, StutterInv
<1>7. QED
  BY <1>1, <1>2, <1>3, <1>4, <1>5, <1>6 DEF Next

\* Whatever the user chooses in the menu, wherever the program ends and whatever fails on flash,
\* a list that can be read is a true one, what an installation counts as written has been read
\* back, and an erased bank has no stamp before its turn.
THEOREM Invariant == Spec => []IInv
<1>1. QED
  BY InitInv, StepInv, PTL DEF Spec

\* No erase takes the mark of an initial bad block, for Masks only lets through what the lists do
\* not name: in every history of scans, saved and loaded lists, installations and exits in which
\* the user has not gone on after the warning that no list was read, and scan_list_loaded was not
\* set by the files of only some of the banks.  Of a history with either nothing is said.
THEOREM BadBlocksStaySpared == Spec => []BadBlocksSpared
<1>1. IInv => BadBlocksSpared
  BY DEF IInv, Lists, BadBlocksSpared
<1>2. QED
  BY <1>1, Invariant, PTL

\* With scan_list_loaded set the lists name the bad blocks of every bank, and each once if no scan
\* was appended to a list, whether they come from the ROM, from page 0 of each bank or from files:
\* in the same histories, so not when files of only some of the banks were read with no lists in
\* memory, or the user has erased without a list.
THEOREM ListsAreTrue == Spec => []ListTrusted
<1>1. IInv => ListTrusted
  BY DEF IInv, Lists, Trusted, ListTrusted
<1>2. QED
  BY <1>1, Invariant, PTL

\* When install_block_zero reports success, block 0 of every bank holds list, padding, stamp and the
\* whole image, each in the ECC mode its reader uses.
THEOREM ReportedIsComplete == Spec => []InstalledIsComplete
<1>1. ASSUME IInv PROVE InstalledIsComplete
  <2> SUFFICES ASSUME pc = "installed", NEW b \in Bmp
               PROVE  /\ block0[b][0] = Written(ListOf(b), FALSE)
                      /\ \A p \in 1..STAMP_PAGE_OFFSET - 1 : block0[b][p] = Written(Fill, FALSE)
                      /\ block0[b][STAMP_PAGE_OFFSET] = Written(Stamp, TRUE)
                      /\ \A p \in 0..NumFwPages[image] - 1 :
                           block0[b][FW_PAGE_OFFSET + p] = Written(FwPage(image, p), TRUE)
    BY DEF InstalledIsComplete
  <2>1. Progress /\ image \in Images
    BY <1>1 DEF IInv, Types
  <2>2. ASSUME NEW p \in 0..NumFwPages[image] - 1
        PROVE  block0[b][FW_PAGE_OFFSET + p] = Written(FwPage(image, p), TRUE)
    <3>1. /\ FW_PAGE_OFFSET + p \in FW_PAGE_OFFSET .. EndFw - 1
          /\ (FW_PAGE_OFFSET + p) - FW_PAGE_OFFSET = p
      BY <2>1, Layout DEF EndFw
    <3>2. QED BY <2>1, <3>1 DEF Progress
  <2>3. QED BY <2>1, <2>2 DEF Progress
<1>2. QED
  BY <1>1, Invariant, PTL

\* A bank whose last erase of block 0 has worked and that has a stamp has a list in page 0, and the
\* whole image behind the stamp unless an installation was cut off in steps 3 and 4: what the ROM
\* finds there when the drive is switched on.
THEOREM BootBlockIsWhole == Spec => []BootBlock
<1>1. IInv => BootBlock
  BY DEF IInv
<1>2. QED
  BY <1>1, Invariant, PTL

\* Past open_target_drv the drive has the SDRAM the firmware was built for.
THEOREM SdramIsRight == Spec => []SdramMatches
<1>1. IInv => SdramMatches
  BY DEF IInv
<1>2. QED
  BY <1>1, Invariant, PTL
=============================================================================

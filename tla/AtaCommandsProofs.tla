------------------------- MODULE AtaCommandsProofs -------------------------
(***************************************************************************)
(* ATA commands, for fields of any size, any drive and any choice of the   *)
(* host's frames.  The argument: the host's last command is in one place   *)
(* at a time, the frame registers, the mailbox, the queue with its         *)
(* transfer and the FTL, or a function of Main, and wherever it is its     *)
(* parts agree with the frame, which the host cannot replace before the    *)
(* command has left the places that look at it.                            *)
(***************************************************************************)
EXTENDS AtaCommands, TLAPS

\* The places of a command after the frame registers.
InMailbox == slow.status = "PENDING"
InQueue == engine.what = "queue" \/ eq.some \/ pc = "ftl"
InMain == \/ pc \in {"run", "status"}
          \/ pc \in {"pio", "mode"} /\ run.function = "PIO_out"
          \/ engine.what = "PIO"

OnePlace == /\ cmdRecv => ~InMailbox /\ ~InQueue /\ ~InMain
            /\ InMailbox => ~InQueue /\ ~InMain
            /\ InQueue => ~InMain

\* The host is not answered while its command is in a place but the queue and the FTL.
HostWaits == cmdRecv \/ InMailbox \/ engine.what = "queue" \/ InMain => waiting

Steps ==
  /\ fis \in Frames
  /\ {"writeCache", "lookAhead"} \subseteq DOMAIN context
  /\ pc \in {"poll", "ftl", "run", "pio", "mode", "status", "clear"}
  /\ fiq <=> pc # "pio"
  /\ pc \in {"poll", "clear"} => run = NoRun
  /\ pc = "ftl" => run.function \in {"ftl_read", "ftl_write", "ftl_trim"}
  /\ pc \in {"pio", "mode"} => run.function \in {"PIO_in", "PIO_out"}
  /\ pc = "status" => run.function = "PIO_out"
  /\ pc = "pio" => ~InQueue
  /\ engine.what = "PIO" => pc = "pio" /\ (engine.write <=> run.function = "PIO_out")

\* The frame and what was made of it.
FromFrame ==
  /\ InMailbox => slow.code = fis.code /\ (slow.code = \h70 => slow.lba = 0)
  /\ InMain => /\ run.code = fis.code /\ run.function = Function(fis.code)
               /\ run.function = "seek" => run.lba = 0
  /\ InQueue => fis.code \in FTL_D2H \cup FTL_H2D \cup {TRIM}

\* What a word holds of the address of a frame.
Address(f) == First(f) % Word

\* A command of sectors that was not rejected.
Sound(f) == f.code \in FTL_D2H \cup FTL_H2D => Address(f) + Sectors(f) <= MAX_LBA + 1

Asked ==
  ~Odd(fis) =>
    /\ InQueue => Sound(fis)
    /\ eq.some => /\ eq.write <=> fis.code \notin FTL_D2H
                  /\ CountRead(eq) = Sectors(fis)
                  /\ eq.lba = IF fis.code = TRIM THEN TrimMark ELSE Address(fis)
    /\ engine.what = "queue" => engine.sectors = Sectors(fis)
    /\ pc = "ftl" => /\ run.function = IF fis.code = TRIM THEN "ftl_trim"
                                       ELSE IF fis.code \in FTL_H2D THEN "ftl_write" ELSE "ftl_read"
                     /\ run.count = Sectors(fis)
                     /\ fis.code # TRIM => run.lba = Address(fis)

IInv == OnePlace /\ HostWaits /\ Steps /\ FromFrame /\ Asked /\ ToldRight

-----------------------------------------------------------------------------
(* Frames and how they are decoded. *)

LEMMA Sizes ==
  /\ LowValues \in Nat \ {0} /\ SectValues \in Nat \ {0} /\ DevValues \in Nat \ {0}
  /\ HighValues \in Nat \ {0} /\ NorValues \in Nat \ {0} /\ ExtValues \in Nat \ {0}
  /\ DevValues < HighValues /\ NorValues <= LowValues /\ NorValues <= ExtValues
  /\ MAX_LBA \in ExtValues .. TrimMark - 1
BY FieldsAssumption

LEMMA FrameFacts ==
  ASSUME NEW f \in Frames
  PROVE  /\ f.code \in Codes /\ f.code \in 0 .. 255 /\ f.lbaMode \in BOOLEAN
         /\ f.low \in 0 .. LowValues - 1 /\ f.dev \in 0 .. DevValues - 1
         /\ f.high \in Nat /\ f.count \in 0 .. ExtValues - 1
<1> DEFINE R(c) == [code : {c}, lbaMode : IF c \in LBA_NOR THEN BOOLEAN ELSE {TRUE},
                  low  : IF c \in LBA_NOR \cup LBA_EXT \cup LBA_SECT_CNT THEN Lows ELSE {0},
                  dev  : IF c \in LBA_NOR \cup LBA_SECT_CNT \cup {\h91} THEN Devs ELSE {0},
                  high : IF c \in LBA_EXT THEN Highs ELSE {0},
                  count : IF c \in LBA_NOR \cup LBA_EXT \cup LBA_SECT_CNT \cup {\h91, \hEF} THEN Counts ELSE {0},
                  feature : IF c = \hEF THEN Features ELSE {"other"}]
<1>1. PICK c \in Codes : f \in R(c)
  <2>1. Frames = UNION {R(c) : c \in Codes}
    BY DEF Frames
  <2>2. f \in UNION {R(c) : c \in Codes}
    BY <2>1
  <2> HIDE DEF R
  <2>3. QED BY <2>2
<1>2. /\ f.code = c
      /\ f.lbaMode \in (IF c \in LBA_NOR THEN BOOLEAN ELSE {TRUE})
      /\ f.low \in (IF c \in LBA_NOR \cup LBA_EXT \cup LBA_SECT_CNT THEN Lows ELSE {0})
      /\ f.dev \in (IF c \in LBA_NOR \cup LBA_SECT_CNT \cup {\h91} THEN Devs ELSE {0})
      /\ f.high \in (IF c \in LBA_EXT THEN Highs ELSE {0})
      /\ f.count \in (IF c \in LBA_NOR \cup LBA_EXT \cup LBA_SECT_CNT \cup {\h91, \hEF} THEN Counts ELSE {0})
  BY <1>1
<1>3. f.lbaMode \in BOOLEAN
  BY <1>2
<1>4. Lows \subseteq 0 .. LowValues - 1 /\ 0 \in 0 .. LowValues - 1
  BY FieldsAssumption
<1>5. Devs \subseteq 0 .. DevValues - 1 /\ 0 \in 0 .. DevValues - 1
  BY FieldsAssumption
<1>6. Highs \subseteq Nat /\ 0 \in Nat
  BY FieldsAssumption
<1>7. Counts \subseteq 0 .. ExtValues - 1 /\ 0 \in 0 .. ExtValues - 1
  BY FieldsAssumption
<1>8. Codes \subseteq 0 .. 255
  BY FieldsAssumption
<1>10. f.low \in 0 .. LowValues - 1
  BY <1>2, <1>4
<1>11. f.dev \in 0 .. DevValues - 1
  BY <1>2, <1>5
<1>12. f.high \in Nat
  <2>1. f.high \in Highs \/ f.high = 0
    BY <1>2
  <2>2. QED BY <1>6, <2>1
<1>13. f.count \in 0 .. ExtValues - 1
  BY <1>2, <1>7
<1>14. f.code \in Codes /\ f.code \in 0 .. 255
  BY <1>2, <1>8
<1>15. QED
  BY <1>3, <1>10, <1>11, <1>12, <1>13, <1>14

LEMMA FirstFrame == \E f \in Frames : f.code = 0
<1> DEFINE g == [code |-> 0, lbaMode |-> TRUE, low |-> 0, dev |-> 0, high |-> 0, count |-> 0,
                 feature |-> "other"]
           R(c) == [code : {c}, lbaMode : IF c \in LBA_NOR THEN BOOLEAN ELSE {TRUE},
                        low  : IF c \in LBA_NOR \cup LBA_EXT \cup LBA_SECT_CNT THEN Lows ELSE {0},
                        dev  : IF c \in LBA_NOR \cup LBA_SECT_CNT \cup {\h91} THEN Devs ELSE {0},
                        high : IF c \in LBA_EXT THEN Highs ELSE {0},
                        count : IF c \in LBA_NOR \cup LBA_EXT \cup LBA_SECT_CNT \cup {\h91, \hEF} THEN Counts ELSE {0},
                        feature : IF c = \hEF THEN Features ELSE {"other"}]
<1>1. 0 \notin LBA_NOR /\ 0 \notin LBA_EXT /\ 0 \notin LBA_SECT_CNT
  BY DEF LBA_NOR, LBA_EXT, LBA_SECT_CNT
<1>2. g \in R(0)
  BY <1>1
<1>3. 0 \in Codes
  BY FieldsAssumption
<1>4. g \in Frames
  <2>1. Frames = UNION {R(c) : c \in Codes}
    BY DEF Frames
  <2> HIDE DEF R, g
  <2>2. QED BY <1>2, <1>3, <2>1
<1>5. g.code = 0
  OBVIOUS
<1>6. QED
  BY <1>4, <1>5

\* The parts of a word do not run into each other.
LEMMA WordParts ==
  ASSUME NEW d \in Nat, NEW n \in Nat, d < n, NEW low \in 0 .. LowValues - 1
  PROVE  d * LowValues + low \in Nat /\ d * LowValues + low < n * LowValues
<1>1. LowValues \in Nat /\ low \in Nat /\ d * LowValues \in Nat /\ n * LowValues \in Nat
  BY Sizes
<1>2. (d + 1) * LowValues = d * LowValues + LowValues
  BY <1>1
<1>3. (d + 1) * LowValues <= n * LowValues
  BY <1>1
<1>4. QED
  BY <1>1, <1>2, <1>3

LEMMA Codings ==
  /\ \A c \in FTL_D2H \cup FTL_H2D \cup {TRIM} : c \in FPDMA \/ c \in LBA_NOR \/ c \in LBA_EXT \/ c = TRIM
  /\ \A c \in FTL_D2H \cup FTL_H2D \cup {TRIM} : c \notin NO_SECT
  /\ \A c \in LBA_NOR : c \notin LBA_EXT /\ c \notin LBA_SECT_CNT
  /\ \A c \in LBA_EXT : c \notin LBA_SECT_CNT /\ c \notin LBA_NOR
  /\ LBA_SECT_CNT = {TRIM} /\ TRIM \notin LBA_NOR /\ TRIM \notin LBA_EXT
  /\ TRIM \notin FTL_D2H /\ TRIM \notin FTL_H2D /\ \A c \in FTL_D2H : c \notin FTL_H2D
  /\ \A c \in {\hEF, \h70} : c \notin LBA_NOR \cup LBA_EXT \cup LBA_SECT_CNT \cup FTL_D2H \cup FTL_H2D \cup {TRIM}
BY DEF FTL_D2H, FTL_H2D, TRIM, FPDMA, LBA_NOR, LBA_EXT, LBA_SECT_CNT, NO_SECT

LEMMA LbaCases ==
  ASSUME NEW f
  PROVE  /\ f.code \in LBA_NOR /\ f.lbaMode => Lba(f) = f.dev * LowValues + f.low
         /\ f.code \in LBA_EXT => Lba(f) = (f.high * LowValues + f.low) % Word
         /\ f.code = TRIM => Lba(f) = f.dev * LowValues + f.low
         /\ f.code \notin LBA_NOR \cup LBA_EXT \cup LBA_SECT_CNT => Lba(f) = 0
BY Codings, Zenon DEF Lba

LEMMA CountCases ==
  ASSUME NEW f
  PROVE  /\ f.code \in LBA_NOR => SectorCount(f) = Whole(f, f.count % NorValues, NorValues)
         /\ f.code \in LBA_EXT => SectorCount(f) = Whole(f, f.count, ExtValues)
         /\ f.code = TRIM => SectorCount(f) = f.count
         /\ f.code \notin LBA_NOR \cup LBA_EXT \cup LBA_SECT_CNT => SectorCount(f) = 0
BY Codings, Zenon DEF SectorCount

LEMMA Modulo ==
  ASSUME NEW x \in Nat, NEW m \in Nat \ {0}
  PROVE  x % m \in 0 .. m - 1 /\ x % m <= x /\ (x < m => x % m = x) /\ (x = m => x % m = 0)
OBVIOUS

LEMMA WordFacts ==
  /\ Word \in Nat \ {0} /\ Word \div 4 \in Nat \ {0} /\ TrimMark \in Nat /\ MAX_LBA \in Nat
  /\ MAX_LBA < TrimMark /\ TrimMark < Word \div 4 /\ MAX_LBA + 1 < Word /\ ExtValues <= MAX_LBA
<1>1. Word \in Nat /\ MAX_LBA \in ExtValues .. TrimMark - 1 /\ ExtValues \in Nat \ {0}
  BY Sizes DEF Word
<1>2. Word \div 4 \in Nat /\ Word \div 4 <= Word
  BY <1>1
<1>3. QED
  BY <1>1, <1>2 DEF TrimMark

\* handle_got_cfis reads the range of a frame as it is meant.
LEMMA Decoded ==
  ASSUME NEW f \in Frames, ~Untranslated(f), f.code \in LBA_NOR \cup LBA_EXT, f.code \notin NO_SECT
  PROVE  /\ Lba(f) = Address(f) /\ SectorCount(f) = Sectors(f)
         /\ First(f) \in Nat /\ Address(f) \in Nat /\ Address(f) <= First(f)
         /\ Sectors(f) \in 1 .. ExtValues
         /\ First(f) < Word => Address(f) = First(f)
         /\ f.code \in LBA_NOR => First(f) < Word /\ Address(f) + Sectors(f) < Word
<1>1. /\ f.low \in 0 .. LowValues - 1 /\ f.dev \in 0 .. DevValues - 1
      /\ f.high \in Nat /\ f.count \in 0 .. ExtValues - 1
  BY FrameFacts
<1>2. f.dev * LowValues + f.low \in Nat /\ f.high * LowValues + f.low \in Nat
  <2>1. f.dev \in Nat /\ f.dev + 1 \in Nat /\ f.high + 1 \in Nat
    BY <1>1, Sizes
  <2>2. f.dev < f.dev + 1 /\ f.high < f.high + 1
    BY <1>1, <2>1
  <2>3. QED BY <1>1, <2>1, <2>2, WordParts
<1>3. CASE f.code \in LBA_NOR
  <2>1. f.code \notin LBA_EXT /\ f.lbaMode
    BY <1>3, Codings, FrameFacts DEF Untranslated
  <2>2. Lba(f) = First(f) /\ First(f) \in Nat /\ First(f) = f.dev * LowValues + f.low
    BY <1>2, <1>3, <2>1, LbaCases DEF First
  <2>3. SectorCount(f) = Sectors(f)
    BY <1>3, CountCases DEF Whole, Sectors
  <2>4. f.count % NorValues \in 0 .. NorValues - 1
    <3>1. f.count \in Nat /\ NorValues \in Nat \ {0}
      BY <1>1, Sizes
    <3>2. QED BY <3>1, Modulo
  <2>5. Sectors(f) \in 1 .. NorValues
    BY <1>3, <2>4, Sizes DEF Sectors
  <2>6. First(f) < DevValues * LowValues
    <3>1. f.dev \in Nat /\ DevValues \in Nat /\ f.dev < DevValues
      BY <1>1, Sizes
    <3>2. QED BY <1>1, <2>2, <3>1, WordParts
  <2>7. DevValues * LowValues + LowValues <= Word
    <3>1. DevValues + 1 <= HighValues
      BY Sizes
    <3>2. (DevValues + 1) * LowValues <= HighValues * LowValues
      BY <3>1, Sizes
    <3>3. (DevValues + 1) * LowValues = DevValues * LowValues + LowValues
      BY Sizes
    <3>4. HighValues * LowValues = LowValues * HighValues
      BY Sizes
    <3>5. QED BY <3>2, <3>3, <3>4 DEF Word
  <2>8. DevValues * LowValues \in Nat /\ Word \in Nat
    BY Sizes DEF Word
  <2>9. First(f) + Sectors(f) < Word
    BY <1>2, <2>2, <2>5, <2>6, <2>7, <2>8, Sizes
  <2>10. First(f) < Word /\ Address(f) = First(f)
    <3>1. First(f) < Word
      BY <2>2, <2>5, <2>8, <2>9, Sizes
    <3>2. QED BY <2>2, <3>1, WordFacts, Modulo DEF Address
  <2>11. QED
    BY <1>2, <2>2, <2>3, <2>5, <2>9, <2>10, Sizes
<1>4. CASE f.code \in LBA_EXT
  <2>1. f.code \notin LBA_NOR
    BY <1>4, Codings
  <2>2. Lba(f) = Address(f) /\ First(f) \in Nat
    BY <1>2, <1>4, LbaCases DEF First, Address
  <2>3. SectorCount(f) = Sectors(f) /\ Sectors(f) \in 1 .. ExtValues
    BY <1>1, <1>4, <2>1, CountCases, Sizes DEF Whole, Sectors
  <2>4. Address(f) \in Nat /\ Address(f) <= First(f) /\ (First(f) < Word => Address(f) = First(f))
    <3>1. Word \in Nat \ {0}
      BY WordFacts
    <3>2. First(f) % Word \in 0 .. Word - 1 /\ First(f) % Word <= First(f)
          /\ (First(f) < Word => First(f) % Word = First(f))
      BY <2>2, <3>1, Modulo
    <3>3. QED BY <3>1, <3>2 DEF Address
  <2>5. QED BY <2>1, <2>2, <2>3, <2>4
<1>5. QED
  BY <1>3, <1>4

\* What is queued for the FTL, when the frame is not one of the odd ones.
LEMMA QueuedRight ==
  ASSUME NEW f \in Frames, ~Odd(f), ~Rejected(f), f.code \in FTL_D2H \cup FTL_H2D \cup {TRIM}
  PROVE  /\ Sound(f) /\ SectorCount(f) = Sectors(f)
         /\ CountRead([count |-> SectorCount(f) % ExtValues]) = Sectors(f)
         /\ f.code # TRIM => Lba(f) % (Word \div 4) = Address(f) /\ Address(f) < TrimMark
         /\ TrimMark % (Word \div 4) = TrimMark
<1>1. TrimMark % (Word \div 4) = TrimMark
  BY WordFacts, Modulo
<1>2. CASE f.code = TRIM
  <2>1. f.count # 0 /\ f.count \in 0 .. ExtValues - 1
    BY <1>2, FrameFacts DEF Odd, Empty
  <2>2. SectorCount(f) = f.count /\ Sectors(f) = f.count
    BY <1>2, <2>1, CountCases, Codings DEF Sectors
  <2>3. f.count % ExtValues = f.count
    <3>1. f.count \in Nat /\ ExtValues \in Nat \ {0} /\ f.count < ExtValues
      BY <2>1, Sizes
    <3>2. QED BY <3>1, Modulo
  <2>4. CountRead([count |-> SectorCount(f) % ExtValues]) = Sectors(f)
    BY <2>1, <2>2, <2>3 DEF CountRead
  <2>5. QED BY <1>1, <1>2, <2>2, <2>4, Codings DEF Sound
<1>3. CASE f.code # TRIM
  <2>1. f.code \in LBA_NOR \cup LBA_EXT /\ f.code \notin NO_SECT /\ ~Untranslated(f)
    BY <1>3, Codings DEF Odd, Empty
  <2>2. /\ Lba(f) = Address(f) /\ SectorCount(f) = Sectors(f)
        /\ Address(f) \in Nat /\ Sectors(f) \in 1 .. ExtValues
        /\ f.code \in LBA_NOR => Address(f) + Sectors(f) < Word
    BY <2>1, Decoded
  <2>3. Address(f) + Sectors(f) <= MAX_LBA + 1
    <3>1. Address(f) + Sectors(f) \in Nat
      BY <2>2, Sizes
    <3>2. Address(f) + Sectors(f) < Word
      BY <2>1, <2>2, <3>1, WordFacts DEF Odd, Wraps, Address
    <3>3. (Address(f) + Sectors(f)) % Word = Address(f) + Sectors(f)
      BY <3>1, <3>2, WordFacts, Modulo
    <3>4. ~ ((Address(f) + Sectors(f)) % Word > MAX_LBA + 1)
      BY <2>1, <2>2 DEF Rejected, Beyond
    <3>5. QED BY <3>1, <3>3, <3>4, WordFacts
  <2>4. Address(f) < TrimMark
    BY <2>2, <2>3, WordFacts, Sizes
  <2>5. Address(f) % (Word \div 4) = Address(f)
    <3>1. Word \div 4 \in Nat \ {0} /\ Address(f) < Word \div 4
      BY <2>2, <2>4, WordFacts
    <3>2. QED BY <2>2, <3>1, Modulo
  <2>6. CountRead([count |-> SectorCount(f) % ExtValues]) = Sectors(f)
    <3>1. CASE Sectors(f) = ExtValues
      <4>1. ExtValues \in Nat \ {0}
        BY Sizes
      <4>2. Sectors(f) % ExtValues = 0
        BY <3>1, <4>1, Modulo
      <4>3. QED BY <2>2, <3>1, <4>2 DEF CountRead
    <3>2. CASE Sectors(f) < ExtValues
      <4>1. Sectors(f) % ExtValues = Sectors(f) /\ Sectors(f) # 0
        <5>1. Sectors(f) \in Nat \ {0} /\ ExtValues \in Nat \ {0}
          BY <2>2, Sizes
        <5>2. QED BY <3>2, <5>1, Modulo
      <4>2. QED BY <2>2, <4>1 DEF CountRead
    <3>3. QED BY <2>2, <3>1, <3>2, Sizes
  <2>7. QED BY <1>1, <1>3, <2>2, <2>3, <2>4, <2>5, <2>6 DEF Sound
<1>4. QED
  BY <1>2, <1>3

\* Success is the answer to a range of the drive, if a word holds its address.
LEMMA SoundWithin ==
  ASSUME NEW f \in Frames, ~Odd(f), ~Truncated(f), Sound(f), f.code \in FTL_D2H \cup FTL_H2D
  PROVE  Within(f)
<1>1. f.code \in LBA_NOR \cup LBA_EXT /\ f.code \notin NO_SECT /\ ~Untranslated(f)
  BY Codings DEF Odd, Empty
<1>2. First(f) \in Nat /\ (First(f) < Word => Address(f) = First(f))
      /\ (f.code \in LBA_NOR => First(f) < Word)
  BY <1>1, Decoded
<1>3. First(f) < Word
  BY <1>1, <1>2, WordFacts DEF Truncated
<1>4. QED
  BY <1>2, <1>3 DEF Sound, Within

\* IDNF is the answer to ranges beyond the drive only.
LEMMA RejectedRight ==
  ASSUME NEW f \in Frames, Rejected(f)
  PROVE  ~Within(f) \/ Untranslated(f)
<1>1. (Lba(f) + SectorCount(f)) % Word > MAX_LBA + 1 /\ f.code \notin NO_SECT
  BY DEF Rejected, Beyond
<1>2. CASE f.code \in LBA_NOR \cup LBA_EXT
  <2>1. SUFFICES ASSUME ~Untranslated(f) PROVE ~Within(f)
    OBVIOUS
  <2>2. /\ Lba(f) = Address(f) /\ SectorCount(f) = Sectors(f)
        /\ First(f) \in Nat /\ Address(f) \in Nat /\ Address(f) <= First(f)
        /\ Sectors(f) \in 1 .. ExtValues
    BY <1>1, <1>2, <2>1, Decoded
  <2>3. Address(f) + Sectors(f) \in Nat
    BY <2>2, Sizes
  <2>4. (Address(f) + Sectors(f)) % Word <= Address(f) + Sectors(f)
        /\ (Address(f) + Sectors(f)) % Word \in Nat
    BY <2>3, WordFacts, Modulo
  <2>5. QED BY <1>1, <2>2, <2>3, <2>4, WordFacts DEF Within
<1>3. CASE f.code = TRIM
  <2>1. /\ f.low \in 0 .. LowValues - 1 /\ f.dev \in Nat /\ f.count \in Nat
        /\ f.count < ExtValues
    BY <1>3, FrameFacts, Sizes
  <2>2. Lba(f) = First(f) /\ SectorCount(f) = f.count
    BY <1>3, LbaCases, CountCases, Codings DEF First
  <2>3. First(f) \in Nat
    <3>1. f.dev + 1 \in Nat /\ f.dev < f.dev + 1
      BY <2>1
    <3>2. f.dev * LowValues + f.low \in Nat
      BY <2>1, <3>1, WordParts
    <3>3. QED BY <1>3, <3>2, Codings DEF First
  <2>4. Sectors(f) \in Nat /\ f.count <= Sectors(f)
    BY <1>3, <2>1, Codings, Sizes DEF Sectors
  <2>5. First(f) + f.count \in Nat
    BY <2>1, <2>3
  <2>6. (First(f) + f.count) % Word <= First(f) + f.count /\ (First(f) + f.count) % Word \in Nat
    <3>1. PICK x \in Nat : x = First(f) + f.count
      BY <2>5
    <3>2. x % Word <= x /\ x % Word \in Nat
      BY WordFacts, Modulo
    <3>3. QED BY <3>1, <3>2
  <2>7. QED BY <1>1, <2>1, <2>2, <2>3, <2>4, <2>6, WordFacts DEF Within
<1>4. CASE f.code \notin LBA_NOR \cup LBA_EXT \cup LBA_SECT_CNT
  <2>1. Lba(f) = 0 /\ SectorCount(f) = 0
    BY <1>4, LbaCases, CountCases
  <2>2. (0 + 0) % Word = 0
    BY WordFacts, Modulo
  <2>3. QED BY <1>1, <2>1, <2>2, WordFacts
<1>5. QED
  BY <1>2, <1>3, <1>4, Codings

\* The table of functions, as far as it matters.
LEMMA Functions ==
  ASSUME NEW c
  PROVE  /\ Function(c) = "seek" => c = \h70
         /\ c = \hEF => Function(c) \in {"set_features", "abort"}
         /\ c \in FTL_D2H \cup FTL_H2D => Function(c) \in {"set_features", "abort"}
         /\ Function(c) = "set_features" => c = \hEF
         /\ Function(c) \in {"read_native_max_address", "success", "flush", "check_power_mode", "seek",
                             "initialize_device_parameters", "set_features", "PIO_in", "PIO_out",
                             "signature", "abort"}
<1> DEFINE Other(d) == d # \hEF /\ d \notin FTL_D2H /\ d \notin FTL_H2D
<1>0. Function(c) = "set_features" => c = \hEF
  BY ZenonT(60) DEF Function
<1>1. Function(c) = "seek" => c = \h70
  BY ZenonT(60) DEF Function
<1>2. Function(c) \in {"read_native_max_address", "success", "flush", "check_power_mode", "seek",
                       "initialize_device_parameters", "set_features", "PIO_in", "PIO_out",
                       "signature", "abort"}
  BY ZenonT(60) DEF Function
<1>3. /\ Function(c) = "read_native_max_address" => c \in {\h27, \hF8}
      /\ Function(c) = "success" => c \in {\h10, \h40, \h42, \h99, \hC6, \hE6}
  <2>1. Function(c) = "read_native_max_address" => c \in {\h27, \hF8}
    BY ZenonT(60) DEF Function
  <2>2. Function(c) = "success" => c \in {\h10, \h40, \h42, \h99, \hC6, \hE6}
    BY ZenonT(60) DEF Function
  <2>3. QED BY <2>1, <2>2
<1>4. /\ Function(c) = "flush" => c \in {\h94, \h95, \h96, \h97, \hE0, \hE1, \hE2, \hE3, \hE7, \hEA}
      /\ Function(c) = "check_power_mode" => c \in {\h98, \hE5}
  <2>1. Function(c) = "flush" => c \in {\h94, \h95, \h96, \h97, \hE0, \hE1, \hE2, \hE3, \hE7, \hEA}
    BY ZenonT(60) DEF Function
  <2>2. Function(c) = "check_power_mode" => c \in {\h98, \hE5}
    BY ZenonT(60) DEF Function
  <2>3. QED BY <2>1, <2>2
<1>5. /\ Function(c) = "initialize_device_parameters" => c = \h91
      /\ Function(c) = "PIO_in" => c \in {\hE4, \hEC}
  <2>1. Function(c) = "initialize_device_parameters" => c = \h91
    BY ZenonT(60) DEF Function
  <2>2. Function(c) = "PIO_in" => c \in {\hE4, \hEC}
    BY ZenonT(60) DEF Function
  <2>3. QED BY <2>1, <2>2
<1>6. Function(c) = "PIO_out" => c = \hE8
  BY ZenonT(60) DEF Function
<1>7. Function(c) = "signature" => c \in {\h90, \hFF}
  BY ZenonT(60) DEF Function
<1>8. \A d \in {\h27, \hF8, \h10, \h40, \h42, \h99, \hC6, \hE6, \h94, \h95, \h96, \h97, \hE0, \hE1, \hE2,
                \hE3, \hE7, \hEA, \h98, \hE5, \h70, \h91, \hE4, \hEC, \hE8, \h90, \hFF} : Other(d)
  BY DEF FTL_D2H, FTL_H2D
<1> HIDE DEF Other
<1>9. /\ Function(c) = "read_native_max_address" => Other(c)
      /\ Function(c) = "success" => Other(c)
      /\ Function(c) = "flush" => Other(c)
      /\ Function(c) = "check_power_mode" => Other(c)
  BY <1>3, <1>4, <1>8
<1>10. /\ Function(c) = "seek" => Other(c)
       /\ Function(c) = "initialize_device_parameters" => Other(c)
       /\ Function(c) = "PIO_in" => Other(c)
  BY <1>1, <1>5, <1>8
<1>11. /\ Function(c) = "PIO_out" => Other(c)
       /\ Function(c) = "signature" => Other(c)
  BY <1>6, <1>7, <1>8
<1>12. QED
  BY <1>0, <1>1, <1>2, <1>9, <1>10, <1>11 DEF Other

-----------------------------------------------------------------------------
(* Frame registers. *)

LEMMA InitInv == Init => IInv
<1> SUFFICES ASSUME Init PROVE IInv
  OBVIOUS
<1>1. fis \in Frames /\ fis.code = 0
  BY FirstFrame DEF Init
<1>2. /\ ~cmdRecv /\ ~waiting /\ told = "none" /\ slow.status = "NONE" /\ ~eq.some
      /\ engine.what = "nothing" /\ fiq /\ ~manual /\ pc = "poll" /\ run = NoRun
  BY DEF Init, NoSlow, NoEntry, Idle
<1>3. ~InMailbox /\ ~InQueue /\ ~InMain
  BY <1>2 DEF InMailbox, InQueue, InMain
<1>4. context = [writeCache |-> TRUE, lookAhead |-> TRUE, autoActivate |-> FALSE, heads |-> 0, sectors |-> 0]
  BY DEF Init
<1>5. {"writeCache", "lookAhead"} \subseteq DOMAIN context
  BY <1>4
<1>6. QED
  BY <1>1, <1>2, <1>3, <1>5 DEF IInv, OnePlace, HostWaits, Steps, FromFrame, Asked, ToldRight

LEMMA SendCommandInv ==
  ASSUME IInv, NEW f \in Frames, SendCommand(f)
  PROVE  IInv'
<1> USE DEF IInv, regs, host, main
<1>1. /\ ~waiting /\ ~eq.some /\ pc # "ftl" /\ engine.what = "nothing"
      /\ fis' = f /\ cmdRecv' /\ waiting'
      /\ UNCHANGED <<told, context, slow, eq, engine, fiq, manual, pc, run>>
  BY DEF SendCommand, Idle
<1>2. ~InMailbox' /\ ~InQueue' /\ ~InMain' /\ ~InQueue
  BY <1>1 DEF HostWaits, InMailbox, InQueue, InMain
<1>3. OnePlace' /\ HostWaits'
  BY <1>1, <1>2 DEF OnePlace, HostWaits
<1>4. Steps'
  BY <1>1, <1>2 DEF Steps
<1>5. FromFrame' /\ Asked' /\ ToldRight'
  BY <1>1, <1>2 DEF FromFrame, Asked, ToldRight, InQueue
<1>6. QED
  BY <1>3, <1>4, <1>5

\* The handler runs between two steps of Main, never during a PIO transfer.
LEMMA Taken ==
  ASSUME IInv, GotCfis
  PROVE  /\ ~cmdRecv' /\ waiting /\ ~InMailbox /\ ~InQueue /\ ~InMain
         /\ pc \in {"poll", "clear", "mode"} /\ fis \in Frames
BY DEF GotCfis, IInv, OnePlace, HostWaits, Steps, InMain, InQueue

LEMMA RejectCommandInv ==
  ASSUME IInv, RejectCommand
  PROVE  IInv'
<1> USE DEF IInv, regs, host, main
<1>1. /\ GotCfis /\ Rejected(fis) /\ ~waiting' /\ told' = "IDNF"
      /\ UNCHANGED <<fis, context, slow, eq, engine, fiq, manual, pc, run>>
  BY DEF RejectCommand, Answer
<1>2. ~cmdRecv' /\ ~InMailbox' /\ ~InQueue' /\ ~InMain' /\ ~InQueue
  BY <1>1, Taken DEF InMailbox, InQueue, InMain
<1>3. OnePlace' /\ HostWaits'
  BY <1>1, <1>2 DEF OnePlace, HostWaits, InQueue
<1>4. Steps'
  BY <1>1, <1>2 DEF Steps
<1>5. FromFrame' /\ Asked'
  BY <1>1, <1>2 DEF FromFrame, Asked, InQueue
<1>6. ToldRight'
  BY <1>1, Taken, RejectedRight DEF ToldRight
<1>7. QED
  BY <1>3, <1>4, <1>5, <1>6

LEMMA QueueInv ==
  ASSUME IInv, QueueReadWrite \/ QueueTrim
  PROVE  IInv'
<1> USE DEF IInv, regs, host, main
<1>1. /\ GotCfis /\ ~Rejected(fis) /\ fis.code \in FTL_D2H \cup FTL_H2D \cup {TRIM}
      /\ (eq'.write <=> fis.code \notin FTL_D2H) /\ eq'.some
      /\ eq'.lba = (IF fis.code = TRIM THEN TrimMark ELSE Lba(fis)) % (Word \div 4)
      /\ eq'.count = SectorCount(fis) % ExtValues
      /\ engine'.what = "queue" /\ engine'.sectors = SectorCount(fis)
      /\ UNCHANGED <<fis, waiting, told, context, slow, fiq, manual, pc, run>>
  <2>1. CASE QueueReadWrite
    <3>1. fis.code # TRIM /\ (fis.code \in FTL_H2D <=> fis.code \notin FTL_D2H)
      BY <2>1, Codings DEF QueueReadWrite
    <3>2. QED BY <2>1, <3>1 DEF QueueReadWrite, Queue, Start
  <2>2. CASE QueueTrim
    BY <2>2, Codings DEF QueueTrim, Queue, Start
  <2>3. QED BY <2>1, <2>2
<1>2. ~cmdRecv' /\ ~InMailbox' /\ InQueue' /\ ~InMain' /\ waiting'
  BY <1>1, Taken DEF InMailbox, InQueue, InMain
<1>3. pc \in {"poll", "clear", "mode"} /\ fis \in Frames
  BY <1>1, Taken
<1>4. OnePlace' /\ HostWaits'
  BY <1>1, <1>2 DEF OnePlace, HostWaits
<1>5. Steps'
  BY <1>1, <1>2, <1>3 DEF Steps
<1>6. FromFrame' /\ ToldRight'
  BY <1>1, <1>2 DEF FromFrame, ToldRight
<1>7. Asked'
  <2>1. SUFFICES ASSUME ~Odd(fis)
                 PROVE  /\ Sound(fis) /\ (eq'.write <=> fis.code \notin FTL_D2H)
                        /\ CountRead(eq') = Sectors(fis)
                        /\ eq'.lba = IF fis.code = TRIM THEN TrimMark ELSE Address(fis)
                        /\ engine'.sectors = Sectors(fis)
    BY <1>1, <1>3 DEF Asked
  <2>2. /\ Sound(fis) /\ SectorCount(fis) = Sectors(fis)
        /\ CountRead([count |-> SectorCount(fis) % ExtValues]) = Sectors(fis)
        /\ fis.code # TRIM => Lba(fis) % (Word \div 4) = Address(fis)
        /\ TrimMark % (Word \div 4) = TrimMark
    BY <1>1, <1>3, <2>1, QueuedRight
  <2>3. CountRead(eq') = CountRead([count |-> SectorCount(fis) % ExtValues])
    BY <1>1 DEF CountRead
  <2>4. eq'.lba = IF fis.code = TRIM THEN TrimMark ELSE Address(fis)
    BY <1>1, <2>2
  <2>5. QED BY <1>1, <2>2, <2>3, <2>4
<1>8. QED
  BY <1>4, <1>5, <1>6, <1>7

LEMMA PostSlowInv ==
  ASSUME IInv, PostSlow
  PROVE  IInv'
<1> USE DEF IInv, regs, host, main
<1>1. /\ GotCfis /\ fis.code \notin FTL_D2H \cup FTL_H2D \cup {TRIM}
      /\ slow'.status = "PENDING" /\ slow'.code = fis.code /\ slow'.lba = Lba(fis)
      /\ UNCHANGED <<fis, waiting, told, context, eq, engine, fiq, manual, pc, run>>
  BY DEF PostSlow
<1>2. ~cmdRecv' /\ InMailbox' /\ ~InQueue' /\ ~InMain' /\ waiting' /\ ~InQueue
  BY <1>1, Taken DEF InMailbox, InQueue, InMain
<1>3. OnePlace' /\ HostWaits'
  BY <1>1, <1>2 DEF OnePlace, HostWaits
<1>4. Steps'
  BY <1>1, <1>2 DEF Steps
<1>5. fis.code = \h70 => Lba(fis) = 0
  BY Codings, LbaCases
<1>6. FromFrame' /\ ToldRight'
  BY <1>1, <1>2, <1>5 DEF FromFrame, ToldRight
<1>7. Asked'
  BY <1>1, <1>2 DEF Asked, InQueue
<1>8. QED
  BY <1>3, <1>4, <1>6, <1>7

-----------------------------------------------------------------------------
(* The queue. *)

LEMMA EventqGetInv ==
  ASSUME IInv, EventqGet
  PROVE  IInv'
<1> USE DEF IInv, regs, host, main
<1>1. /\ pc = "poll" /\ pc' = "ftl" /\ eq.some /\ eq'.some = FALSE
      /\ run'.function = (IF ~eq.write THEN "ftl_read"
                          ELSE IF eq.lba = TrimMark THEN "ftl_trim" ELSE "ftl_write")
      /\ run'.lba = eq.lba /\ run'.count = CountRead(eq)
      /\ UNCHANGED <<fis, cmdRecv, waiting, told, context, slow, engine, fiq, manual>>
  BY DEF EventqGet, NoEntry
<1>2. InQueue /\ InQueue' /\ ~InMain /\ ~InMain' /\ (InMailbox' <=> InMailbox)
  BY <1>1 DEF OnePlace, InQueue, InMain, InMailbox
<1>3. OnePlace' /\ HostWaits'
  BY <1>1, <1>2 DEF OnePlace, HostWaits
<1>4. Steps'
  BY <1>1, <1>2 DEF Steps
<1>5. FromFrame' /\ ToldRight'
  BY <1>1, <1>2 DEF FromFrame, OnePlace, ToldRight
<1>6. Asked'
  <2>1. SUFFICES ASSUME ~Odd(fis)
                 PROVE  /\ Sound(fis) /\ (engine.what = "queue" => engine.sectors = Sectors(fis))
                        /\ run'.function = IF fis.code = TRIM THEN "ftl_trim"
                                           ELSE IF fis.code \in FTL_H2D THEN "ftl_write" ELSE "ftl_read"
                        /\ run'.count = Sectors(fis) /\ (fis.code # TRIM => run'.lba = Address(fis))
    BY <1>1 DEF Asked
  <2>2. /\ Sound(fis) /\ (engine.what = "queue" => engine.sectors = Sectors(fis))
        /\ (eq.write <=> fis.code \notin FTL_D2H) /\ CountRead(eq) = Sectors(fis)
        /\ eq.lba = (IF fis.code = TRIM THEN TrimMark ELSE Address(fis))
        /\ fis.code \in FTL_D2H \cup FTL_H2D \cup {TRIM}
    BY <1>1, <1>2, <2>1 DEF Asked, FromFrame
  <2>3. fis.code # TRIM => Address(fis) # TrimMark
    <3>1. SUFFICES ASSUME fis.code # TRIM PROVE Address(fis) # TrimMark
      OBVIOUS
    <3>2. fis \in Frames /\ ~Untranslated(fis) /\ fis.code \in LBA_NOR \cup LBA_EXT /\ fis.code \notin NO_SECT
      BY <2>1, <2>2, <3>1, Codings DEF Steps, Odd, Empty
    <3>3. Address(fis) \in Nat /\ Sectors(fis) \in Nat \ {0}
      BY <3>2, Decoded, Sizes
    <3>4. Address(fis) + Sectors(fis) <= MAX_LBA + 1
      BY <2>2, <3>1 DEF Sound
    <3>5. QED BY <3>3, <3>4, WordFacts
  <2>4. QED BY <1>1, <2>2, <2>3, Codings
<1>7. QED
  BY <1>3, <1>4, <1>5, <1>6

LEMMA RunFtlInv ==
  ASSUME IInv, RunFtl
  PROVE  IInv'
<1> USE DEF IInv, regs, host, main
<1>1. /\ pc = "ftl" /\ pc' = "poll" /\ run' = NoRun
      /\ UNCHANGED <<fis, cmdRecv, waiting, told, context, slow, eq, engine, fiq, manual>>
  BY DEF RunFtl
<1>2. InQueue /\ ~InMain /\ ~InMain' /\ (InMailbox' <=> InMailbox)
  BY <1>1 DEF OnePlace, InQueue, InMain, InMailbox
<1>3. OnePlace' /\ HostWaits'
  BY <1>1, <1>2 DEF OnePlace, HostWaits
<1>4. Steps'
  BY <1>1, <1>2 DEF Steps
<1>5. FromFrame' /\ ToldRight'
  BY <1>1, <1>2 DEF FromFrame, OnePlace, ToldRight
<1>6. Asked'
  BY <1>1, <1>2 DEF Asked
<1>7. QED
  BY <1>3, <1>4, <1>5, <1>6

LEMMA TransferDoneInv ==
  ASSUME IInv, TransferDone
  PROVE  IInv'
<1> USE DEF IInv, regs, host, main
<1>1. /\ engine.what = "queue" /\ engine'.what = "nothing" /\ ~waiting' /\ told' = "ok"
      /\ UNCHANGED <<fis, cmdRecv, context, slow, eq, fiq, manual, pc, run>>
  BY DEF TransferDone, Answer, Idle
<1>2. InQueue /\ ~InMain /\ ~InMain' /\ ~InMailbox /\ ~InMailbox' /\ ~cmdRecv /\ ~cmdRecv' /\ (InQueue' => InQueue)
  BY <1>1 DEF OnePlace, InQueue, InMain, InMailbox
<1>3. OnePlace' /\ HostWaits'
  BY <1>1, <1>2 DEF OnePlace, HostWaits
<1>4. Steps'
  BY <1>1, <1>2 DEF Steps
<1>5. fis.code \in FTL_D2H \cup FTL_H2D \cup {TRIM} /\ fis.code # \hEF
  BY <1>2, Codings DEF FromFrame
<1>6. fis.code \in FTL_D2H \cup FTL_H2D => Within(fis) \/ Odd(fis) \/ Truncated(fis)
  BY <1>2, SoundWithin DEF Asked, Steps
<1>7. ToldRight'
  BY <1>1, <1>5, <1>6 DEF ToldRight
<1>8. FromFrame' /\ Asked'
  BY <1>1, <1>2 DEF FromFrame, Asked
<1>9. QED
  BY <1>3, <1>4, <1>7, <1>8

-----------------------------------------------------------------------------
(* The mailbox. *)

LEMMA FetchSlowInv ==
  ASSUME IInv, FetchSlow
  PROVE  IInv'
<1> USE DEF IInv, regs, host, main
<1>1. /\ pc = "poll" /\ pc' = "run" /\ slow.status = "PENDING" /\ slow'.status = "BUSY"
      /\ run'.function = Function(slow.code) /\ run'.code = slow.code /\ run'.lba = slow.lba
      /\ UNCHANGED <<fis, cmdRecv, waiting, told, context, eq, engine, fiq, manual>>
  BY DEF FetchSlow, NoSlow
<1>2. InMailbox /\ ~InMailbox' /\ ~InQueue /\ ~InQueue' /\ InMain' /\ ~cmdRecv' /\ waiting'
  BY <1>1 DEF OnePlace, HostWaits, InMailbox, InQueue, InMain
<1>3. OnePlace' /\ HostWaits'
  BY <1>1, <1>2 DEF OnePlace, HostWaits
<1>4. Steps'
  BY <1>1, <1>2 DEF Steps
<1>5. slow.code = fis.code /\ (fis.code = \h70 => slow.lba = 0)
  BY <1>2 DEF FromFrame
<1>6. FromFrame' /\ ToldRight'
  BY <1>1, <1>2, <1>5, Functions DEF FromFrame, ToldRight
<1>7. Asked'
  BY <1>1, <1>2 DEF Asked, InQueue
<1>8. QED
  BY <1>3, <1>4, <1>6, <1>7

LEMMA ClearSlowInv ==
  ASSUME IInv, ClearSlow
  PROVE  IInv'
<1> USE DEF IInv, regs, host, main
<1>1. /\ pc = "clear" /\ pc' = "poll" /\ slow'.status = "NONE"
      /\ UNCHANGED <<fis, cmdRecv, waiting, told, context, eq, engine, fiq, manual, run>>
  BY DEF ClearSlow, NoSlow
<1>2. ~InMailbox' /\ (InQueue' <=> InQueue) /\ (InMain' <=> InMain)
  BY <1>1 DEF InMailbox, InQueue, InMain
<1>3. OnePlace' /\ HostWaits'
  BY <1>1, <1>2 DEF OnePlace, HostWaits
<1>4. Steps'
  BY <1>1, <1>2 DEF Steps
<1>5. FromFrame' /\ ToldRight'
  BY <1>1, <1>2 DEF FromFrame, ToldRight
<1>6. Asked'
  BY <1>1, <1>2 DEF Asked
<1>7. QED
  BY <1>3, <1>4, <1>5, <1>6

\* What Main runs is the host's last command, and no other place has it.
LEMMA Running ==
  ASSUME IInv, InMain
  PROVE  /\ waiting /\ ~cmdRecv /\ ~InMailbox /\ ~InQueue
         /\ run.code = fis.code /\ run.function = Function(fis.code)
         /\ run.function = "seek" => run.lba = 0
         /\ fis.code = \hEF => run.function \in {"set_features", "abort"}
         /\ fis.code \in FTL_D2H \cup FTL_H2D => run.function = "abort"
BY Functions, Codings DEF IInv, OnePlace, HostWaits, FromFrame

\* A function that ends, with an answer that is so.
LEMMA DoneInv ==
  ASSUME IInv, pc \in {"run", "status"}, Done, NEW what, Answer(what), ToldRight',
         {"writeCache", "lookAhead"} \subseteq DOMAIN context'
  PROVE  IInv'
<1> USE DEF IInv, regs, host, main
<1>1. /\ pc' = "clear" /\ run' = NoRun /\ ~waiting'
      /\ UNCHANGED <<fis, cmdRecv, slow, eq, engine, fiq, manual>>
  BY DEF Done, Answer
<1>2. InMain /\ ~InMailbox /\ ~InQueue /\ ~cmdRecv
  BY DEF InMain, OnePlace
<1>3. ~InMailbox' /\ ~InQueue' /\ ~cmdRecv'
  BY <1>1, <1>2 DEF InMailbox, InQueue
<1>4. engine'.what # "PIO"
  BY <1>1 DEF Steps
<1>5. ~InMain'
  BY <1>1, <1>4 DEF InMain
<1>6. OnePlace' /\ HostWaits'
  BY <1>3, <1>5 DEF OnePlace, HostWaits, InQueue
<1>7. Steps'
  BY <1>1, <1>3, <1>4 DEF Steps
<1>8. FromFrame' /\ Asked'
  BY <1>1, <1>3, <1>5 DEF FromFrame, Asked, InQueue
<1>9. QED
  BY <1>6, <1>7, <1>8

LEMMA JustAnswerInv ==
  ASSUME IInv, NEW function, NEW what, JustAnswer(function, what),
         function # "set_features", what # "IDNF", function = "abort" => what # "ok"
  PROVE  IInv'
<1> USE DEF IInv
<1>1. /\ pc = "run" /\ run.function = function /\ Answer(what) /\ Done /\ UNCHANGED <<fis, context>>
  BY DEF JustAnswer, Runs, Done, regs
<1>2. InMain
  BY <1>1 DEF InMain
<1>3. ~waiting' /\ told' = what
  BY <1>1 DEF Answer
<1>4. Function(fis.code) = function /\ (fis.code = \hEF => function \in {"set_features", "abort"})
      /\ (fis.code \in FTL_D2H \cup FTL_H2D => function = "abort")
  BY <1>1, <1>2, Running
<1>5. ToldRight'
  BY <1>1, <1>3, <1>4 DEF ToldRight
<1>6. QED
  BY <1>1, <1>5, DoneInv DEF Steps

LEMMA AnswersInv ==
  ASSUME IInv,
         \/ CheckPowerMode \/ Succeed \/ Seek \/ Flush \/ ReadNativeMaxAddress \/ NotSupported \/ ata_srst
  PROVE  IInv'
<1>1. CASE Seek
  <2>1. pc = "run" /\ run.function = "seek"
    BY <1>1 DEF Seek, JustAnswer, Runs
  <2>2. run.lba = 0
    BY <2>1, Running DEF InMain
  <2>3. JustAnswer("seek", "ok")
    BY <1>1, <2>2, WordFacts DEF Seek
  <2>4. QED BY <2>3, JustAnswerInv
<1>2. CASE NotSupported
  BY <1>2, JustAnswerInv DEF NotSupported
<1>3. CASE CheckPowerMode \/ Succeed \/ Flush
  BY <1>3, JustAnswerInv DEF CheckPowerMode, Succeed, Flush
<1>4. CASE ReadNativeMaxAddress \/ ata_srst
  BY <1>4, JustAnswerInv DEF ReadNativeMaxAddress, ata_srst
<1>5. QED
  BY <1>1, <1>2, <1>3, <1>4

LEMMA FeatureSets ==
  ASSUME NEW feature, NEW count, {"writeCache", "lookAhead"} \subseteq DOMAIN context
  PROVE  LET new == FeatureSet(feature, count) IN
         /\ {"writeCache", "lookAhead"} \subseteq DOMAIN new
         /\ feature = "write_cache_on" => new.writeCache = TRUE
         /\ feature = "write_cache_off" => new.writeCache = FALSE
         /\ feature = "look_ahead_on" => new.lookAhead = TRUE
         /\ feature = "look_ahead_off" => new.lookAhead = FALSE
<1> DEFINE new == FeatureSet(feature, count)
<1>1. /\ feature = "write_cache_on" => new = [context EXCEPT !.writeCache = TRUE]
      /\ feature = "write_cache_off" => new = [context EXCEPT !.writeCache = FALSE]
      /\ feature = "look_ahead_on" => new = [context EXCEPT !.lookAhead = TRUE]
      /\ feature = "look_ahead_off" => new = [context EXCEPT !.lookAhead = FALSE]
  BY Zenon DEF FeatureSet
<1>2. \/ new = [context EXCEPT !.writeCache = TRUE]
      \/ new = [context EXCEPT !.writeCache = FALSE]
      \/ new = [context EXCEPT !.lookAhead = TRUE]
      \/ new = [context EXCEPT !.lookAhead = FALSE]
      \/ new = [context EXCEPT !.autoActivate = (feature = "SATA_on")]
      \/ new = context
  BY Zenon DEF FeatureSet
<1> HIDE DEF new
<1>3. DOMAIN new = DOMAIN context
  BY <1>2
<1>4. /\ feature = "write_cache_on" => new.writeCache = TRUE
      /\ feature = "write_cache_off" => new.writeCache = FALSE
      /\ feature = "look_ahead_on" => new.lookAhead = TRUE
      /\ feature = "look_ahead_off" => new.lookAhead = FALSE
  BY <1>1
<1>5. QED
  BY <1>3, <1>4 DEF new

LEMMA SetFeaturesInv ==
  ASSUME IInv, SetFeatures
  PROVE  IInv'
<1> USE DEF IInv
<1>1. /\ pc = "run" /\ run.function = "set_features" /\ Done /\ fis' = fis
      /\ context' = FeatureSet(fis.feature, run.count)
      /\ Answer(IF fis.feature = "other" THEN "ABRT" ELSE "ok")
  BY DEF SetFeatures, Runs, Done, regs
<1>2. InMain
  BY <1>1 DEF InMain
<1>3. ~waiting' /\ told' \in {"ABRT", "ok"}
  BY <1>1 DEF Answer
<1>4. Function(fis.code) = "set_features" /\ fis.code \notin FTL_D2H \cup FTL_H2D
  BY <1>1, <1>2, Running
<1>5. {"writeCache", "lookAhead"} \subseteq DOMAIN context
  BY DEF Steps
<1>6. {"writeCache", "lookAhead"} \subseteq DOMAIN context'
  BY <1>1, <1>5, FeatureSets
<1>7. /\ fis.feature = "write_cache_on" => context'.writeCache = TRUE
      /\ fis.feature = "write_cache_off" => context'.writeCache = FALSE
      /\ fis.feature = "look_ahead_on" => context'.lookAhead = TRUE
      /\ fis.feature = "look_ahead_off" => context'.lookAhead = FALSE
  BY <1>1, <1>5, FeatureSets
<1>8. ToldRight'
  BY <1>1, <1>3, <1>4, <1>7 DEF ToldRight
<1>9. QED
  BY <1>1, <1>6, <1>8, DoneInv

LEMMA InitializeDeviceParametersInv ==
  ASSUME IInv, InitializeDeviceParameters
  PROVE  IInv'
<1> USE DEF IInv
<1>1. /\ pc = "run" /\ run.function = "initialize_device_parameters" /\ Done /\ fis' = fis
      /\ \/ context' = context
         \/ \E n \in {run.count % NorValues} : context' = [context EXCEPT !.heads = fis.dev + 1, !.sectors = n]
      /\ Answer("ABRT") \/ Answer("ok")
  BY DEF InitializeDeviceParameters, Runs, Done, regs
<1>2. InMain
  BY <1>1 DEF InMain
<1>3. ~waiting' /\ told' \in {"ABRT", "ok"}
  BY <1>1 DEF Answer
<1>4. Function(fis.code) = "initialize_device_parameters" /\ fis.code # \hEF
      /\ fis.code \notin FTL_D2H \cup FTL_H2D
  BY <1>1, <1>2, Running
<1>5. {"writeCache", "lookAhead"} \subseteq DOMAIN context'
  BY <1>1 DEF Steps
<1>6. ToldRight'
  BY <1>1, <1>3, <1>4 DEF ToldRight
<1>7. QED
  BY <1>1, <1>5, <1>6, DoneInv

-----------------------------------------------------------------------------
(* PIO. *)

LEMMA PioStartInv ==
  ASSUME IInv, PioStart
  PROVE  IInv'
<1> USE DEF IInv, regs, host, main
<1>1. /\ pc = "run" /\ run.function \in {"PIO_in", "PIO_out"} /\ pc' = "pio" /\ ~fiq'
      /\ engine'.what = "PIO" /\ (engine'.write <=> run.function = "PIO_out")
      /\ UNCHANGED <<fis, cmdRecv, waiting, told, context, slow, eq, run>>
  BY DEF PioStart, Runs
<1>2. InMain /\ InMain'
  BY <1>1 DEF InMain
<1>3. waiting /\ ~cmdRecv /\ ~InMailbox' /\ ~InQueue'
  BY <1>1, <1>2, Running DEF InMailbox, InQueue
<1>4. OnePlace' /\ HostWaits'
  BY <1>1, <1>2, <1>3 DEF OnePlace, HostWaits
<1>5. Steps'
  BY <1>1, <1>3 DEF Steps
<1>6. FromFrame' /\ ToldRight'
  BY <1>1, <1>2, <1>3 DEF FromFrame, ToldRight
<1>7. Asked'
  BY <1>1, <1>3 DEF Asked, InQueue
<1>8. QED
  BY <1>4, <1>5, <1>6, <1>7

LEMMA PioTransferInv ==
  ASSUME IInv, PioTransfer
  PROVE  IInv'
<1> USE DEF IInv, regs, host, main
<1>1. /\ engine.what = "PIO" /\ engine'.what = "nothing"
      /\ \/ engine.write /\ UNCHANGED <<waiting, told>>
         \/ ~engine.write /\ ~waiting' /\ told' = "ok"
      /\ UNCHANGED <<fis, cmdRecv, context, slow, eq, fiq, pc, run>>
  BY DEF PioTransfer, Answer, Idle
<1>2. InMain /\ pc = "pio" /\ (engine.write <=> run.function = "PIO_out")
      /\ run.function \in {"PIO_in", "PIO_out"}
  BY <1>1 DEF InMain, Steps
<1>3. /\ waiting /\ ~cmdRecv /\ ~InMailbox /\ ~InQueue /\ run.function = Function(fis.code)
      /\ (fis.code = \hEF => run.function \in {"set_features", "abort"})
      /\ fis.code \notin FTL_D2H \cup FTL_H2D
  BY <1>2, Running
<1>4. ~InMailbox' /\ ~InQueue' /\ ~cmdRecv' /\ (InMain' => engine.write)
  BY <1>1, <1>2, <1>3 DEF InMailbox, InQueue, InMain
<1>5. OnePlace' /\ HostWaits'
  BY <1>1, <1>3, <1>4 DEF OnePlace, HostWaits, InQueue
<1>6. Steps'
  BY <1>1, <1>4 DEF Steps
<1>7. FromFrame' /\ Asked'
  BY <1>1, <1>2, <1>4 DEF FromFrame, Asked, InQueue
<1>8. ToldRight'
  BY <1>1, <1>2, <1>3 DEF ToldRight
<1>9. QED
  BY <1>5, <1>6, <1>7, <1>8

LEMMA PioEndInv ==
  ASSUME IInv, PioEnd \/ LeaveManualMode
  PROVE  IInv'
<1> USE DEF IInv, regs, host, main
<1>1. UNCHANGED <<fis, cmdRecv, waiting, told, context, slow, eq, engine>>
  BY DEF PioEnd, LeaveManualMode
<1>2. \/ /\ pc = "pio" /\ pc' = "mode" /\ fiq' /\ run' = run /\ engine.what = "nothing"
      \/ /\ pc = "mode" /\ fiq' = fiq
         /\ \/ pc' = "status" /\ run' = run /\ run.function = "PIO_out"
            \/ pc' = "clear" /\ run' = NoRun /\ run.function # "PIO_out"
  BY DEF PioEnd, LeaveManualMode, AfterPio, Idle
<1>3. (InMain' <=> InMain) /\ (InQueue' <=> InQueue) /\ (InMailbox' <=> InMailbox)
      /\ (InMain => run' = run)
  BY <1>1, <1>2 DEF InMain, InQueue, InMailbox, Steps, NoRun
<1>4. OnePlace' /\ HostWaits'
  BY <1>1, <1>3 DEF OnePlace, HostWaits
<1>5. Steps'
  BY <1>1, <1>2, <1>3 DEF Steps
<1>6. FromFrame' /\ ToldRight'
  BY <1>1, <1>3 DEF FromFrame, ToldRight
<1>7. Asked'
  BY <1>1, <1>2, <1>3 DEF Asked
<1>8. QED
  BY <1>4, <1>5, <1>6, <1>7

LEMMA PioStatusInv ==
  ASSUME IInv, PioStatus
  PROVE  IInv'
<1> USE DEF IInv
<1>1. /\ pc = "status" /\ Answer("ok") /\ Done /\ UNCHANGED <<fis, context>>
  BY DEF PioStatus, Done, regs
<1>2. InMain /\ run.function = "PIO_out"
  BY <1>1 DEF InMain, Steps
<1>3. Function(fis.code) = "PIO_out" /\ fis.code # \hEF /\ fis.code \notin FTL_D2H \cup FTL_H2D
  BY <1>2, Running
<1>4. ToldRight'
  BY <1>1, <1>3 DEF ToldRight, Answer
<1>5. QED
  BY <1>1, <1>4, DoneInv DEF Steps

-----------------------------------------------------------------------------
(* The invariant. *)

LEMMA StepInv == IInv /\ [Next]_vars => IInv'
<1> SUFFICES ASSUME IInv, [Next]_vars PROVE IInv'
  OBVIOUS
<1>1. ASSUME NEW f \in Frames, SendCommand(f) PROVE IInv'
  BY <1>1, SendCommandInv
<1>2. CASE Fiq
  BY <1>2, RejectCommandInv, QueueInv, PostSlowInv DEF Fiq
<1>3. CASE TransferDone \/ PioTransfer
  BY <1>3, TransferDoneInv, PioTransferInv
<1>4. CASE Main
  BY <1>4, EventqGetInv, RunFtlInv, FetchSlowInv, ClearSlowInv, AnswersInv, SetFeaturesInv,
     InitializeDeviceParametersInv, PioStartInv, PioEndInv, PioStatusInv DEF Main
<1>5. CASE UNCHANGED vars
  <2>1. UNCHANGED <<fis, cmdRecv, waiting, told, context, slow, eq, engine, fiq, manual, pc, run>>
    BY <1>5 DEF vars, regs, host, main
  <2>2. (InMain' <=> InMain) /\ (InQueue' <=> InQueue) /\ (InMailbox' <=> InMailbox)
    BY <2>1 DEF InMain, InQueue, InMailbox
  <2>3. OnePlace' /\ HostWaits' /\ Steps' /\ FromFrame' /\ ToldRight'
    BY <2>1, <2>2 DEF IInv, OnePlace, HostWaits, Steps, FromFrame, ToldRight
  <2>4. Asked'
    BY <2>1, <2>2 DEF IInv, Asked
  <2>5. QED BY <2>3, <2>4 DEF IInv
<1>6. QED
  BY <1>1, <1>2, <1>3, <1>4, <1>5 DEF Next

\* Every state satisfies the inductive invariant: the host's last command is in one place of
\* the drive, and what is there agrees with its frame.
THEOREM Invariant == Spec => []IInv
BY InitInv, StepInv, PTL DEF Spec

\* What main hands to ftl_read, ftl_write and ftl_trim is the function, the count and the
\* address of the frame that handle_got_cfis took, within the drive, and as much as the engine
\* transfers.  Not of the frames Odd names; and of an extended address that a word does not
\* hold it is the low 32 bits, which sata_isr.c takes for the address.
THEOREM FtlCorrect == Spec => []FtlAskedRight
<1>1. IInv => FtlAskedRight
  <2>1. SUFFICES ASSUME IInv, pc = "ftl", ~Odd(fis) PROVE FtlAskedRight
    BY DEF FtlAskedRight
  <2>2. InQueue /\ fis \in Frames /\ fis.code \in FTL_D2H \cup FTL_H2D \cup {TRIM}
    BY <2>1 DEF InQueue, IInv, FromFrame, Steps
  <2>3. fis.code # TRIM => Address(fis) = IF Truncated(fis) THEN First(fis) % Word ELSE First(fis)
    <3>1. SUFFICES ASSUME fis.code # TRIM, ~Truncated(fis) PROVE Address(fis) = First(fis)
      BY DEF Address
    <3>2. fis.code \in LBA_NOR \cup LBA_EXT /\ fis.code \notin NO_SECT /\ ~Untranslated(fis)
      BY <2>1, <2>2, <3>1, Codings DEF Odd, Empty
    <3>3. First(fis) \in Nat /\ (First(fis) < Word => Address(fis) = First(fis))
          /\ (fis.code \in LBA_NOR => First(fis) < Word)
      BY <2>2, <3>2, Decoded
    <3>4. QED BY <3>1, <3>2, <3>3, WordFacts DEF Truncated
  <2>4. /\ run.function = IF fis.code = TRIM THEN "ftl_trim"
                          ELSE IF fis.code \in FTL_H2D THEN "ftl_write" ELSE "ftl_read"
        /\ run.count = Sectors(fis)
        /\ fis.code # TRIM => run.lba = Address(fis) /\ Address(fis) + Sectors(fis) <= MAX_LBA + 1
        /\ engine.what = "queue" => engine.sectors = Sectors(fis)
    BY <2>1, <2>2 DEF IInv, Asked, Sound
  <2>5. QED
    BY <2>3, <2>4 DEF FtlAskedRight
<1>2. QED
  BY <1>1, Invariant, PTL

\* Of the answers of the drive: IDNF is given for ranges beyond the drive (or to CHS frames),
\* success to a read or write of a range of the drive (or to one that is odd or was cut to a
\* word), success to SET FEATURES of the caches when the setting is in effect, and never to a
\* command without a function.  Nothing is said of SEEK and of SATA features.
THEOREM AnswersTrue == Spec => []ToldRight
<1>1. IInv => ToldRight
  BY DEF IInv
<1>2. QED
  BY <1>1, Invariant, PTL

\* The functions read the frame of their own command, and pio_sector_transfer has the engine
\* for itself.
THEOREM PioAlone == Spec => []PioExclusive
<1>1. IInv => PioExclusive
  <2>1. SUFFICES ASSUME IInv PROVE PioExclusive
    OBVIOUS
  <2>2. pc \in {"run", "status"} => waiting /\ fis.code = run.code
    BY <2>1, Running DEF InMain
  <2>3. pc = "pio" => ~cmdRecv \/ run.function = "PIO_in"
    BY <2>1, Running DEF InMain, IInv, Steps
  <2>4. engine.what = "queue" => pc # "pio" /\ run.function # "PIO_out"
    <3>1. SUFFICES ASSUME engine.what = "queue" PROVE pc # "pio" /\ run.function # "PIO_out"
      OBVIOUS
    <3>2. InQueue /\ ~InMain
      BY <2>1, <3>1 DEF InQueue, IInv, OnePlace
    <3>3. QED BY <2>1, <3>2 DEF InMain, IInv, Steps, NoRun
  <2>5. QED BY <2>2, <2>3, <2>4 DEF PioExclusive
<1>2. QED
  BY <1>1, Invariant, PTL
=============================================================================

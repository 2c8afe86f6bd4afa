-------------------------- MODULE Interrupts_proofs --------------------------
(***************************************************************************)
(* Proofs about Interrupts and PIC, for any devices, drivers and bounds.   *)
(***************************************************************************)
EXTENDS Interrupts, NaturalFacts, SequenceTheorems, TLAPS

Pair == [mask : SUBSET IRQs, master : Chip, slave : Chip]

\* Both chips are past their initialisation words, and the line of the cascade
\* belongs to no device.
Operating(p) ==
  p \in Pair /\ p.master.init = "none" /\ p.slave.init = "none" /\ 2 \notin p.master.irr

----------------------------------------------------------------------------
(* The chips.                                                              *)

\* The bits of 0x60 + level, one by one.
LEMMA EOIBits ==
  ASSUME NEW level \in Lines
  PROVE  /\ {5, 6} \subseteq EOI(level) /\ 4 \notin EOI(level) /\ 7 \notin EOI(level)
         /\ 0 \in EOI(level) <=> level % 2 = 1
         /\ 1 \in EOI(level) <=> (level \div 2) % 2 = 1
         /\ 2 \in EOI(level) <=> (level \div 4) % 2 = 1
<1>1. Weight(0) = 1 /\ Weight(1) = 2 /\ Weight(2) = 4
  BY DEF Weight
<1>2. /\ 0 \in 0 .. 2 /\ 1 \in 0 .. 2 /\ 2 \in 0 .. 2 /\ 4 \notin 0 .. 2 /\ 7 \notin 0 .. 2
      /\ level \div 1 = level
  BY DEF Lines
<1> QED
  BY <1>1, <1>2 DEF EOI

\* 0x60 + level is read by the chip as the end of the service of that level.
LEMMA EOIEndsLevel ==
  ASSUME NEW level \in Lines
  PROVE  Number(EOI(level) \cap 0 .. 2) = level
<1> DEFINE bits == EOI(level) \cap 0 .. 2
<1>1. /\ 0 \in bits <=> level % 2 = 1
      /\ 1 \in bits <=> (level \div 2) % 2 = 1
      /\ 2 \in bits <=> (level \div 4) % 2 = 1
      /\ 3 \notin bits /\ 4 \notin bits /\ 5 \notin bits /\ 6 \notin bits /\ 7 \notin bits
  BY EOIBits
<1> HIDE DEF bits
<1>2. Weight(0) = 1 /\ Weight(1) = 2 /\ Weight(2) = 4
  BY DEF Weight
<1>3. Number(bits) = (IF 0 \in bits THEN 1 ELSE 0) + (IF 1 \in bits THEN 2 ELSE 0)
                     + (IF 2 \in bits THEN 4 ELSE 0)
  BY <1>1, <1>2 DEF Number
<1>4. Number(bits) = level
  BY <1>1, <1>3 DEF Lines
<1> QED
  BY <1>4 DEF bits

\* The end of an interrupt takes its level out of service, and does nothing else.
LEMMA CommandEOI ==
  ASSUME NEW chip \in Chip, NEW level \in Lines
  PROVE  Command(chip, EOI(level)) = [init |-> chip.init, imr |-> chip.imr,
                                      irr |-> chip.irr, isr |-> chip.isr \ {level}]
<1>1. /\ 4 \notin EOI(level) /\ 7 \notin EOI(level) /\ {5, 6} \subseteq EOI(level)
      /\ Number(EOI(level) \cap 0 .. 2) = level
  BY EOIBits, EOIEndsLevel
<1> QED
  BY <1>1 DEF Command, Chip

\* A byte written to the data port of a chip in operation is its mask.
LEMMA DataMask ==
  ASSUME NEW chip \in Chip, chip.init = "none", NEW byte
  PROVE  Data(chip, byte) =
           [init |-> "none", imr |-> byte, irr |-> chip.irr, isr |-> chip.isr]
BY DEF Data, Chip

\* What each write to a port does to the pair.
LEMMA Outb ==
  ASSUME NEW p \in Pair, NEW byte
  PROVE  /\ outb(p, 32, byte) =
              [mask |-> p.mask, master |-> Command(p.master, byte), slave |-> p.slave]
         /\ outb(p, 33, byte) =
              [mask |-> p.mask, master |-> Data(p.master, byte), slave |-> p.slave]
         /\ outb(p, 160, byte) =
              [mask |-> p.mask, master |-> p.master, slave |-> Command(p.slave, byte)]
         /\ outb(p, 161, byte) =
              [mask |-> p.mask, master |-> p.master, slave |-> Data(p.slave, byte)]
         /\ outb(p, 255, byte) = p
BY DEF outb, Pair

----------------------------------------------------------------------------
(* The driver's operations on the pair.                                    *)

\* The halves of a mask are masks of the chips, and each half is decided by
\* its own interrupts.
LEMMA MaskHalves ==
  ASSUME NEW p, p.mask \subseteq IRQs
  PROVE  /\ PICLower(p) \subseteq Lines /\ PICUpper(p) \subseteq Lines
         /\ \A n \in IRQs : IF n < 8 THEN n \in PICLower(p) <=> n \in p.mask
                            ELSE n - 8 \in PICUpper(p) <=> n \in p.mask
BY DEF PICLower, PICUpper, IRQs, Lines

\* Writing n's half of the mask changes the mask of that chip and nothing else.
LEMMA WritesMask ==
  ASSUME NEW p, Operating(p), NEW n \in IRQs, NEW q, q = WriteMask(p, n)
  PROVE  /\ Operating(q) /\ q.mask = p.mask
         /\ q.master.isr = p.master.isr /\ q.slave.isr = p.slave.isr
         /\ n < 8 => q.master.imr = PICLower(p) /\ q.slave.imr = p.slave.imr
         /\ n >= 8 => q.slave.imr = PICUpper(p) /\ q.master.imr = p.master.imr
<1>1. p \in Pair /\ p.master \in Chip /\ p.slave \in Chip /\ p.mask \subseteq IRQs
      /\ p.master.init = "none" /\ p.slave.init = "none" /\ 2 \notin p.master.irr
  BY DEF Operating, Pair
<1>2. PICLower(p) \subseteq Lines /\ PICUpper(p) \subseteq Lines
  BY <1>1, MaskHalves
<1>3. CASE n >= 8
  <2>1. q = [mask |-> p.mask, master |-> p.master, slave |-> Data(p.slave, PICUpper(p))]
    BY <1>1, <1>3, Outb DEF WriteMask
  <2>2. Data(p.slave, PICUpper(p)) =
          [init |-> "none", imr |-> PICUpper(p), irr |-> p.slave.irr, isr |-> p.slave.isr]
    BY <1>1, DataMask
  <2>3. Data(p.slave, PICUpper(p)) \in Chip
    BY <1>1, <1>2, <2>2 DEF Chip
  <2> QED
    BY <1>1, <1>3, <2>1, <2>2, <2>3 DEF Operating, Pair, IRQs
<1>4. CASE n < 8
  <2>1. q = [mask |-> p.mask, master |-> Data(p.master, PICLower(p)), slave |-> p.slave]
    BY <1>1, <1>4, Outb DEF WriteMask, IRQs
  <2>2. Data(p.master, PICLower(p)) =
          [init |-> "none", imr |-> PICLower(p), irr |-> p.master.irr, isr |-> p.master.isr]
    BY <1>1, DataMask
  <2>3. Data(p.master, PICLower(p)) \in Chip
    BY <1>1, <1>2, <2>2 DEF Chip
  <2> QED
    BY <1>1, <1>4, <2>1, <2>2, <2>3 DEF Operating, Pair, IRQs
<1> QED
  BY <1>3, <1>4 DEF IRQs

\* What MaskAgrees says of the two masks.
Agrees(p) == p.master.imr = PICLower(p) /\ p.slave.imr \in {PICUpper(p), {}}

\* Any change of one interrupt's bit followed by the write of its half.
LEMMA ChangesMask ==
  ASSUME NEW p, Operating(p), NEW n \in IRQs,
         NEW mask \in SUBSET IRQs, mask \ {n} = p.mask \ {n},
         NEW q, q = WriteMask([p EXCEPT !.mask = mask], n)
  PROVE  /\ Operating(q) /\ q.mask = mask
         /\ q.master.isr = p.master.isr /\ q.slave.isr = p.slave.isr
         /\ n < 8 => q.master.imr = PICLower(q) /\ q.slave.imr = p.slave.imr
         /\ n >= 8 => q.slave.imr = PICUpper(q) /\ q.master.imr = p.master.imr
         /\ Agrees(p) => Agrees(q)
<1> DEFINE r == [p EXCEPT !.mask = mask]
<1>1. Operating(r) /\ r.mask = mask /\ r.master = p.master /\ r.slave = p.slave
  BY DEF Operating, Pair
<1> HIDE DEF r
<1>2. q = WriteMask(r, n)
  BY DEF r
<1>3. /\ Operating(q) /\ q.mask = r.mask
      /\ q.master.isr = p.master.isr /\ q.slave.isr = p.slave.isr
      /\ n < 8 => q.master.imr = PICLower(r) /\ q.slave.imr = p.slave.imr
      /\ n >= 8 => q.slave.imr = PICUpper(r) /\ q.master.imr = p.master.imr
  BY <1>1, <1>2, WritesMask
<1>4. PICLower(q) = PICLower(r) /\ PICUpper(q) = PICUpper(r)
  BY <1>3 DEF PICLower, PICUpper
<1>5. n < 8 => p.mask \ Lines = q.mask \ Lines
  BY <1>1, <1>3 DEF Lines, IRQs
<1>6. n >= 8 => p.mask \cap Lines = q.mask \cap Lines
  BY <1>1, <1>3 DEF Lines, IRQs
<1>7. n < 8 => PICUpper(q) = PICUpper(p)
  BY <1>5 DEF PICUpper
<1>8. n >= 8 => PICLower(q) = PICLower(p)
  BY <1>6 DEF PICLower
<1>9. Agrees(p) => Agrees(q)
  BY <1>3, <1>4, <1>7, <1>8 DEF Agrees, IRQs
<1> QED
  BY <1>1, <1>3, <1>4, <1>9

\* PIC_EnableIRQ, in operation.
LEMMA EnableKeeps ==
  ASSUME NEW p, Operating(p), NEW n \in IRQs, NEW q, q = PIC_EnableIRQ(p, n)
  PROVE  /\ Operating(q) /\ q.mask = p.mask \ {n}
         /\ q.master.isr = p.master.isr /\ q.slave.isr = p.slave.isr
         /\ Agrees(p) => Agrees(q)
         /\ n < 8 => q.master.imr = PICLower(q) /\ q.slave.imr = p.slave.imr
<1> DEFINE mask == p.mask \ {n}
<1>1. mask \in SUBSET IRQs /\ mask \ {n} = p.mask \ {n}
  BY DEF Operating, Pair
<1>2. q = WriteMask([p EXCEPT !.mask = mask], n)
  BY DEF PIC_EnableIRQ
<1>3. mask = p.mask \ {n}
  OBVIOUS
<1> HIDE DEF mask
<1> QED
  BY <1>1, <1>2, <1>3, ChangesMask

\* PIC_DisableIRQ, in operation: n is masked at its controller.
LEMMA DisableMasks ==
  ASSUME NEW p, Operating(p), NEW n \in IRQs, NEW q, q = PIC_DisableIRQ(p, n)
  PROVE  /\ Operating(q) /\ q.mask = p.mask \cup {n}
         /\ q.master.isr = p.master.isr /\ q.slave.isr = p.slave.isr
         /\ Agrees(p) => Agrees(q)
         /\ IF n < 8 THEN n \in q.master.imr ELSE n - 8 \in q.slave.imr
<1> DEFINE mask == p.mask \cup {n}
<1>1. mask \in SUBSET IRQs /\ mask \ {n} = p.mask \ {n}
  BY DEF Operating, Pair
<1>2. q = WriteMask([p EXCEPT !.mask = mask], n)
  BY DEF PIC_DisableIRQ
<1>3. mask = p.mask \cup {n}
  OBVIOUS
<1> HIDE DEF mask
<1>4. /\ Operating(q) /\ q.mask = p.mask \cup {n}
      /\ q.master.isr = p.master.isr /\ q.slave.isr = p.slave.isr
      /\ Agrees(p) => Agrees(q)
      /\ n < 8 => q.master.imr = PICLower(q)
      /\ n >= 8 => q.slave.imr = PICUpper(q)
  BY <1>1, <1>2, <1>3, ChangesMask
<1>5. IF n < 8 THEN n \in PICLower(q) ELSE n - 8 \in PICUpper(q)
  BY <1>1, <1>3, <1>4, MaskHalves
<1> QED
  BY <1>4, <1>5 DEF IRQs

\* The line of the master and that of the slave, if any, an interrupt is in
\* service on.
InService(n) == IF n < 8 THEN <<{n}, {}>> ELSE <<{2}, {n - 8}>>

\* The end of the service of n, at both controllers when it is the slave's.
LEMMA AcknowledgeEnds ==
  ASSUME NEW p, Operating(p), NEW n \in IRQs, NEW q, q = Acknowledge(p, n)
  PROVE  /\ Operating(q) /\ q.mask = p.mask
         /\ q.master.imr = p.master.imr /\ q.slave.imr = p.slave.imr
         /\ q.master.isr = p.master.isr \ InService(n)[1]
         /\ q.slave.isr = p.slave.isr \ InService(n)[2]
<1>1. p \in Pair /\ p.master \in Chip /\ p.slave \in Chip
      /\ p.master.init = "none" /\ p.slave.init = "none" /\ 2 \notin p.master.irr
  BY DEF Operating, Pair
<1>2. CASE n >= 8
  <2> DEFINE level == n - 8
             ended == [init |-> p.slave.init, imr |-> p.slave.imr,
                       irr |-> p.slave.irr, isr |-> p.slave.isr \ {level}]
             first == [mask |-> p.mask, master |-> p.master, slave |-> ended]
             cascade == [init |-> p.master.init, imr |-> p.master.imr,
                         irr |-> p.master.irr, isr |-> p.master.isr \ {2}]
  <2>1. level \in Lines /\ 2 \in Lines /\ ended \in Chip /\ cascade \in Chip
    BY <1>1, <1>2 DEF Lines, IRQs, Chip
  <2>2. Command(p.slave, EOI(level)) = ended /\ Command(p.master, EOI(2)) = cascade
    BY <1>1, <2>1, CommandEOI
  <2>3. outb(p, 160, EOI(level)) = first
    BY <1>1, <2>2, Outb
  <2>4. first \in Pair
    BY <1>1, <2>1 DEF Pair
  <2>5. q = outb(first, 32, EOI(2))
    BY <1>2, <2>3 DEF Acknowledge
  <2>6. \A f \in Pair : outb(f, 32, EOI(2)) =
          [mask |-> f.mask, master |-> Command(f.master, EOI(2)), slave |-> f.slave]
    BY Outb
  <2>7. q = [mask |-> p.mask, master |-> cascade, slave |-> ended]
    BY <2>2, <2>4, <2>5, <2>6
  <2> QED
    BY <1>1, <1>2, <2>1, <2>7 DEF Operating, Pair, InService, IRQs
<1>3. CASE n < 8
  <2> DEFINE ended == [init |-> p.master.init, imr |-> p.master.imr,
                       irr |-> p.master.irr, isr |-> p.master.isr \ {n}]
  <2>1. n \in Lines /\ ended \in Chip
    BY <1>1, <1>3 DEF Lines, IRQs, Chip
  <2>2. q = outb(p, 32, EOI(n))
    BY <1>3 DEF Acknowledge, IRQs
  <2>3. q = [mask |-> p.mask, master |-> ended, slave |-> p.slave]
    BY <1>1, <2>1, <2>2, Outb, CommandEOI
  <2> QED
    BY <1>1, <1>3, <2>1, <2>3 DEF Operating, Pair, InService, IRQs
<1> QED
  BY <1>2, <1>3 DEF IRQs

\* PIC_MaskAndAcknowledge masks n and ends its service.
LEMMA MaskAndAcknowledgeEnds ==
  ASSUME NEW p, Operating(p), NEW n \in IRQs, NEW q, q = PIC_MaskAndAcknowledge(p, n)
  PROVE  /\ Operating(q)
         /\ q.master.isr = p.master.isr \ InService(n)[1]
         /\ q.slave.isr = p.slave.isr \ InService(n)[2]
         /\ Agrees(p) => Agrees(q)
         /\ IF n < 8 THEN n \in q.master.imr ELSE n - 8 \in q.slave.imr
<1> DEFINE r == PIC_DisableIRQ(p, n)
<1>1. /\ Operating(r)
      /\ r.master.isr = p.master.isr /\ r.slave.isr = p.slave.isr
      /\ Agrees(p) => Agrees(r)
      /\ IF n < 8 THEN n \in r.master.imr ELSE n - 8 \in r.slave.imr
  BY DisableMasks
<1>2. q = Acknowledge(r, n)
  BY DEF PIC_MaskAndAcknowledge
<1> HIDE DEF r
<1>3. /\ Operating(q) /\ q.mask = r.mask
      /\ q.master.imr = r.master.imr /\ q.slave.imr = r.slave.imr
      /\ q.master.isr = r.master.isr \ InService(n)[1]
      /\ q.slave.isr = r.slave.isr \ InService(n)[2]
  BY <1>1, <1>2, AcknowledgeEnds
<1>4. Agrees(r) => Agrees(q)
  BY <1>3 DEF Agrees, PICLower, PICUpper
<1> QED
  BY <1>1, <1>3, <1>4

\* A chip after its four initialisation words.
Fresh == [init |-> "none", imr |-> {}, irr |-> {}, isr |-> {}]

\* The four words leave a chip fresh, whatever the second and third say.
LEMMA WordsMakeFresh ==
  ASSUME NEW p \in Pair, NEW vector, NEW cascade
  PROVE  /\ InitialisationWords(p, 32, 33, vector, cascade) =
              [mask |-> p.mask, master |-> Fresh, slave |-> p.slave]
         /\ InitialisationWords(p, 160, 161, vector, cascade) =
              [mask |-> p.mask, master |-> p.master, slave |-> Fresh]
<1> DEFINE chip(init) == [init |-> init, imr |-> {}, irr |-> {}, isr |-> {}]
           words(first) == Data(Data(Data(first, vector), cascade), {0})
<1>1. \A c \in Chip : Command(c, {0, 4}) = chip("icw2")
  BY DEF Command
<1>2. \A byte : /\ Data(chip("icw2"), byte) = chip("icw3")
                /\ Data(chip("icw3"), byte) = chip("icw4")
                /\ Data(chip("icw4"), byte) = chip("none")
  BY DEF Data
<1>3. chip("icw2") \in Chip /\ chip("icw3") \in Chip /\ chip("icw4") \in Chip
      /\ p.mask \in SUBSET IRQs /\ p.master \in Chip /\ p.slave \in Chip
  BY DEF Chip, Pair
<1>4. chip("none") = Fresh
  BY DEF Fresh
<1> HIDE DEF chip
<1> DEFINE Master(c) == [mask |-> p.mask, master |-> c, slave |-> p.slave]
           Slave(c) == [mask |-> p.mask, master |-> p.master, slave |-> c]
<1>5. ASSUME NEW c \in Chip, NEW byte
      PROVE  outb(Master(c), 33, byte) = Master(Data(c, byte))
             /\ outb(Slave(c), 161, byte) = Slave(Data(c, byte))
  <2>1. Master(c) \in Pair /\ Slave(c) \in Pair
    BY <1>3 DEF Pair
  <2> QED
    BY <2>1 DEF outb
<1>6. outb(p, 32, {0, 4}) = Master(chip("icw2")) /\ outb(p, 160, {0, 4}) = Slave(chip("icw2"))
  BY <1>1, <1>3, Outb
<1> HIDE DEF Master, Slave
<1>7. \A byte : /\ outb(Master(chip("icw2")), 33, byte) = Master(chip("icw3"))
                /\ outb(Master(chip("icw3")), 33, byte) = Master(chip("icw4"))
                /\ outb(Master(chip("icw4")), 33, byte) = Master(chip("none"))
  BY <1>2, <1>3, <1>5
<1>8. \A byte : /\ outb(Slave(chip("icw2")), 161, byte) = Slave(chip("icw3"))
                /\ outb(Slave(chip("icw3")), 161, byte) = Slave(chip("icw4"))
                /\ outb(Slave(chip("icw4")), 161, byte) = Slave(chip("none"))
  BY <1>2, <1>3, <1>5
<1>9. /\ InitialisationWords(p, 32, 33, vector, cascade) = Master(chip("none"))
      /\ InitialisationWords(p, 160, 161, vector, cascade) = Slave(chip("none"))
  BY <1>6, <1>7, <1>8 DEF InitialisationWords
<1> QED
  BY <1>4, <1>9 DEF Master, Slave

\* PIC_Init with everything masked: its last two writes go to port 255, and
\* both chips are left unmasked.
THEOREM PICInitUnmasks ==
  ASSUME NEW p, Operating(p), p.mask = IRQs
  PROVE  PIC_Init(p) = [mask |-> IRQs, master |-> Fresh, slave |-> Fresh]
<1> DEFINE masked(c) == [init |-> "none", imr |-> Lines, irr |-> c.irr, isr |-> c.isr]
           m1 == [mask |-> IRQs, master |-> masked(p.master), slave |-> p.slave]
           m2 == [mask |-> IRQs, master |-> masked(p.master), slave |-> masked(p.slave)]
           s1 == [mask |-> IRQs, master |-> Fresh, slave |-> masked(p.slave)]
           s2 == [mask |-> IRQs, master |-> Fresh, slave |-> Fresh]
<1>1. /\ p \in Pair /\ p.master \in Chip /\ p.slave \in Chip
      /\ p.master.init = "none" /\ p.slave.init = "none"
  BY DEF Operating, Pair
<1>2. PICLower(p) = Lines /\ PICUpper(p) = Lines
  <2>1. PICLower(p) = Lines
    BY DEF PICLower, IRQs, Lines
  <2>2. \A i \in Lines : i + 8 \in IRQs \ Lines /\ i = (i + 8) - 8
    BY DEF IRQs, Lines
  <2>3. \A i \in IRQs \ Lines : i - 8 \in Lines
    BY DEF IRQs, Lines
  <2> QED
    BY <2>1, <2>2, <2>3 DEF PICUpper
<1>3. Number(Lines) = 255
  BY DEF Number, Weight, Lines
<1>4. m1 \in Pair /\ m2 \in Pair /\ s1 \in Pair /\ s2 \in Pair
  BY <1>1 DEF Pair, Chip, Fresh
<1> HIDE DEF masked
<1>5. outb(p, 33, PICLower(p)) = m1
  <2>1. Data(p.master, Lines) = masked(p.master)
    BY <1>1, DataMask DEF masked
  <2> QED
    BY <1>1, <1>2, <2>1, Outb
<1>6. outb(m1, 161, PICUpper(p)) = m2
  <2>1. Data(p.slave, Lines) = masked(p.slave)
    BY <1>1, DataMask DEF masked
  <2>2. \A f \in Pair : outb(f, 161, Lines) =
          [mask |-> f.mask, master |-> f.master, slave |-> Data(f.slave, Lines)]
    BY Outb
  <2> QED
    BY <1>2, <1>4, <2>1, <2>2
<1>7. InitialisationWords(m2, 32, 33, {5}, {2}) = s1
  BY <1>4, WordsMakeFresh
<1>8. InitialisationWords(s1, 160, 161, {3, 5}, {1}) = s2
  BY <1>4, WordsMakeFresh
<1>9. \A byte : outb(s2, 255, byte) = s2
  BY <1>4, Outb
<1> HIDE DEF m1, m2, s1, s2
<1>10. PIC_Init(p) = s2
  BY <1>2, <1>3, <1>5, <1>6, <1>7, <1>8, <1>9 DEF PIC_Init
<1> QED
  BY <1>10 DEF s2

----------------------------------------------------------------------------
(* The devices and the processor.                                          *)

\* A request only sets a latch.
LEMMA RaiseLatches ==
  ASSUME NEW p, Operating(p), NEW n \in IRQs \ {2}, NEW q, q = Raise(p, n)
  PROVE  /\ Operating(q) /\ q.mask = p.mask
         /\ q.master.imr = p.master.imr /\ q.master.isr = p.master.isr
         /\ q.slave.imr = p.slave.imr /\ q.slave.isr = p.slave.isr
<1>1. n < 8 => n \in Lines /\ n # 2
  BY DEF IRQs, Lines
<1>2. ~(n < 8) => n - 8 \in Lines
  BY DEF IRQs, Lines
<1>3. CASE n < 8
  <2>1. q = [p EXCEPT !.master.irr = p.master.irr \cup {n}]
    BY <1>3 DEF Raise
  <2> QED
    BY <1>1, <1>3, <2>1 DEF Operating, Pair, Chip
<1>4. CASE ~(n < 8)
  <2>1. q = [p EXCEPT !.slave.irr = p.slave.irr \cup {n - 8}]
    BY <1>4 DEF Raise
  <2> QED
    BY <1>2, <1>4, <2>1 DEF Operating, Pair, Chip
<1> QED
  BY <1>3, <1>4

\* The priority resolver picks one of the lines that are ready.
LEMMA FirstIsReady ==
  ASSUME NEW ready \in SUBSET Lines, ready # {}
  PROVE  First(ready) \in ready
<1>1. \E i \in ready : \A j \in ready : i <= j
  <2>1. ready \in SUBSET Nat
    BY DEF Lines
  <2> QED
    BY <2>1, LeastNumber
<1> QED
  BY <1>1 DEF First

\* A chip whose line's latch moves into service.
Taken(chip, line) == [init |-> chip.init, imr |-> chip.imr,
                      irr |-> chip.irr \ {line}, isr |-> chip.isr \cup {line}]

\* The update of either chip in Acknowledged, as a record.
LEMMA LatchMoves ==
  ASSUME NEW p \in Pair, NEW line
  PROVE  /\ [p EXCEPT !.master.irr = @ \ {line}, !.master.isr = @ \cup {line}] =
              [mask |-> p.mask, master |-> Taken(p.master, line), slave |-> p.slave]
         /\ [p EXCEPT !.slave.irr = @ \ {line}, !.slave.isr = @ \cup {line}] =
              [mask |-> p.mask, master |-> p.master, slave |-> Taken(p.slave, line)]
<1> DEFINE cleared(chip) == [init |-> chip.init, imr |-> chip.imr,
                             irr |-> chip.irr \ {line}, isr |-> chip.isr]
           m == [mask |-> p.mask, master |-> cleared(p.master), slave |-> p.slave]
           s == [mask |-> p.mask, master |-> p.master, slave |-> cleared(p.slave)]
<1>1. p.master \in Chip /\ p.slave \in Chip
  BY DEF Pair
<1>2. \A chip \in Chip : [chip EXCEPT !.irr = chip.irr \ {line}] = cleared(chip)
  BY DEF Chip
<1>3. [p EXCEPT !.master = cleared(p.master)] = m /\ [p EXCEPT !.slave = cleared(p.slave)] = s
  BY DEF Pair
<1>4. /\ [p EXCEPT !.master.irr = p.master.irr \ {line}] =
           [p EXCEPT !.master = [p.master EXCEPT !.irr = p.master.irr \ {line}]]
      /\ [p EXCEPT !.slave.irr = p.slave.irr \ {line}] =
           [p EXCEPT !.slave = [p.slave EXCEPT !.irr = p.slave.irr \ {line}]]
  OBVIOUS
<1>5. [p EXCEPT !.master.irr = @ \ {line}] = m /\ [p EXCEPT !.slave.irr = @ \ {line}] = s
  BY <1>1, <1>2, <1>3, <1>4
<1>6. /\ [m EXCEPT !.master.isr = p.master.isr \cup {line}] =
           [mask |-> p.mask, master |-> Taken(p.master, line), slave |-> p.slave]
      /\ [s EXCEPT !.slave.isr = p.slave.isr \cup {line}] =
           [mask |-> p.mask, master |-> p.master, slave |-> Taken(p.slave, line)]
  <2>1. ASSUME NEW chip
        PROVE  [cleared(chip) EXCEPT !.isr = chip.isr \cup {line}] = Taken(chip, line)
    <3>1. ASSUME NEW a, NEW b, NEW c, NEW d, NEW e
          PROVE  [[init |-> a, imr |-> b, irr |-> c, isr |-> d] EXCEPT !.isr = e] =
                   [init |-> a, imr |-> b, irr |-> c, isr |-> e]
      OBVIOUS
    <3> QED
      BY <3>1 DEF Taken, cleared
  <2>2. m.master = cleared(p.master) /\ s.slave = cleared(p.slave)
    OBVIOUS
  <2>3. ASSUME NEW chip
        PROVE  /\ [m EXCEPT !.master = chip] =
                    [mask |-> p.mask, master |-> chip, slave |-> p.slave]
               /\ [s EXCEPT !.slave = chip] =
                    [mask |-> p.mask, master |-> p.master, slave |-> chip]
    OBVIOUS
  <2> HIDE DEF m, s, cleared
  <2>4. /\ [m EXCEPT !.master.isr = p.master.isr \cup {line}] =
             [m EXCEPT !.master = [m.master EXCEPT !.isr = p.master.isr \cup {line}]]
        /\ [s EXCEPT !.slave.isr = p.slave.isr \cup {line}] =
             [s EXCEPT !.slave = [s.slave EXCEPT !.isr = p.slave.isr \cup {line}]]
    OBVIOUS
  <2> QED
    BY <2>1, <2>2, <2>3, <2>4
<1>7. /\ [p EXCEPT !.master.irr = @ \ {line}, !.master.isr = @ \cup {line}] =
           [m EXCEPT !.master.isr = p.master.isr \cup {line}]
      /\ [p EXCEPT !.slave.irr = @ \ {line}, !.slave.isr = @ \cup {line}] =
           [s EXCEPT !.slave.isr = p.slave.isr \cup {line}]
  BY <1>5
<1> QED
  BY <1>6, <1>7

\* With nothing in service, the interrupt that is taken is an interrupt of a
\* device, it is in service on exactly its lines, and nothing else changes but
\* its latches.
LEMMA TakenIsInService ==
  ASSUME NEW p, Operating(p), p.master.isr = {}, p.slave.isr = {},
         Next_IRQ(p) # -1, NEW q, q = Acknowledged(p)
  PROVE  /\ Next_IRQ(p) \in IRQs /\ Operating(q) /\ q.mask = p.mask
         /\ q.master.imr = p.master.imr /\ q.slave.imr = p.slave.imr
         /\ q.master.isr = InService(Next_IRQ(p))[1]
         /\ q.slave.isr = InService(Next_IRQ(p))[2]
<1> DEFINE n == Next_IRQ(p)
<1>1. /\ p \in Pair /\ p.master \in Chip /\ p.slave \in Chip
      /\ p.master.irr \subseteq Lines /\ p.slave.irr \subseteq Lines
      /\ 2 \in Lines /\ 2 \notin p.master.irr
  BY DEF Operating, Pair, Chip, Lines
<1>2. SlaveReady(p) \subseteq Lines /\ MasterReady(p) \subseteq Lines
      /\ MasterReady(p) \subseteq p.master.irr \cup (IF SlaveReady(p) # {} THEN {2} ELSE {})
  BY <1>1 DEF SlaveReady, MasterReady, Ready
<1>3. MasterReady(p) # {} /\ First(MasterReady(p)) \in MasterReady(p)
  BY <1>2, FirstIsReady DEF Next_IRQ
<1>4. CASE First(MasterReady(p)) = 2
  <2>1. First(SlaveReady(p)) \in Lines
    BY <1>1, <1>2, <1>3, <1>4, FirstIsReady
  <2>2. n = 8 + First(SlaveReady(p))
    BY <1>3, <1>4 DEF Next_IRQ
  <2>3. n \in IRQs /\ n - 8 \in Lines /\ ~(n < 8)
    BY <2>1, <2>2 DEF IRQs, Lines
  <2> HIDE DEF n
  <2> DEFINE up == [mask |-> p.mask, master |-> Taken(p.master, 2), slave |-> p.slave]
  <2>4. Taken(p.master, 2) \in Chip /\ Taken(p.slave, n - 8) \in Chip /\ up \in Pair
    BY <1>1, <2>3 DEF Taken, Chip, Pair
  <2>5. [p EXCEPT !.master.irr = @ \ {2}, !.master.isr = @ \cup {2}] = up
    BY <1>1, LatchMoves
  <2>6. [up EXCEPT !.slave.irr = @ \ {n - 8}, !.slave.isr = @ \cup {n - 8}] =
          [mask |-> p.mask, master |-> Taken(p.master, 2), slave |-> Taken(p.slave, n - 8)]
    BY <2>4, LatchMoves
  <2>7. q = [mask |-> p.mask, master |-> Taken(p.master, 2), slave |-> Taken(p.slave, n - 8)]
    BY <2>3, <2>5, <2>6 DEF Acknowledged, n
  <2> QED
    BY <1>1, <2>3, <2>4, <2>7 DEF n, Operating, Pair, InService, Taken
<1>5. CASE First(MasterReady(p)) # 2
  <2>1. n = First(MasterReady(p))
    BY <1>3, <1>5 DEF Next_IRQ
  <2>2. n \in IRQs /\ n \in Lines /\ n < 8
    BY <1>2, <1>3, <2>1 DEF IRQs, Lines
  <2> HIDE DEF n
  <2>3. Taken(p.master, n) \in Chip
    BY <1>1, <2>2 DEF Taken, Chip
  <2>4. q = [mask |-> p.mask, master |-> Taken(p.master, n), slave |-> p.slave]
    BY <1>1, <2>2, LatchMoves DEF Acknowledged, n
  <2> QED
    BY <1>1, <2>2, <2>3, <2>4 DEF n, Operating, Pair, InService, Taken
<1> QED
  BY <1>4, <1>5

----------------------------------------------------------------------------
(* The inductive invariant.                                                *)

ThreadPCs == {"PIC_Init", "Timer_Init", "done", "sti", "idle", "attach", "attach_cli",
              "attach_mm", "attach_link", "attach_sti", "attach_unlock",
              "timer_link", "timer_unlock"}
FatalPCs == {"none", "lock", "entry", "halt", "halted"}
IrqPCs == {"none", "lock", "look", "no_handler", "call", "timer_lock", "timer_walk",
           "unhandled", "enable", "release"}

\* Where the thread is with interrupts on.
Interruptible == {"idle", "attach", "attach_cli", "attach_unlock", "timer_link", "timer_unlock"}

Handlers == Drivers \cup {Timer_Handler}

\* Where the thread and the interrupt can be together, and what the flags say.
Control ==
  /\ thread \in [pc : ThreadPCs, irq : IRQs, handler : Handlers, fatal : FatalPCs]
  /\ irq \in [pc : IrqPCs, n : IRQs, left : Seq(Handlers)]
  /\ initDone <=> thread.pc \notin {"PIC_Init", "Timer_Init", "done"}
  /\ ~initDone => \A l \in Locks : ~lock[l]
  /\ iflag <=> irq.pc = "none" /\ thread.pc \in Interruptible /\ thread.fatal # "halted"
  /\ irq.pc # "none" => thread.pc \in Interruptible
  /\ thread.fatal # "none" => thread.pc \in {"idle", "attach_link", "timer_link"}

\* The chips and the mask, as far as Kernel_Main has got.
Controllers ==
  /\ Operating(pic)
  /\ thread.pc = "PIC_Init" => pic.mask = IRQs
  /\ thread.pc = "Timer_Init" =>
       pic.mask = IRQs /\ pic.master.imr = {} /\ pic.slave.imr = {}
  /\ thread.pc \notin {"PIC_Init", "Timer_Init"} => Agrees(pic)

\* Nothing is in service but the interrupt that is taken, up to its
\* acknowledgement; from there to its enabling it is masked.
Service ==
  /\ irq.pc \in {"none", "call", "timer_lock", "timer_walk", "unhandled", "enable"} =>
       pic.master.isr = {} /\ pic.slave.isr = {}
  /\ irq.pc \in {"lock", "look"} =>
       pic.master.isr = InService(irq.n)[1] /\ pic.slave.isr = InService(irq.n)[2]
  /\ irq.pc \in {"call", "timer_lock", "timer_walk", "unhandled", "enable"} =>
       IF irq.n < 8 THEN irq.n \in pic.master.imr ELSE irq.n - 8 \in pic.slave.imr

IInv ==
  /\ TypeOK /\ Control /\ Controllers /\ Service
  /\ LocksAccounted /\ ListsNotTorn

\* The first state.
LEMMA InitInv == Init => IInv
<1> SUFFICES ASSUME Init PROVE IInv
  OBVIOUS
<1> USE InterruptsAssumption
<1>1. PowerOn.mask = IRQs /\ PowerOn.master = Fresh /\ PowerOn.slave = Fresh
      /\ Fresh \in Chip /\ PowerOn \in Pair
  BY DEF PowerOn, Fresh, Chip, Pair
<1>2. Operating(pic) /\ pic.mask = IRQs /\ pic.master.isr = {} /\ pic.slave.isr = {}
  BY <1>1 DEF Init, Operating, Fresh
<1>3. 0 \in IRQs /\ <<>> \in Seq(Handlers)
  BY DEF IRQs
<1>4. TypeOK
  BY <1>2, <1>3 DEF Init, TypeOK, NotInIrq, Operating, Pair, Handlers
<1>5. Control
  BY <1>3 DEF Init, Control, NotInIrq, Handlers, ThreadPCs, FatalPCs, IrqPCs, Interruptible
<1>6. Controllers
  BY <1>2 DEF Init, Controllers
<1>7. Service
  BY <1>2 DEF Init, Service, NotInIrq
<1>8. LocksAccounted /\ ListsNotTorn
  BY DEF Init, LocksAccounted, ListsNotTorn, Serving, Logging, Attaching, NotInIrq
<1> QED
  BY <1>4, <1>5, <1>6, <1>7, <1>8 DEF IInv

\* A step of the thread that leaves the controllers and the interrupt alone.
LEMMA ThreadKeeps ==
  ASSUME IInv, irq.pc = "none", irq' = irq, pic' = pic,
         thread.pc \notin {"PIC_Init", "Timer_Init"},
         thread'.pc \notin {"PIC_Init", "Timer_Init"}
  PROVE  Controllers' /\ Service'
BY DEF IInv, Controllers, Service

\* Kernel_Main up to its idle loop.
LEMMA BootInv ==
  ASSUME IInv, InitController \/ InitTimer \/ InitDone \/ StartInterrupts
  PROVE  IInv'
<1> USE InterruptsAssumption
<1>1. CASE InitController
  <2>1. pic' = [mask |-> IRQs, master |-> Fresh, slave |-> Fresh]
    BY <1>1, PICInitUnmasks DEF IInv, InitController, At, Controllers
  <2>2. pic' \in Pair /\ Operating(pic')
    BY <2>1 DEF Operating, Pair, Chip, Fresh
  <2>3. thread' = [thread EXCEPT !.pc = "Timer_Init"] /\ thread.pc = "PIC_Init" /\ irq.pc = "none"
        /\ UNCHANGED <<handlers, timers, lock, initDone, iflag, irq>>
    BY <1>1 DEF InitController, Goto, At
  <2>4. thread'.pc = "Timer_Init" /\ thread'.irq = thread.irq /\ thread'.fatal = thread.fatal
        /\ thread' \in [pc : ThreadPCs, irq : IRQs, handler : Handlers, fatal : FatalPCs]
    BY <2>3 DEF IInv, Control, ThreadPCs
  <2>5. TypeOK'
    BY <2>2, <2>3, <2>4 DEF IInv, TypeOK, Pair
  <2>6. Control'
    BY <2>3, <2>4 DEF IInv, Control, Interruptible
  <2>7. Controllers'
    BY <2>1, <2>2, <2>4 DEF Controllers, Fresh
  <2>8. Service'
    BY <2>1, <2>3 DEF Service, Fresh
  <2>9. LocksAccounted' /\ ListsNotTorn'
    BY <2>3, <2>4 DEF IInv, Control, LocksAccounted, ListsNotTorn, Serving, Logging, Attaching
  <2> QED
    BY <2>5, <2>6, <2>7, <2>8, <2>9 DEF IInv
<1>2. CASE InitTimer
  <2>1. /\ irq.pc = "none" /\ thread.pc = "Timer_Init" /\ 0 \in IRQs
        /\ pic' = PIC_EnableIRQ(pic, 0) /\ thread' = [thread EXCEPT !.pc = "done"]
        /\ handlers' = [handlers EXCEPT ![0] = <<Timer_Handler>> \o @]
        /\ UNCHANGED <<timers, lock, initDone, iflag, irq>>
    BY <1>2 DEF InitTimer, Goto, At, IRQs
  <2>2. thread'.pc = "done" /\ thread'.irq = thread.irq /\ thread'.fatal = thread.fatal
        /\ thread' \in [pc : ThreadPCs, irq : IRQs, handler : Handlers, fatal : FatalPCs]
    BY <2>1 DEF IInv, Control, ThreadPCs
  <2>3. /\ Operating(pic') /\ pic'.mask = pic.mask \ {0}
        /\ pic'.master.isr = pic.master.isr /\ pic'.slave.isr = pic.slave.isr
        /\ pic'.master.imr = PICLower(pic') /\ pic'.slave.imr = {}
    BY <2>1, EnableKeeps DEF IInv, Controllers
  <2>4. handlers' \in [IRQs -> Seq(Handlers)]
    <3>1. <<Timer_Handler>> \in Seq(Handlers) /\ handlers[0] \in Seq(Handlers)
      BY <2>1 DEF IInv, TypeOK, Handlers
    <3>2. <<Timer_Handler>> \o handlers[0] \in Seq(Handlers)
      BY <3>1, ConcatProperties
    <3> QED
      BY <2>1, <3>2 DEF IInv, TypeOK, Handlers
  <2>5. TypeOK'
    BY <2>1, <2>2, <2>3, <2>4 DEF IInv, TypeOK, Operating, Pair, Handlers
  <2>6. Control'
    BY <2>1, <2>2 DEF IInv, Control, Interruptible
  <2>7. Controllers'
    BY <2>2, <2>3 DEF Controllers, Agrees
  <2>8. Service'
    BY <2>1, <2>3 DEF IInv, Service
  <2>9. LocksAccounted' /\ ListsNotTorn'
    BY <2>1, <2>2 DEF IInv, Control, LocksAccounted, ListsNotTorn, Serving, Logging, Attaching
  <2> QED
    BY <2>5, <2>6, <2>7, <2>8, <2>9 DEF IInv
<1>3. CASE InitDone \/ StartInterrupts
  <2>1. /\ irq.pc = "none" /\ UNCHANGED <<pic, handlers, timers, lock, irq>>
        /\ \/ /\ thread.pc = "done" /\ thread' = [thread EXCEPT !.pc = "sti"]
              /\ initDone' = TRUE /\ iflag' = iflag
           \/ /\ thread.pc = "sti" /\ thread' = [thread EXCEPT !.pc = "idle"]
              /\ initDone' = initDone /\ iflag' = TRUE
    BY <1>3 DEF InitDone, StartInterrupts, Goto, At
  <2>2. /\ thread'.pc = IF thread.pc = "done" THEN "sti" ELSE "idle"
        /\ thread'.irq = thread.irq /\ thread'.fatal = thread.fatal
        /\ thread' \in [pc : ThreadPCs, irq : IRQs, handler : Handlers, fatal : FatalPCs]
    BY <2>1 DEF IInv, Control, ThreadPCs
  <2>3. Controllers' /\ Service'
    BY <2>1, <2>2, ThreadKeeps
  <2>4. TypeOK'
    BY <2>1, <2>2 DEF IInv, TypeOK
  <2>5. Control'
    BY <2>1, <2>2 DEF IInv, Control, Interruptible
  <2>6. LocksAccounted' /\ ListsNotTorn'
    BY <2>1, <2>2 DEF IInv, TypeOK, Control, LocksAccounted, ListsNotTorn, Serving,
               Logging, Attaching, Locks
  <2> QED
    BY <2>3, <2>4, <2>5, <2>6 DEF IInv
<1> QED
  BY <1>1, <1>2, <1>3

\* Drivers: the steps of the thread that attach a handler or a timer.
LEMMA AttachInv ==
  ASSUME IInv,
         \/ \E n \in Devices, h \in Drivers : AttachHandler(n, h)
         \/ AttachLock \/ AttachCli \/ AttachMM \/ AttachSti \/ AttachUnlock
         \/ AttachTimer \/ TimerUnlock
  PROVE  IInv'
<1> USE InterruptsAssumption
<1>1. irq.pc = "none" /\ irq' = irq /\ pic' = pic /\ handlers' = handlers
      /\ timers' = timers /\ initDone' = initDone /\ thread.fatal = "none"
  BY DEF AttachHandler, AttachLock, AttachCli, AttachMM, AttachSti, AttachUnlock,
         AttachTimer, TimerUnlock, At
<1>2. /\ thread.pc \in {"idle", "attach", "attach_cli", "attach_mm", "attach_sti",
                        "attach_unlock", "timer_unlock"}
      /\ thread'.pc \in {"attach", "attach_cli", "attach_mm", "attach_link",
                         "attach_unlock", "idle", "timer_link"}
      /\ thread'.irq \in IRQs /\ thread'.fatal = thread.fatal
      /\ thread' \in [pc : ThreadPCs, irq : IRQs, handler : Handlers, fatal : FatalPCs]
  <2>1. CASE \E n \in Devices, h \in Drivers : AttachHandler(n, h)
    <3>1. PICK n \in Devices, h \in Drivers : AttachHandler(n, h)
      BY <2>1
    <3>2. n \in IRQs /\ h \in Handlers
      BY DEF Handlers
    <3> QED
      BY <3>1, <3>2 DEF AttachHandler, At, ThreadPCs, IInv, Control
  <2>2. CASE ~\E n \in Devices, h \in Drivers : AttachHandler(n, h)
    <3>1. PICK pc \in {"attach_cli", "attach_mm", "attach_link", "attach_unlock", "idle",
                       "timer_link"} : Goto(pc)
      BY <2>2 DEF AttachLock, AttachCli, AttachMM, AttachSti, AttachUnlock, AttachTimer,
                  TimerUnlock
    <3>2. thread' = [thread EXCEPT !.pc = pc] /\ pc \in ThreadPCs
      BY <3>1 DEF Goto, ThreadPCs
    <3>3. thread.pc \in {"idle", "attach", "attach_cli", "attach_mm", "attach_sti",
                         "attach_unlock", "timer_unlock"}
      BY <2>2 DEF AttachLock, AttachCli, AttachMM, AttachSti, AttachUnlock, AttachTimer,
                  TimerUnlock, At
    <3> QED
      BY <3>1, <3>2, <3>3 DEF IInv, Control
  <2> QED
    BY <2>1, <2>2
<1>3. initDone
  BY <1>2 DEF IInv, Control
<1>4. \/ thread.pc = "idle" /\ thread'.pc = "attach" /\ lock' = lock /\ iflag' = iflag
      \/ thread.pc = "attach" /\ thread'.pc = "attach_cli" /\ iflag' = iflag
         /\ ~lock["interrupt"] /\ lock' = [lock EXCEPT !["interrupt"] = TRUE]
      \/ thread.pc = "attach_cli" /\ thread'.pc = "attach_mm" /\ lock' = lock /\ iflag' = FALSE
      \/ thread.pc = "attach_mm" /\ thread'.pc = "attach_link" /\ iflag' = iflag
         /\ ~lock["mm"] /\ lock' = [lock EXCEPT !["mm"] = TRUE]
      \/ thread.pc = "attach_sti" /\ thread'.pc = "attach_unlock" /\ lock' = lock /\ iflag' = TRUE
      \/ thread.pc = "attach_unlock" /\ thread'.pc = "idle" /\ iflag' = iflag
         /\ lock' = [lock EXCEPT !["interrupt"] = FALSE]
      \/ thread.pc = "idle" /\ thread'.pc = "timer_link" /\ iflag' = iflag
         /\ ~lock["timer"] /\ lock' = [lock EXCEPT !["timer"] = TRUE]
      \/ thread.pc = "timer_unlock" /\ thread'.pc = "idle" /\ iflag' = iflag
         /\ lock' = [lock EXCEPT !["timer"] = FALSE]
  <2>1. ASSUME NEW l \in Locks
        PROVE  /\ Lock(l) => ~lock[l] /\ lock' = [lock EXCEPT ![l] = TRUE]
               /\ Unlock(l) => lock' = [lock EXCEPT ![l] = FALSE]
    BY <1>3 DEF Lock, Unlock, TestAndSet
  <2>2. "interrupt" \in Locks /\ "timer" \in Locks /\ "mm" \in Locks
    BY DEF Locks
  <2>3. \A pc : Goto(pc) => thread'.pc = pc
    BY DEF Goto, IInv, Control
  <2>4. CASE \E n \in Devices, h \in Drivers : AttachHandler(n, h)
    BY <2>4 DEF AttachHandler, At, IInv, Control
  <2>5. CASE AttachLock
    BY <2>1, <2>2, <2>3, <2>5 DEF AttachLock, At
  <2>6. CASE AttachCli
    BY <1>3, <2>3, <2>6 DEF AttachCli, At
  <2>7. CASE AttachMM
    BY <2>1, <2>2, <2>3, <2>7 DEF AttachMM, At
  <2>8. CASE AttachSti
    BY <1>3, <2>3, <2>8 DEF AttachSti, At
  <2>9. CASE AttachUnlock
    BY <2>1, <2>2, <2>3, <2>9 DEF AttachUnlock, At
  <2>10. CASE AttachTimer
    BY <2>1, <2>2, <2>3, <2>10 DEF AttachTimer, At
  <2>11. CASE TimerUnlock
    BY <2>1, <2>2, <2>3, <2>11 DEF TimerUnlock, At
  <2> QED
    BY <2>4, <2>5, <2>6, <2>7, <2>8, <2>9, <2>10, <2>11
<1>5. Controllers' /\ Service'
  BY <1>1, <1>2, ThreadKeeps
<1>6. lock \in [Locks -> BOOLEAN] /\ lock' \in [Locks -> BOOLEAN]
      /\ "interrupt" \in Locks /\ "timer" \in Locks /\ "mm" \in Locks /\ "log" \in Locks
  BY <1>4 DEF IInv, TypeOK, Locks
<1>7. TypeOK'
  BY <1>1, <1>2, <1>4, <1>6 DEF IInv, TypeOK
<1>8. Control'
  BY <1>1, <1>2, <1>3, <1>4 DEF IInv, Control, Interruptible
<1>9. LocksAccounted' /\ ListsNotTorn'
  <2>1. LocksAccounted /\ ListsNotTorn /\ irq'.pc = "none"
    BY <1>1 DEF IInv
  <2>2. lock'["interrupt"] <=> thread'.pc \in Attaching
    BY <1>1, <1>3, <1>4, <1>6, <2>1 DEF LocksAccounted, Serving, Attaching
  <2>3. lock'["timer"] <=> thread'.pc \in {"timer_link", "timer_unlock"}
    BY <1>1, <1>3, <1>4, <1>6, <2>1 DEF LocksAccounted
  <2>4. lock'["mm"] <=> thread'.pc = "attach_link"
    BY <1>1, <1>3, <1>4, <1>6, <2>1 DEF LocksAccounted
  <2>5. lock'["log"] <=> thread'.fatal = "entry"
    BY <1>1, <1>2, <1>3, <1>4, <1>6, <2>1 DEF LocksAccounted, Logging
  <2> QED
    BY <2>1, <2>2, <2>3, <2>4, <2>5 DEF LocksAccounted, ListsNotTorn, Serving, Logging
<1> QED
  BY <1>5, <1>7, <1>8, <1>9 DEF IInv

\* The two steps that change a list.
LEMMA LinkInv ==
  ASSUME IInv, AttachLink \/ TimerLink
  PROVE  IInv'
<1> USE InterruptsAssumption
<1>1. CASE AttachLink
  <2>1. /\ irq.pc = "none" /\ thread.pc = "attach_link" /\ thread.fatal = "none" /\ initDone
        /\ thread' = [thread EXCEPT !.pc = "attach_sti"]
        /\ lock' = [lock EXCEPT !["mm"] = FALSE]
        /\ handlers' = [handlers EXCEPT ![thread.irq] = <<thread.handler>> \o @]
        /\ UNCHANGED <<pic, timers, initDone, iflag, irq>>
    BY <1>1 DEF AttachLink, Unlock, Goto, At, IInv, Control
  <2>2. thread'.pc = "attach_sti" /\ thread'.irq = thread.irq /\ thread'.fatal = thread.fatal
        /\ thread' \in [pc : ThreadPCs, irq : IRQs, handler : Handlers, fatal : FatalPCs]
    BY <2>1 DEF IInv, Control, ThreadPCs
  <2>3. handlers' \in [IRQs -> Seq(Handlers)]
    <3>1. <<thread.handler>> \in Seq(Handlers) /\ handlers[thread.irq] \in Seq(Handlers)
      BY DEF IInv, TypeOK, Control, Handlers
    <3>2. <<thread.handler>> \o handlers[thread.irq] \in Seq(Handlers)
      BY <3>1, ConcatProperties
    <3> QED
      BY <2>1, <3>2 DEF IInv, TypeOK, Handlers
  <2>4. lock' \in [Locks -> BOOLEAN]
    BY <2>1 DEF IInv, TypeOK, Locks
  <2>5. TypeOK'
    BY <2>1, <2>2, <2>3, <2>4 DEF IInv, TypeOK, Handlers
  <2>6. Control'
    BY <2>1, <2>2 DEF IInv, Control, Interruptible
  <2>7. Controllers' /\ Service'
    BY <2>1, <2>2, ThreadKeeps
  <2>8. LocksAccounted' /\ ListsNotTorn'
    BY <2>1, <2>2, <2>4 DEF IInv, TypeOK, LocksAccounted, ListsNotTorn, Serving,
               Logging, Attaching, Locks
  <2> QED
    BY <2>5, <2>6, <2>7, <2>8 DEF IInv
<1>2. CASE TimerLink
  <2>1. /\ irq.pc = "none" /\ thread.pc = "timer_link" /\ thread.fatal = "none"
        /\ timers' = timers + 1
        /\ thread' = [thread EXCEPT !.pc = "timer_unlock"]
        /\ UNCHANGED <<pic, handlers, lock, initDone, iflag, irq>>
    BY <1>2 DEF TimerLink, Goto, At
  <2>2. thread'.pc = "timer_unlock" /\ thread'.irq = thread.irq /\ thread'.fatal = thread.fatal
        /\ thread' \in [pc : ThreadPCs, irq : IRQs, handler : Handlers, fatal : FatalPCs]
    BY <2>1 DEF IInv, Control, ThreadPCs
  <2>3. TypeOK'
    BY <2>1, <2>2 DEF IInv, TypeOK
  <2>4. Control'
    BY <2>1, <2>2 DEF IInv, Control, Interruptible
  <2>5. Controllers' /\ Service'
    BY <2>1, <2>2, ThreadKeeps
  <2>6. LocksAccounted' /\ ListsNotTorn'
    BY <2>1, <2>2 DEF IInv, LocksAccounted, ListsNotTorn, Serving, Logging, Attaching
  <2> QED
    BY <2>3, <2>4, <2>5, <2>6 DEF IInv
<1> QED
  BY <1>1, <1>2

\* The controllers change, and nothing else: a driver's call, or a request.
LEMMA ControllerInv ==
  ASSUME IInv,
         NEW n, \/ n \in Devices \cup {Cascade} /\ (Enable(n) \/ Disable(n))
                \/ n \in Devices /\ Request(n)
  PROVE  IInv'
<1> USE InterruptsAssumption
<1>1. n \in IRQs /\ (n \in Devices => n \in IRQs \ {2})
  <2>1. Cascade = 2 /\ Cascade \in IRQs
    BY DEF Cascade, IRQs
  <2> QED
    BY <2>1
<1>2. /\ Operating(pic) /\ UNCHANGED <<handlers, timers, lock, initDone, iflag, thread, irq>>
  BY DEF Enable, Disable, Request, IInv, Controllers
<1>3. CASE Enable(n) \/ Disable(n)
  <2>1. irq.pc = "none" /\ thread.pc = "idle"
    BY <1>3 DEF Enable, Disable, At
  <2>2. pic' = PIC_EnableIRQ(pic, n) \/ pic' = PIC_DisableIRQ(pic, n)
    BY <1>3 DEF Enable, Disable
  <2>3. /\ Operating(pic')
        /\ Agrees(pic) => Agrees(pic')
        /\ pic'.master.isr = pic.master.isr /\ pic'.slave.isr = pic.slave.isr
    <3>1. CASE pic' = PIC_EnableIRQ(pic, n)
      BY <1>1, <1>2, <3>1, EnableKeeps
    <3>2. CASE pic' = PIC_DisableIRQ(pic, n)
      BY <1>1, <1>2, <3>2, DisableMasks
    <3> QED
      BY <2>2, <3>1, <3>2
  <2>4. Controllers' /\ Service'
    BY <1>1, <1>2, <2>1, <2>3 DEF IInv, Controllers, Service
  <2>5. TypeOK'
    BY <1>1, <1>2, <2>3 DEF IInv, TypeOK, Operating, Pair
  <2> QED
    BY <1>1, <1>2, <2>4, <2>5 DEF IInv, Control, LocksAccounted, ListsNotTorn, Serving, Logging
<1>4. CASE n \in Devices /\ Request(n)
  <2>1. /\ Operating(pic') /\ pic'.mask = pic.mask
        /\ pic'.master.imr = pic.master.imr /\ pic'.master.isr = pic.master.isr
        /\ pic'.slave.imr = pic.slave.imr /\ pic'.slave.isr = pic.slave.isr
    BY <1>1, <1>2, <1>4, RaiseLatches DEF Request
  <2>2. Agrees(pic) => Agrees(pic')
    BY <2>1 DEF Agrees, PICLower, PICUpper
  <2>3. Controllers' /\ Service'
    BY <1>1, <1>2, <2>1, <2>2 DEF IInv, Controllers, Service
  <2> QED
    BY <1>1, <1>2, <2>1, <2>3 DEF IInv, TypeOK, Control, LocksAccounted, ListsNotTorn,
                            Serving, Logging, Operating, Pair
<1> QED
  BY <1>3, <1>4

\* A call of the thread ends in a fatal error.
LEMMA FatalInv ==
  ASSUME IInv, Fatal \/ FatalLock \/ FatalUnlock \/ Halt
  PROVE  IInv'
<1>1. /\ irq.pc = "none" /\ irq' = irq /\ pic' = pic /\ handlers' = handlers
      /\ timers' = timers /\ initDone' = initDone
  BY DEF Fatal, FatalLock, FatalUnlock, Halt, FatalAt, At
<1>2. PICK at \in FatalPCs \ {"none"} : thread' = [thread EXCEPT !.fatal = at]
  BY DEF Fatal, FatalLock, FatalUnlock, Halt, FatalGoto, FatalPCs
<1>3. /\ thread'.pc = thread.pc /\ thread'.irq = thread.irq /\ thread'.fatal = at
      /\ thread' \in [pc : ThreadPCs, irq : IRQs, handler : Handlers, fatal : FatalPCs]
  BY <1>2 DEF IInv, Control
<1>4. thread.pc \in {"idle", "attach_link", "timer_link"} /\ initDone
  BY DEF Fatal, FatalLock, FatalUnlock, Halt, FatalAt, At, IInv, Control
<1>5. \/ thread.fatal = "none" /\ at = "lock" /\ lock' = lock /\ iflag' = iflag
      \/ thread.fatal = "lock" /\ at = "entry" /\ iflag' = iflag
         /\ ~lock["log"] /\ lock' = [lock EXCEPT !["log"] = TRUE]
      \/ thread.fatal = "entry" /\ at = "halt" /\ iflag' = iflag
         /\ lock' = [lock EXCEPT !["log"] = FALSE]
      \/ thread.fatal = "halt" /\ at = "halted" /\ lock' = lock /\ iflag' = FALSE
  <2>1. \A f : FatalGoto(f) => thread'.fatal = f
    BY DEF FatalGoto, IInv, Control
  <2>2. CASE Fatal
    BY <1>3, <2>1, <2>2 DEF Fatal, At
  <2>3. CASE FatalLock
    BY <1>3, <1>4, <2>1, <2>3 DEF FatalLock, FatalAt, Lock, TestAndSet
  <2>4. CASE FatalUnlock
    BY <1>3, <1>4, <2>1, <2>4 DEF FatalUnlock, FatalAt, Unlock
  <2>5. CASE Halt
    BY <1>3, <2>1, <2>5 DEF Halt, FatalAt
  <2> QED
    BY <2>2, <2>3, <2>4, <2>5
<1>6. lock \in [Locks -> BOOLEAN] /\ lock' \in [Locks -> BOOLEAN]
      /\ "interrupt" \in Locks /\ "timer" \in Locks /\ "mm" \in Locks /\ "log" \in Locks
  BY <1>5 DEF IInv, TypeOK, Locks
<1>7. TypeOK'
  BY <1>1, <1>3, <1>5, <1>6 DEF IInv, TypeOK
<1>8. Control'
  BY <1>1, <1>3, <1>4, <1>5 DEF IInv, Control, Interruptible
<1>9. Controllers' /\ Service'
  BY <1>1, <1>3 DEF IInv, Controllers, Service
<1>10. LocksAccounted' /\ ListsNotTorn'
  <2>1. LocksAccounted /\ ListsNotTorn /\ irq'.pc = "none"
    BY <1>1 DEF IInv
  <2>2. /\ lock'["interrupt"] = lock["interrupt"] /\ lock'["timer"] = lock["timer"]
        /\ lock'["mm"] = lock["mm"]
    BY <1>5, <1>6
  <2>3. lock'["log"] <=> thread'.fatal = "entry"
    BY <1>1, <1>3, <1>4, <1>5, <1>6, <2>1 DEF LocksAccounted, Logging
  <2> QED
    BY <1>1, <1>3, <1>4, <2>1, <2>2, <2>3 DEF LocksAccounted, ListsNotTorn, Serving, Logging
<1> QED
  BY <1>7, <1>8, <1>9, <1>10 DEF IInv

\* The processor takes an interrupt.
LEMMA TakeInv ==
  ASSUME IInv, TakeInterrupt
  PROVE  IInv'
<1> DEFINE n == Next_IRQ(pic)
<1>1. /\ irq.pc = "none" /\ iflag /\ n # -1 /\ pic' = Acknowledged(pic) /\ iflag' = FALSE
      /\ irq' = [pc |-> "lock", n |-> n, left |-> <<>>]
      /\ UNCHANGED <<handlers, timers, lock, initDone, thread>>
  BY DEF TakeInterrupt, NotInIrq
<1>2. thread.pc \in Interruptible /\ thread.fatal # "halted" /\ Operating(pic) /\ Agrees(pic)
      /\ pic.master.isr = {} /\ pic.slave.isr = {}
  BY <1>1 DEF IInv, Control, Controllers, Service, Interruptible
<1>3. /\ n \in IRQs /\ Operating(pic') /\ pic'.mask = pic.mask
      /\ pic'.master.imr = pic.master.imr /\ pic'.slave.imr = pic.slave.imr
      /\ pic'.master.isr = InService(n)[1] /\ pic'.slave.isr = InService(n)[2]
  BY <1>1, <1>2, TakenIsInService
<1> HIDE DEF n
<1>4. Agrees(pic')
  BY <1>2, <1>3 DEF Agrees, PICLower, PICUpper
<1>5. irq' \in [pc : IrqPCs, n : IRQs, left : Seq(Handlers)] /\ irq'.pc = "lock" /\ irq'.n = n
  BY <1>1, <1>3 DEF IrqPCs
<1>6. TypeOK'
  BY <1>1, <1>3, <1>5 DEF IInv, TypeOK, Operating, Pair, Handlers
<1>7. Control'
  BY <1>1, <1>2, <1>5 DEF IInv, Control
<1>8. Controllers' /\ Service'
  BY <1>1, <1>2, <1>3, <1>4, <1>5 DEF Controllers, Service, Interruptible
<1>9. LocksAccounted' /\ ListsNotTorn'
  BY <1>1, <1>5 DEF IInv, LocksAccounted, ListsNotTorn, Serving, Logging
<1> QED
  BY <1>6, <1>7, <1>8, <1>9 DEF IInv

\* The steps of Interrupt_Handle that change a lock or only its own state.
LEMMA HandleInv ==
  ASSUME IInv,
         \/ HandleLock \/ NoHandler \/ NoHandlerLogged \/ CallDriver(TRUE) \/ CallDriver(FALSE)
         \/ CallTimer \/ TimerLock \/ TimerWalk \/ Unhandled \/ UnhandledLogged
  PROVE  IInv'
<1>1. irq.pc # "none" /\ pic' = pic /\ thread' = thread /\ iflag' = iflag
      /\ handlers' = handlers /\ timers' = timers /\ initDone' = initDone
  BY DEF HandleLock, NoHandler, NoHandlerLogged, CallDriver, CallTimer, TimerLock, TimerWalk,
         Unhandled, UnhandledLogged
<1>2. thread.pc \in Interruptible /\ initDone
  BY <1>1 DEF IInv, Control, Interruptible
<1>3. /\ irq' \in [pc : IrqPCs, n : IRQs, left : Seq(Handlers)] /\ irq'.n = irq.n
      /\ \/ irq.pc = "lock" /\ irq'.pc = "look"
            /\ ~lock["interrupt"] /\ lock' = [lock EXCEPT !["interrupt"] = TRUE]
         \/ irq.pc = "look" /\ irq'.pc = "no_handler"
            /\ ~lock["log"] /\ lock' = [lock EXCEPT !["log"] = TRUE]
         \/ irq.pc = "no_handler" /\ irq'.pc = "release"
            /\ lock' = [lock EXCEPT !["log"] = FALSE]
         \/ irq.pc = "call" /\ irq'.pc \in {"call", "enable", "timer_lock"} /\ lock' = lock
         \/ irq.pc = "call" /\ irq'.pc = "unhandled"
            /\ ~lock["log"] /\ lock' = [lock EXCEPT !["log"] = TRUE]
         \/ irq.pc = "unhandled" /\ irq'.pc = "enable"
            /\ lock' = [lock EXCEPT !["log"] = FALSE]
         \/ irq.pc = "timer_lock" /\ irq'.pc = "timer_walk"
            /\ ~lock["timer"] /\ lock' = [lock EXCEPT !["timer"] = TRUE]
         \/ irq.pc = "timer_walk" /\ irq'.pc = "enable"
            /\ lock' = [lock EXCEPT !["timer"] = FALSE]
  <2>1. irq \in [pc : IrqPCs, n : IRQs, left : Seq(Handlers)]
    BY DEF IInv, Control
  <2>2. ASSUME NEW pc \in IrqPCs, IrqGoto(pc)
        PROVE  /\ irq' \in [pc : IrqPCs, n : IRQs, left : Seq(Handlers)]
               /\ irq'.n = irq.n /\ irq'.pc = pc
    BY <2>1, <2>2 DEF IrqGoto
  <2>3. {"lock", "look", "no_handler", "release", "call", "unhandled", "enable", "timer_lock",
         "timer_walk"} \subseteq IrqPCs
    BY DEF IrqPCs
  <2>4. CASE HandleLock
    BY <1>2, <2>2, <2>3, <2>4 DEF HandleLock, Lock, TestAndSet
  <2>5. CASE NoHandler
    BY <1>2, <2>2, <2>3, <2>5 DEF NoHandler, Lock, TestAndSet
  <2>6. CASE CallDriver(TRUE)
    BY <2>1, <2>3, <2>6 DEF CallDriver
  <2>7. CASE CallDriver(FALSE)
    <3>1. irq' = [irq EXCEPT !.left = Tail(irq.left)] /\ irq.left # <<>> /\ lock' = lock
          /\ irq.pc = "call"
      BY <2>7 DEF CallDriver
    <3>2. Tail(irq.left) \in Seq(Handlers)
      BY <2>1, <3>1, HeadTailProperties
    <3> QED
      BY <2>1, <3>1, <3>2
  <2>8. CASE CallTimer
    BY <2>2, <2>3, <2>8 DEF CallTimer
  <2>9. CASE TimerLock
    BY <1>2, <2>2, <2>3, <2>9 DEF TimerLock, Lock, TestAndSet
  <2>10. CASE TimerWalk
    BY <1>2, <2>2, <2>3, <2>10 DEF TimerWalk, Unlock
  <2>11. CASE Unhandled
    BY <1>2, <2>2, <2>3, <2>11 DEF Unhandled, Lock, TestAndSet
  <2>12. CASE NoHandlerLogged
    BY <1>2, <2>2, <2>3, <2>12 DEF NoHandlerLogged, Unlock
  <2>13. CASE UnhandledLogged
    BY <1>2, <2>2, <2>3, <2>13 DEF UnhandledLogged, Unlock
  <2> QED
    BY <2>4, <2>5, <2>6, <2>7, <2>8, <2>9, <2>10, <2>11, <2>12, <2>13
<1>4. lock \in [Locks -> BOOLEAN] /\ lock' \in [Locks -> BOOLEAN]
      /\ "interrupt" \in Locks /\ "timer" \in Locks /\ "mm" \in Locks /\ "log" \in Locks
  BY <1>3 DEF IInv, TypeOK, Locks
<1>5. TypeOK'
  BY <1>1, <1>3, <1>4 DEF IInv, TypeOK, Handlers
<1>6. Control'
  BY <1>1, <1>2, <1>3 DEF IInv, Control
<1>7. Controllers' /\ Service'
  BY <1>1, <1>3 DEF IInv, Controllers, Service
<1>8. LocksAccounted' /\ ListsNotTorn'
  <2>1. LocksAccounted /\ ListsNotTorn
    BY DEF IInv
  <2>2. lock'["interrupt"] <=> irq'.pc \notin {"none", "lock"} \/ thread'.pc \in Attaching
    BY <1>1, <1>2, <1>3, <1>4, <2>1 DEF LocksAccounted, Serving
  <2>3. lock'["timer"] <=> irq'.pc = "timer_walk" \/ thread'.pc \in {"timer_link", "timer_unlock"}
    BY <1>1, <1>2, <1>3, <1>4, <2>1 DEF LocksAccounted, ListsNotTorn
  <2>4. lock'["mm"] <=> thread'.pc = "attach_link"
    BY <1>1, <1>2, <1>3, <1>4, <2>1 DEF LocksAccounted
  <2>5. irq'.pc \notin {"none", "lock"} => thread'.pc \notin Attaching
    BY <1>1, <1>2, <1>3, <2>1 DEF LocksAccounted, ListsNotTorn, Serving, Logging
  <2>6. irq'.pc = "timer_walk" => thread'.pc \notin {"timer_link", "timer_unlock"}
    BY <1>1, <1>2, <1>3, <2>1 DEF LocksAccounted, ListsNotTorn
  <2>7. (lock'["log"] <=> irq'.pc \in Logging \/ thread'.fatal = "entry")
        /\ (irq'.pc \in Logging => thread'.fatal # "entry")
    <3>1. lock["log"] <=> irq.pc \in Logging \/ thread.fatal = "entry"
      BY <1>2, <2>1 DEF LocksAccounted
    <3>2. irq.pc \in Logging => thread.fatal # "entry"
      BY <2>1 DEF ListsNotTorn
    <3>3. thread'.fatal = thread.fatal
      BY <1>1
    <3> QED
      BY <1>3, <1>4, <3>1, <3>2, <3>3 DEF Logging
  <2> QED
    BY <2>2, <2>3, <2>4, <2>5, <2>6, <2>7 DEF LocksAccounted, ListsNotTorn, Serving, Logging
<1> QED
  BY <1>5, <1>6, <1>7, <1>8 DEF IInv

\* The two calls of Interrupt_Handle to the controllers.
LEMMA HandleControllersInv ==
  ASSUME IInv, HandleMask \/ HandleEnable
  PROVE  IInv'
<1>1. /\ irq.pc # "none" /\ irq.n \in IRQs /\ Operating(pic) /\ Agrees(pic)
      /\ thread.pc \in Interruptible
      /\ UNCHANGED <<handlers, timers, lock, initDone, iflag, thread>>
  BY DEF HandleMask, HandleEnable, IInv, Control, Controllers, Interruptible
<1>2. CASE HandleMask
  <2>1. /\ irq.pc = "look" /\ pic' = PIC_MaskAndAcknowledge(pic, irq.n)
        /\ irq' = [irq EXCEPT !.pc = "call", !.left = handlers[irq.n]]
    BY <1>2 DEF HandleMask
  <2>2. handlers[irq.n] \in Seq(Handlers)
    BY <1>1 DEF IInv, TypeOK, Handlers
  <2>3. irq'.pc = "call" /\ irq'.n = irq.n
        /\ irq' \in [pc : IrqPCs, n : IRQs, left : Seq(Handlers)]
    BY <2>1, <2>2 DEF IInv, Control, IrqPCs
  <2>4. /\ Operating(pic') /\ Agrees(pic')
        /\ pic'.master.isr = pic.master.isr \ InService(irq.n)[1]
        /\ pic'.slave.isr = pic.slave.isr \ InService(irq.n)[2]
        /\ IF irq.n < 8 THEN irq.n \in pic'.master.imr ELSE irq.n - 8 \in pic'.slave.imr
    BY <1>1, <2>1, MaskAndAcknowledgeEnds
  <2>5. pic'.master.isr = {} /\ pic'.slave.isr = {}
    BY <2>1, <2>4 DEF IInv, Service
  <2>6. TypeOK'
    BY <1>1, <2>3, <2>4 DEF IInv, TypeOK, Operating, Pair, Handlers
  <2>7. Control'
    BY <1>1, <2>1, <2>3 DEF IInv, Control
  <2>8. Controllers' /\ Service'
    BY <1>1, <2>3, <2>4, <2>5 DEF Controllers, Service, Interruptible
  <2>9. LocksAccounted' /\ ListsNotTorn'
    BY <1>1, <2>1, <2>3 DEF IInv, LocksAccounted, ListsNotTorn, Serving, Logging
  <2> QED
    BY <2>6, <2>7, <2>8, <2>9 DEF IInv
<1>3. CASE HandleEnable
  <2>1. irq.pc = "enable" /\ pic' = PIC_EnableIRQ(pic, irq.n)
        /\ irq' = [irq EXCEPT !.pc = "release"]
    BY <1>3 DEF HandleEnable, IrqGoto
  <2>2. irq'.pc = "release" /\ irq'.n = irq.n
        /\ irq' \in [pc : IrqPCs, n : IRQs, left : Seq(Handlers)]
    BY <2>1 DEF IInv, Control, IrqPCs
  <2>3. Operating(pic') /\ Agrees(pic')
    BY <1>1, <2>1, EnableKeeps
  <2>4. TypeOK'
    BY <1>1, <2>2, <2>3 DEF IInv, TypeOK, Operating, Pair, Handlers
  <2>5. Control'
    BY <1>1, <2>1, <2>2 DEF IInv, Control
  <2>6. Controllers' /\ Service'
    BY <1>1, <2>2, <2>3 DEF Controllers, Service, Interruptible
  <2>7. LocksAccounted' /\ ListsNotTorn'
    BY <1>1, <2>1, <2>2 DEF IInv, LocksAccounted, ListsNotTorn, Serving, Logging
  <2> QED
    BY <2>4, <2>5, <2>6, <2>7 DEF IInv
<1> QED
  BY <1>2, <1>3

\* Interrupt_Handle's last call never returns: it finds the lock that
\* Interrupt_Handle itself has set.
LEMMA ReleaseSpins ==
  ASSUME IInv, HandleRelease
  PROVE  UNCHANGED vars
<1>1. irq.pc = "release" /\ initDone /\ lock["interrupt"]
  BY DEF HandleRelease, IInv, Control, LocksAccounted, Serving, Interruptible
<1> QED
  BY <1>1 DEF HandleRelease

\* No variable changes.
LEMMA StutterInv ==
  ASSUME IInv, UNCHANGED vars
  PROVE  IInv'
<1>1. UNCHANGED <<pic, handlers, timers, lock, initDone, iflag, thread, irq>>
  BY DEF vars
<1> QED
  BY <1>1 DEF IInv, TypeOK, Control, Controllers, Service, LocksAccounted, ListsNotTorn,
             Serving, Logging

\* IInv is an invariant.
THEOREM Invariance == Spec => []IInv
<1>1. Init => IInv
  BY InitInv
<1>2. ASSUME IInv, [Next]_vars
      PROVE  IInv'
  <2>1. CASE InitController \/ InitTimer \/ InitDone \/ StartInterrupts
    BY <1>2, <2>1, BootInv
  <2>2. CASE \/ \E n \in Devices, h \in Drivers : AttachHandler(n, h)
             \/ AttachLock \/ AttachCli \/ AttachMM \/ AttachSti \/ AttachUnlock
             \/ AttachTimer \/ TimerUnlock
    BY <1>2, <2>2, AttachInv
  <2>3. CASE AttachLink \/ TimerLink
    BY <1>2, <2>3, LinkInv
  <2>4. CASE \/ \E n \in Devices \cup {Cascade} : Enable(n) \/ Disable(n)
             \/ \E n \in Devices : Request(n)
    BY <1>2, <2>4, ControllerInv
  <2>5. CASE TakeInterrupt
    BY <1>2, <2>5, TakeInv
  <2>6. CASE \/ HandleLock \/ NoHandler \/ NoHandlerLogged \/ CallDriver(TRUE)
             \/ CallDriver(FALSE) \/ CallTimer \/ TimerLock \/ TimerWalk
             \/ Unhandled \/ UnhandledLogged
    BY <1>2, <2>6, HandleInv
  <2>7. CASE HandleMask \/ HandleEnable
    BY <1>2, <2>7, HandleControllersInv
  <2>8. CASE HandleRelease \/ UNCHANGED vars
    BY <1>2, <2>8, ReleaseSpins, StutterInv
  <2>9. CASE Fatal \/ FatalLock \/ FatalUnlock \/ Halt
    BY <1>2, <2>9, FatalInv
  <2> QED
    BY <1>2, <2>1, <2>2, <2>3, <2>4, <2>5, <2>6, <2>7, <2>8, <2>9 DEF Next
<1> QED
  BY <1>1, <1>2, PTL DEF Spec

----------------------------------------------------------------------------
(* What the runs check, for any devices, drivers and bounds.               *)

\* The variables keep the types the code gives them: the masks and latches stay
\* bytes, the lists of handlers lists of handlers.
THEOREM TypeCorrect == Spec => []TypeOK
<1>1. IInv => TypeOK
  BY DEF IInv
<1> QED
  BY <1>1, Invariance, PTL

\* Interrupt_Handle and Timer_Handler never walk a list that the interrupted
\* thread is changing, nor log in the middle of its message.
THEOREM NeverTorn == Spec => []ListsNotTorn
<1>1. IInv => ListsNotTorn
  BY DEF IInv
<1> QED
  BY <1>1, Invariance, PTL

\* A lock is set exactly between the lock and the unlock of who took it.
THEOREM LocksHeldByTakers == Spec => []LocksAccounted
<1>1. IInv => LocksAccounted
  BY DEF IInv
<1> QED
  BY <1>1, Invariance, PTL

\* While its handlers run an interrupt is masked and not in service, and
\* neither is any other.
THEOREM ServedMasked == Spec => []ServedOutsideController
<1>1. IInv => ServedOutsideController
  BY DEF IInv, Service, ServedOutsideController
<1> QED
  BY <1>1, Invariance, PTL

\* With interrupts on, the masks of the controllers are those of l_nPICMask, or
\* the slave masks nothing.
THEOREM MasksAgree == Spec => []MaskAgrees
<1>1. IInv => MaskAgrees
  BY DEF IInv, Control, Controllers, MaskAgrees, Agrees, Interruptible
<1> QED
  BY <1>1, Invariance, PTL

\* No interrupt that is taken is ever returned from: once Interrupt_Handle is
\* entered, it is never left (its last call takes its lock again).
THEOREM NeverReturns == Spec => [][irq.pc # "none" => irq'.pc # "none"]_vars
<1>1. ASSUME IInv, [Next]_vars
      PROVE  [irq.pc # "none" => irq'.pc # "none"]_vars
  <2> SUFFICES ASSUME irq.pc # "none", Next PROVE irq'.pc # "none"
    BY <1>1 DEF vars
  <2>1. CASE irq' = irq
    BY <2>1
  <2>2. CASE HandleRelease
    BY <1>1, <2>2, ReleaseSpins DEF vars
  <2>3. CASE IrqStep /\ ~HandleRelease
    BY <1>1, <2>3 DEF IrqStep, HandleLock, NoHandler, NoHandlerLogged, HandleMask, CallDriver,
                      CallTimer, TimerLock, TimerWalk, Unhandled, UnhandledLogged, HandleEnable,
                      IrqGoto, IInv, Control
  <2>4. CASE TakeInterrupt
    BY <2>4 DEF TakeInterrupt
  <2> QED
    BY <2>1, <2>2, <2>3, <2>4
       DEF Next, IrqStep, InitController, InitTimer, InitDone, StartInterrupts, AttachHandler,
           AttachLock, AttachCli, AttachMM, AttachLink, AttachSti, AttachUnlock, AttachTimer,
           TimerLink, TimerUnlock, Fatal, FatalLock, FatalUnlock, Halt,
           Enable, Disable, Request
<1> QED
  BY <1>1, Invariance, PTL DEF Spec
=============================================================================

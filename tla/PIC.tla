-------------------------------- MODULE PIC --------------------------------
(***************************************************************************)
(* The pair of 8259A interrupt controllers and the driver                  *)
(* src/arch/x86/8259a.c, as operators on a record                          *)
(*   [mask   |-> l_nPICMask, master |-> chip, slave |-> chip].             *)
(* A byte is the set of the numbers of its bits, so a mask is the set of   *)
(* the interrupts it masks.                                                *)
(***************************************************************************)
EXTENDS Integers

Lines == 0 .. 7
IRQs  == 0 .. 15   \* INTERRUPT_NUMIRQS
Cascade == 2       \* the master's line that the slave is wired to

\* The value of bit i, and the number a byte stands for.
Weight(i) == <<1, 2, 4, 8, 16, 32, 64, 128>>[i + 1]

Number(byte) ==
  LET bit(i) == IF i \in byte THEN Weight(i) ELSE 0
  IN  bit(0) + bit(1) + bit(2) + bit(3) + bit(4) + bit(5) + bit(6) + bit(7)

----------------------------------------------------------------------------
(* The chips.  init is the next initialisation word a chip waits for.      *)

Chip == [init : {"none", "icw2", "icw3", "icw4"},
         imr : SUBSET Lines, irr : SUBSET Lines, isr : SUBSET Lines]

\* A write to the command port: ICW1 (bit 4) resets the chip and clears its
\* mask; bits 5 and 6 without bit 7 end the service of one level.
Command(chip, byte) ==
  IF 4 \in byte
  THEN [init |-> "icw2", imr |-> {}, irr |-> {}, isr |-> {}]
  ELSE IF {5, 6} \subseteq byte /\ 7 \notin byte
  THEN [chip EXCEPT !.isr = @ \ {Number(byte \cap 0 .. 2)}]
  ELSE chip

\* A write to the data port: the word the chip waits for, or else the mask.
Data(chip, byte) ==
  CASE chip.init = "none" -> [chip EXCEPT !.imr = byte]
    [] chip.init = "icw2" -> [chip EXCEPT !.init = "icw3"]
    [] chip.init = "icw3" -> [chip EXCEPT !.init = "icw4"]
    [] chip.init = "icw4" -> [chip EXCEPT !.init = "none"]

outb(pic, port, byte) ==
  CASE port = 32  -> [pic EXCEPT !.master = Command(@, byte)]
    [] port = 33  -> [pic EXCEPT !.master = Data(@, byte)]
    [] port = 160 -> [pic EXCEPT !.slave = Command(@, byte)]
    [] port = 161 -> [pic EXCEPT !.slave = Data(@, byte)]
    [] OTHER      -> pic

\* A device raises its line; the latch keeps it until it is taken.
Raise(pic, n) ==
  IF n < 8 THEN [pic EXCEPT !.master.irr = @ \cup {n}]
  ELSE [pic EXCEPT !.slave.irr = @ \cup {n - 8}]

\* Requests that are not masked and above everything in service.
Ready(requests, chip) == {i \in requests \ chip.imr : \A j \in chip.isr : i < j}

SlaveReady(pic)  == Ready(pic.slave.irr, pic.slave)
MasterReady(pic) ==
  Ready(pic.master.irr \cup (IF SlaveReady(pic) # {} THEN {2} ELSE {}), pic.master)

\* The lowest number has the highest priority.
First(ready) == CHOOSE i \in ready : \A j \in ready : i <= j

\* The interrupt the processor is given next (-1 is none).
Next_IRQ(pic) ==
  IF MasterReady(pic) = {} THEN -1
  ELSE IF First(MasterReady(pic)) = 2 THEN 8 + First(SlaveReady(pic))
  ELSE First(MasterReady(pic))

\* The processor takes it: its latch is cleared and it is in service.
Acknowledged(pic) ==
  LET n == Next_IRQ(pic)
      line == IF n < 8 THEN n ELSE 2
      up == [pic EXCEPT !.master.irr = @ \ {line}, !.master.isr = @ \cup {line}]
  IN  IF n < 8 THEN up
      ELSE [up EXCEPT !.slave.irr = @ \ {n - 8}, !.slave.isr = @ \cup {n - 8}]

----------------------------------------------------------------------------
(* The driver.                                                             *)

PICLower(pic) == pic.mask \cap Lines
PICUpper_NotShifted(pic) == pic.mask \ Lines

PICUpper(pic) == {n - 8 : n \in pic.mask \ Lines}

\* ICW1 on the command port, ICW2 to ICW4 on the data port.
InitialisationWords(pic, command, data, vector, cascade) ==
  outb(outb(outb(outb(pic, command, {0, 4}), data, vector), data, cascade), data, {0})

\* Both masks, the initialisation words, and then what is meant to be both
\* masks again; outb takes the port first, so these last two writes go to the
\* port whose number is the mask.
PIC_Init(pic) ==
  LET masked == outb(outb(pic, 33, PICLower(pic)), 161, PICUpper(pic))
      started == InitialisationWords(InitialisationWords(masked, 32, 33, {5}, {2}),
                                     160, 161, {3, 5}, {1})
  IN  outb(outb(started, Number(PICLower(pic)), {0, 5}),
           Number(PICUpper(pic)), {0, 5, 7})

\* Write the half of the mask that n is in.
WriteMask(pic, n) ==
  IF n >= 8 THEN outb(pic, 161, PICUpper(pic)) ELSE outb(pic, 33, PICLower(pic))

PIC_EnableIRQ_NotWritten(pic, n) == [pic EXCEPT !.mask = @ \ {n}]

PIC_EnableIRQ(pic, n) == WriteMask([pic EXCEPT !.mask = @ \ {n}], n)

PIC_DisableIRQ(pic, n) == WriteMask([pic EXCEPT !.mask = @ \cup {n}], n)

\* The end-of-interrupt bytes 0x60 + level.
EOI(level) == {5, 6} \cup {b \in 0 .. 2 : (level \div Weight(b)) % 2 = 1}

Acknowledge_MasterOnly(pic, n) == outb(pic, 32, IF n >= 8 THEN EOI(2) ELSE EOI(n))

\* End the service of n: at the slave and at the master's line 2 for n >= 8.
Acknowledge(pic, n) ==
  IF n >= 8 THEN outb(outb(pic, 160, EOI(n - 8)), 32, EOI(2))
  ELSE outb(pic, 32, EOI(n))

PIC_MaskAndAcknowledge(pic, n) == Acknowledge(PIC_DisableIRQ(pic, n), n)

\* What the machine starts with: l_nPICMask is 0xFFFF, the chips are as the
\* firmware left them.
PowerOn == [mask |-> IRQs,
            master |-> [init |-> "none", imr |-> {}, irr |-> {}, isr |-> {}],
            slave  |-> [init |-> "none", imr |-> {}, irr |-> {}, isr |-> {}]]
============================================================================

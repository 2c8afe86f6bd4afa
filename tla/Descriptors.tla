---------------------------- MODULE Descriptors ----------------------------
(***************************************************************************)
(* The processor's tables of arch/x86/descriptor.c: the setters split an   *)
(* address or a limit over the fields of an entry, and the processor puts  *)
(* them together again.  All the fields are multiples of four bits wide.   *)
(***************************************************************************)
EXTENDS Integers

CONSTANTS
  Digit,      \* the values of four bits: 16 on the machine
  Selectors,  \* segment selectors, of which the low three bits are not used
  Vectors     \* interrupt vectors

ASSUME DescriptorAssumption ==
  /\ Digit \in Nat \ {0} /\ Digit % 4 = 0
  /\ Selectors \subseteq Nat /\ Vectors \subseteq Nat

VARIABLES
  gdt,     \* l_sGDT
  idt,     \* l_sIDT
  wanted   \* history: what was last asked for, by entry of each table

tables == <<gdt, idt, wanted>>

\* How many values there are of so many bits.
Bits8  == Digit * Digit
Bits12 == Digit * Bits8
Bits16 == Bits8 * Bits8
Bits20 == Digit * Bits16
Bits24 == Bits8 * Bits16
Bits32 == Bits16 * Bits16

Index(selector) == selector \div 8
Segments == {Index(s) : s \in Selectors}

NoSegment == [limitLow |-> 0, baseLow |-> 0, baseMiddle |-> 0, attributes |-> 0,
              limitHigh |-> 0, baseHigh |-> 0]
NoGate == [baseLow |-> 0, baseHigh |-> 0, flags |-> "none"]

\* The bits 0x40 and 0x80 of m_nLimitHigh.
Big  == (Digit \div 4) * Digit
Page == (Digit \div 2) * Digit

Coarse(limit) == limit > Bits20 - 1

Descriptor_SetBase(selector, base) ==
  /\ gdt' = [gdt EXCEPT ![Index(selector)].baseLow = base % Bits16,
                        ![Index(selector)].baseMiddle = (base \div Bits16) % Bits8,
                        ![Index(selector)].baseHigh = (base \div Bits24) % Bits8]
  /\ wanted' = [wanted EXCEPT !.segments[Index(selector)].base = base]
  /\ UNCHANGED idt

\* A limit of more than 20 bits is counted in pages of 4 KB.
Units(limit) == IF Coarse(limit) THEN limit \div Bits12 ELSE limit

LimitHigh_NotReset(old, limit) ==
  Big + (IF Coarse(limit) \/ old >= Page THEN Page ELSE 0) + ((Units(limit) \div Bits16) % Digit)

\* The old value of the field is dropped.
LimitHigh(old, limit) ==
  Big + (IF Coarse(limit) THEN Page ELSE 0) + ((Units(limit) \div Bits16) % Digit)

Descriptor_SetLimit(selector, limit) ==
  /\ gdt' = [gdt EXCEPT ![Index(selector)].limitLow = Units(limit) % Bits16,
                        ![Index(selector)].limitHigh = LimitHigh(@, limit)]
  /\ wanted' = [wanted EXCEPT !.segments[Index(selector)].limit = limit]
  /\ UNCHANGED idt

Descriptor_SetAccess(selector, access) ==
  /\ gdt' = [gdt EXCEPT ![Index(selector)].attributes = access]
  /\ wanted' = [wanted EXCEPT !.segments[Index(selector)].access = access]
  /\ UNCHANGED idt

\* Descriptor_SetInterruptGate, _SetTaskGate and _SetCallGate differ in the
\* flags: 0x8E00, 0x8500 and 0x8C00.
SetGate(flags, vector, handler) ==
  /\ idt' = [idt EXCEPT ![vector] = [baseLow |-> handler % Bits16,
                                     baseHigh |-> handler \div Bits16, flags |-> flags]]
  /\ wanted' = [wanted EXCEPT !.gates[vector] = [handler |-> handler, flags |-> flags]]
  /\ UNCHANGED gdt

----------------------------------------------------------------------------
(* What the processor reads.                                               *)

SegmentBase(e) == e.baseLow + Bits16 * (e.baseMiddle + Bits8 * e.baseHigh)

SegmentLimit(e) ==
  LET count == e.limitLow + Bits16 * (e.limitHigh % Digit)
  IN  IF e.limitHigh >= Page THEN Bits12 * count + Bits12 - 1 ELSE count

GateHandler(g) == g.baseLow + Bits16 * g.baseHigh

----------------------------------------------------------------------------

TablesInit ==
  /\ gdt = [i \in Segments |-> NoSegment]
  /\ idt = [v \in Vectors |-> NoGate]
  /\ wanted = [segments |-> [i \in Segments |-> [base |-> 0, limit |-> 0, access |-> 0]],
               gates |-> [v \in Vectors |-> [handler |-> 0, flags |-> "none"]]]
=============================================================================

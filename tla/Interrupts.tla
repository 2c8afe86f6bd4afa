----------------------------- MODULE Interrupts -----------------------------
(***************************************************************************)
(* Interrupts on the one processor: src/interrupt.c with the spinlocks of  *)
(* include/locking.h, the timer's lock (src/timer.c) and the controllers   *)
(* (PIC).  The thread is Kernel_Main, from PIC_Init to its idle loop, where *)
(* drivers call Interrupt_AttachHandler, Timer_AttachTimerHandler,         *)
(* Interrupt_EnableIRQ, PIC_DisableIRQ and the memory manager, whose fatal *)
(* errors are logged (src/syslog.c) before the machine is halted.  While   *)
(* the processor is in Interrupt_Handle the thread stands still; the       *)
(* interrupt gates keep further interrupts off until it returns.           *)
(***************************************************************************)
EXTENDS PIC, Sequences

CONSTANTS
  Devices,      \* the interrupts that are raised
  Drivers,      \* handlers that drivers attach
  MaxHandlers,  \* bound: handlers on one interrupt
  MaxTimers     \* bound: timers attached

Timer_Handler == "Timer_Handler"

ASSUME InterruptsAssumption ==
  /\ Devices \subseteq IRQs \ {Cascade}
  /\ Timer_Handler \notin Drivers
  /\ MaxHandlers \in Nat \ {0} /\ MaxTimers \in Nat

VARIABLES
  pic,       \* the controllers and l_nPICMask
  handlers,  \* l_IRQ_Handler, newest first
  timers,    \* number of timers on m_psLastTimer's list
  lock,      \* m_nLock of sInterruptLock, sTimerLock, the memory manager's
             \* and the log's lock
  initDone,  \* g_bKernelInitDone
  iflag,     \* the processor accepts interrupts
  thread,    \* where Kernel_Main and the drivers are: [pc, irq, handler], and
             \* where the fatal error of a call they made is: fatal
  irq        \* where Interrupt_Handle is: [pc, n, left]

vars == <<pic, handlers, timers, lock, initDone, iflag, thread, irq>>

Locks == {"interrupt", "timer", "mm", "log"}

Goto(pc) == thread' = [thread EXCEPT !.pc = pc]
IrqGoto(pc) == irq' = [irq EXCEPT !.pc = pc]

\* Atomic_TestAndSet leaves the lock set.
TestAndSet_NotSet(l) == lock

TestAndSet(l) == [lock EXCEPT ![l] = TRUE]

\* Lock_Lock spins until the lock is clear; it does nothing before initDone.
Lock(l) ==
  IF initDone THEN ~lock[l] /\ lock' = TestAndSet(l) ELSE UNCHANGED lock

Unlock(l) ==
  IF initDone THEN lock' = [lock EXCEPT ![l] = FALSE] ELSE UNCHANGED lock

----------------------------------------------------------------------------
(* Kernel_Main.                                                            *)

\* The thread runs when no interrupt is being handled; a fatal error in what
\* it called does not return to it.
At(pc) == irq.pc = "none" /\ thread.pc = pc /\ thread.fatal = "none"

InitController ==
  /\ At("PIC_Init")
  /\ pic' = PIC_Init(pic)
  /\ Goto("Timer_Init")
  /\ UNCHANGED <<handlers, timers, lock, initDone, iflag, irq>>

\* Timer_Init attaches Timer_Handler and enables its interrupt; before
\* initDone the locks and the cli of Interrupt_AttachHandler are no-ops.
InitTimer ==
  /\ At("Timer_Init")
  /\ handlers' = [handlers EXCEPT ![0] = <<Timer_Handler>> \o @]
  /\ pic' = PIC_EnableIRQ(pic, 0)
  /\ Goto("done")
  /\ UNCHANGED <<timers, lock, initDone, iflag, irq>>

InitDone ==
  /\ At("done")
  /\ initDone' = TRUE
  /\ Goto("sti")
  /\ UNCHANGED <<pic, handlers, timers, lock, iflag, irq>>

StartInterrupts ==
  /\ At("sti")
  /\ iflag' = TRUE
  /\ Goto("idle")
  /\ UNCHANGED <<pic, handlers, timers, lock, initDone, irq>>

----------------------------------------------------------------------------
(* Interrupt_AttachHandler.                                                *)

AttachHandler(n, h) ==
  /\ At("idle") /\ Len(handlers[n]) < MaxHandlers
  /\ thread' = [thread EXCEPT !.pc = "attach", !.irq = n, !.handler = h]
  /\ UNCHANGED <<pic, handlers, timers, lock, initDone, iflag, irq>>

AttachLock ==
  /\ At("attach") /\ Lock("interrupt") /\ Goto("attach_cli")
  /\ UNCHANGED <<pic, handlers, timers, initDone, iflag, irq>>

AttachCli ==
  /\ At("attach_cli")
  /\ iflag' = IF initDone THEN FALSE ELSE iflag
  /\ Goto("attach_mm")
  /\ UNCHANGED <<pic, handlers, timers, lock, initDone, irq>>

AttachMM ==
  /\ At("attach_mm") /\ Lock("mm") /\ Goto("attach_link")
  /\ UNCHANGED <<pic, handlers, timers, initDone, iflag, irq>>

\* The handler is allocated, the memory manager's lock given back, and the
\* handler becomes the first of its interrupt's list.
AttachLink ==
  /\ At("attach_link") /\ Unlock("mm")
  /\ handlers' = [handlers EXCEPT ![thread.irq] = <<thread.handler>> \o @]
  /\ Goto("attach_sti")
  /\ UNCHANGED <<pic, timers, initDone, iflag, irq>>

AttachSti ==
  /\ At("attach_sti")
  /\ iflag' = IF initDone THEN TRUE ELSE iflag
  /\ Goto("attach_unlock")
  /\ UNCHANGED <<pic, handlers, timers, lock, initDone, irq>>

AttachUnlock ==
  /\ At("attach_unlock") /\ Unlock("interrupt") /\ Goto("idle")
  /\ UNCHANGED <<pic, handlers, timers, initDone, iflag, irq>>

Attaching == {"attach_cli", "attach_mm", "attach_link", "attach_sti", "attach_unlock"}

----------------------------------------------------------------------------
(* Timer_AttachTimerHandler, and the calls to the controllers.             *)

AttachTimer ==
  /\ At("idle") /\ timers < MaxTimers
  /\ Lock("timer") /\ Goto("timer_link")
  /\ UNCHANGED <<pic, handlers, timers, initDone, iflag, irq>>

TimerLink ==
  /\ At("timer_link")
  /\ timers' = timers + 1
  /\ Goto("timer_unlock")
  /\ UNCHANGED <<pic, handlers, lock, initDone, iflag, irq>>

TimerUnlock ==
  /\ At("timer_unlock") /\ Unlock("timer") /\ Goto("idle")
  /\ UNCHANGED <<pic, handlers, timers, initDone, iflag, irq>>

Enable(n) ==
  /\ At("idle")
  /\ pic' = PIC_EnableIRQ(pic, n)
  /\ UNCHANGED <<handlers, timers, lock, initDone, iflag, thread, irq>>

Disable(n) ==
  /\ At("idle")
  /\ pic' = PIC_DisableIRQ(pic, n)
  /\ UNCHANGED <<handlers, timers, lock, initDone, iflag, thread, irq>>

----------------------------------------------------------------------------
(* The memory manager's fatal errors.                                      *)

FatalGoto(at) == thread' = [thread EXCEPT !.fatal = at]

\* MM_KAlloc finds no memory, in a driver or in one of the two calls that
\* attach; or a driver frees what it may not.  The error is logged under the
\* log's lock, with the interrupts as the caller left them.
Fatal ==
  /\ \E pc \in {"idle", "attach_link", "timer_link"} : At(pc)
  /\ FatalGoto("lock")
  /\ UNCHANGED <<pic, handlers, timers, lock, initDone, iflag, irq>>

FatalAt(at) == irq.pc = "none" /\ thread.fatal = at

FatalLock ==
  /\ FatalAt("lock") /\ Lock("log") /\ FatalGoto("entry")
  /\ UNCHANGED <<pic, handlers, timers, initDone, iflag, irq>>

FatalUnlock ==
  /\ FatalAt("entry") /\ Unlock("log") /\ FatalGoto("halt")
  /\ UNCHANGED <<pic, handlers, timers, initDone, iflag, irq>>

\* halt disables the interrupts and never returns.
Halt ==
  /\ FatalAt("halt") /\ FatalGoto("halted")
  /\ iflag' = FALSE
  /\ UNCHANGED <<pic, handlers, timers, lock, initDone, irq>>

----------------------------------------------------------------------------
(* Interrupt_Handle, entered through the gates IRQ_00 .. IRQ_0F.           *)

NotInIrq == [pc |-> "none", n |-> 0, left |-> <<>>]

Request(n) ==
  /\ pic' = Raise(pic, n)
  /\ UNCHANGED <<handlers, timers, lock, initDone, iflag, thread, irq>>

\* The processor takes an interrupt between any two steps of the thread.
TakeInterrupt ==
  /\ irq.pc = "none" /\ iflag /\ Next_IRQ(pic) # -1
  /\ pic' = Acknowledged(pic)
  /\ iflag' = FALSE
  /\ irq' = [NotInIrq EXCEPT !.pc = "lock", !.n = Next_IRQ(pic)]
  /\ UNCHANGED <<handlers, timers, lock, initDone, thread>>

HandleLock ==
  /\ irq.pc = "lock" /\ Lock("interrupt") /\ IrqGoto("look")
  /\ UNCHANGED <<pic, handlers, timers, initDone, iflag, thread>>

\* With no handler the interrupt is only logged: not masked, and its service
\* is not ended.
NoHandler ==
  /\ irq.pc = "look" /\ handlers[irq.n] = <<>>
  /\ Lock("log") /\ IrqGoto("no_handler")
  /\ UNCHANGED <<pic, handlers, timers, initDone, iflag, thread>>

NoHandlerLogged ==
  /\ irq.pc = "no_handler" /\ Unlock("log") /\ IrqGoto("release")
  /\ UNCHANGED <<pic, handlers, timers, initDone, iflag, thread>>

HandleMask ==
  /\ irq.pc = "look" /\ handlers[irq.n] # <<>>
  /\ pic' = PIC_MaskAndAcknowledge(pic, irq.n)
  /\ irq' = [irq EXCEPT !.pc = "call", !.left = handlers[irq.n]]
  /\ UNCHANGED <<handlers, timers, lock, initDone, iflag, thread>>

\* A driver's handler says whether it handled the interrupt; the loop goes on
\* to the handler attached before it if it did not.
CallDriver(handled) ==
  /\ irq.pc = "call" /\ irq.left # <<>> /\ Head(irq.left) # Timer_Handler
  /\ irq' = IF handled THEN [irq EXCEPT !.pc = "enable"] ELSE [irq EXCEPT !.left = Tail(@)]
  /\ UNCHANGED <<pic, handlers, timers, lock, initDone, iflag, thread>>

CallTimer ==
  /\ irq.pc = "call" /\ irq.left # <<>> /\ Head(irq.left) = Timer_Handler
  /\ IrqGoto("timer_lock")
  /\ UNCHANGED <<pic, handlers, timers, lock, initDone, iflag, thread>>

TimerLock ==
  /\ irq.pc = "timer_lock" /\ Lock("timer") /\ IrqGoto("timer_walk")
  /\ UNCHANGED <<pic, handlers, timers, initDone, iflag, thread>>

\* Timer_Handler has walked the timers (module Timer) and returns true.
TimerWalk ==
  /\ irq.pc = "timer_walk" /\ Unlock("timer") /\ IrqGoto("enable")
  /\ UNCHANGED <<pic, handlers, timers, initDone, iflag, thread>>

Unhandled_StartAgain ==
  /\ irq.pc = "call" /\ irq.left = <<>>
  /\ irq' = [irq EXCEPT !.left = handlers[irq.n]]
  /\ UNCHANGED <<pic, handlers, timers, lock, initDone, iflag, thread>>

Unhandled ==
  /\ irq.pc = "call" /\ irq.left = <<>>
  /\ Lock("log") /\ IrqGoto("unhandled")
  /\ UNCHANGED <<pic, handlers, timers, initDone, iflag, thread>>

UnhandledLogged ==
  /\ irq.pc = "unhandled" /\ Unlock("log") /\ IrqGoto("enable")
  /\ UNCHANGED <<pic, handlers, timers, initDone, iflag, thread>>

HandleEnable ==
  /\ irq.pc = "enable"
  /\ pic' = PIC_EnableIRQ(pic, irq.n)
  /\ IrqGoto("release")
  /\ UNCHANGED <<handlers, timers, lock, initDone, iflag, thread>>

\* The last call of Interrupt_Handle is Interrupt_Lock: it spins while the
\* lock is set.  Were it to return, EXIT_INTERRUPT would go back to the thread.
HandleRelease ==
  /\ irq.pc = "release"
  /\ IF initDone /\ lock["interrupt"] THEN UNCHANGED vars
     ELSE /\ Lock("interrupt")
          /\ irq' = NotInIrq
          /\ iflag' = TRUE
          /\ UNCHANGED <<pic, handlers, timers, initDone, thread>>

----------------------------------------------------------------------------

Init ==
  /\ pic = PowerOn
  /\ handlers = [n \in IRQs |-> <<>>]
  /\ timers = 0
  /\ lock = [l \in Locks |-> FALSE]
  /\ initDone = FALSE /\ iflag = FALSE
  /\ thread = [pc |-> "PIC_Init", irq |-> 0, handler |-> Timer_Handler, fatal |-> "none"]
  /\ irq = NotInIrq

ThreadStep ==
  \/ InitController \/ InitTimer \/ InitDone \/ StartInterrupts
  \/ AttachLock \/ AttachCli \/ AttachMM \/ AttachLink \/ AttachSti \/ AttachUnlock
  \/ TimerLink \/ TimerUnlock \/ FatalLock \/ FatalUnlock \/ Halt

IrqStep ==
  \/ HandleLock \/ NoHandler \/ NoHandlerLogged \/ HandleMask
  \/ CallDriver(TRUE) \/ CallDriver(FALSE) \/ CallTimer \/ TimerLock \/ TimerWalk
  \/ Unhandled \/ UnhandledLogged \/ HandleEnable \/ HandleRelease

Next ==
  \/ InitController \/ InitTimer \/ InitDone \/ StartInterrupts
  \/ AttachLock \/ AttachCli \/ AttachMM \/ AttachLink \/ AttachSti \/ AttachUnlock
  \/ TimerLink \/ TimerUnlock \/ AttachTimer
  \/ Fatal \/ FatalLock \/ FatalUnlock \/ Halt
  \/ \E n \in Devices, h \in Drivers : AttachHandler(n, h)
  \/ \E n \in Devices \cup {Cascade} : Enable(n) \/ Disable(n)
  \/ \E n \in Devices : Request(n)
  \/ TakeInterrupt
  \/ HandleLock \/ NoHandler \/ NoHandlerLogged \/ HandleMask
  \/ CallDriver(TRUE) \/ CallDriver(FALSE) \/ CallTimer \/ TimerLock \/ TimerWalk
  \/ Unhandled \/ UnhandledLogged \/ HandleEnable \/ HandleRelease

Spec == Init /\ [][Next]_vars

\* The processor executes instructions, whichever context it is in.
FairSpec == Spec /\ WF_vars(ThreadStep) /\ WF_vars(IrqStep)

----------------------------------------------------------------------------
(* Properties.                                                             *)

TypeOK ==
  /\ pic \in [mask : SUBSET IRQs, master : Chip, slave : Chip]
  /\ handlers \in [IRQs -> Seq(Drivers \cup {Timer_Handler})]
  /\ timers \in Nat
  /\ lock \in [Locks -> BOOLEAN]
  /\ initDone \in BOOLEAN /\ iflag \in BOOLEAN
  /\ thread.irq \in IRQs
  /\ irq.n \in IRQs /\ irq.left \in Seq(Drivers \cup {Timer_Handler})

\* Interrupt_Handle between its two calls of Interrupt_Lock.
Serving == irq.pc \notin {"none", "lock"}

\* Where Interrupt_Handle writes its message under the log's lock.
Logging == {"no_handler", "unhandled"}

\* Interrupt_Handle never walks a list of handlers, nor Timer_Handler the
\* list of timers, while the thread it interrupted is in the middle of
\* changing that list; nor does it log in the middle of the thread's message.
ListsNotTorn ==
  /\ Serving => thread.pc \notin Attaching
  /\ irq.pc = "timer_walk" => thread.pc \notin {"timer_link", "timer_unlock"}
  /\ irq.pc \in Logging => thread.fatal # "entry"

\* A lock is set exactly while the thread or the interrupt that took it is
\* between its lock and its unlock: no path leaves a lock set behind, or
\* clears a lock it does not hold.  (Where a fatal error halts the machine,
\* the thread keeps the locks of the call it was in.)
LocksAccounted ==
  initDone =>
    /\ lock["interrupt"] <=> Serving \/ thread.pc \in Attaching
    /\ lock["timer"] <=> irq.pc = "timer_walk" \/ thread.pc \in {"timer_link", "timer_unlock"}
    /\ lock["mm"] <=> thread.pc = "attach_link"
    /\ lock["log"] <=> irq.pc \in Logging \/ thread.fatal = "entry"

\* While handlers of an interrupt run, that interrupt is masked and no longer
\* in service at either controller: the device may raise it again, and the
\* other interrupts are not held back by it.
ServedOutsideController ==
  irq.pc \in {"call", "timer_lock", "timer_walk", "unhandled", "enable"} =>
    /\ pic.master.isr = {} /\ pic.slave.isr = {}
    /\ IF irq.n < 8 THEN irq.n \in pic.master.imr ELSE irq.n - 8 \in pic.slave.imr

\* Once interrupts are on, the master masks what l_nPICMask says, and the
\* slave does too or masks nothing (no interrupt of its was enabled yet).
MaskAgrees ==
  iflag => /\ pic.master.imr = PICLower(pic)
           /\ pic.slave.imr \in {PICUpper(pic), {}}

\* Where Interrupt_Handle or Timer_Handler takes lock l after its first lock.
Takes(l) ==
  \/ l = "timer" /\ irq.pc = "timer_lock"
  \/ l = "log" /\ irq.pc = "look" /\ handlers[irq.n] = <<>>
  \/ l = "log" /\ irq.pc = "call" /\ irq.left = <<>>

\* An interrupt that got past Interrupt_Handle's first lock gets to its last
\* call, whatever its handlers answer, unless it comes to a lock that the
\* thread it interrupted holds: the timer's, or the log's while the thread
\* logs a fatal error.
ServiceEnds ==
  irq.pc = "look" ~> (irq.pc = "release" \/ \E l \in {"timer", "log"} : Takes(l) /\ lock[l])

\* "Release" (interrupt.c:178): Interrupt_Handle gives its lock back at its
\* end, so every interrupt that is taken is returned from.
InterruptReturns == irq.pc # "none" ~> irq.pc = "none"

\* "Disable all interrupts for now" (8259a.c:48): after PIC_Init both
\* controllers mask everything.
AllMaskedAfterInit ==
  thread.pc = "Timer_Init" => pic.master.imr = Lines /\ pic.slave.imr = Lines
============================================================================

-------------------------------- MODULE Timer --------------------------------
(***************************************************************************)
(* The tick counter and timer_sleep of drivers/timer.c.                    *)
(*                                                                         *)
(* g_ticks is 64 bits wide on a 32-bit machine: the handler adds to it in  *)
(* one piece (interrupts are off in it), the sleeper loads it in two       *)
(* halves, in an order that is the compiler's choice, and a tick may fall  *)
(* between them.                                                           *)
(*                                                                         *)
(* Two functions of the repository answer the timer's interrupt.  The one  *)
(* of boot/idt.c, irq0_handler, is named for the gate idt_init installs,   *)
(* and counts only the kernel's ticks: a g_ticks of its own in             *)
(* kernel/generic.c (line 277), which only time stamps and clocks read and *)
(* which is left out.  The driver's own, timer_irq_handler, moves the      *)
(* g_ticks that timer_sleep waits for, and has no caller in the            *)
(* repository, as timer_init has none.  Either may answer an interrupt     *)
(* here, and nothing is assumed of how often: that the driver's goes on    *)
(* being called is a premise of what needs it.                             *)
(*                                                                         *)
(* Bounds: MAX_TICKS stops the counter, and a sleep starts only when it    *)
(* can end before that; at most one interrupt falls between two steps of a *)
(* running sleeper, which takes a few instructions in a 10 ms period.      *)
(***************************************************************************)
EXTENDS Integers

CONSTANTS HALF,       \* values of the low half (2^32)
          HZ,         \* TIMER_HZ (100)
          WIDTH,      \* values of the uint32_t product ms * TIMER_HZ
          Ms,         \* the sleeps callers ask for, in milliseconds
          MAX_TICKS   \* bound on the counter

TimerAssumption == /\ HALF \in Nat \ {0}
                   /\ HZ \in Nat \ {0}
                   /\ WIDTH \in Nat \ {0}
                   /\ Ms \subseteq Nat
                   /\ MAX_TICKS \in Nat

VARIABLES lo, hi,     \* the halves of g_ticks
          pc,         \* where timer_sleep is
          part,       \* the half it has loaded: <<which, value>>
          end,        \* its local end
          need,       \* the ticks it computed that it has to wait
          asked,      \* the ticks in the milliseconds it was asked for
          start,      \* g_ticks when it was called
          torn,       \* a tick carried into hi between two half loads
          late        \* an interrupt has come since the sleeper's last step

vars == <<lo, hi, pc, part, end, need, asked, start, torn, late>>

Now == hi * HALF + lo

(* The ticks in ms milliseconds, the last one begun not counted.           *)
TicksIn(ms) == (ms * HZ) \div 1000

(* ms*TIMER_HZ/1000 in uint32_t arithmetic: what the code waits for.       *)
TicksFor(ms) == ((ms * HZ) % WIDTH) \div 1000

Init == /\ lo = 0 /\ hi = 0
        /\ pc = "idle"
        /\ part = <<"lo", 0>>
        /\ end = 0
        /\ need = 0
        /\ asked = 0
        /\ start = 0
        /\ torn = FALSE
        /\ late = FALSE

Loading == pc \in {"end2", "cmp2"}      \* between the two half loads

HiNext == IF lo = HALF - 1 THEN hi + 1 ELSE hi

(* Any interrupt ends the sleeper's hlt.                                   *)
Interrupt == /\ pc \in {"idle", "hlt"} \/ ~late
             /\ pc' = IF pc = "hlt" THEN "cmp1" ELSE pc
             /\ late' = (pc \notin {"idle", "hlt"})
             /\ UNCHANGED <<part, end, need, asked, start>>

(* The handler of the driver, for whoever installs it.                     *)
timer_irq_handler == /\ Interrupt
                     /\ IF Now < MAX_TICKS
                          THEN lo' = (lo + 1) % HALF /\ hi' = HiNext
                          ELSE UNCHANGED <<lo, hi>>
                     /\ torn' = (torn \/ (Loading /\ hi' # hi))

(* The handler of boot/idt.c: the sleeper wakes, and its counter stands.   *)
irq0_handler == Interrupt /\ UNCHANGED <<lo, hi, torn>>

Step(from, to) == pc = from /\ pc' = to /\ late' = FALSE /\ UNCHANGED <<lo, hi>>

timer_sleep(ms) == /\ Step("idle", "end1")
                   /\ Now + TicksFor(ms) + HALF + 2 <= MAX_TICKS
                   /\ need' = TicksFor(ms)
                   /\ asked' = TicksIn(ms)
                   /\ start' = Now
                   /\ torn' = FALSE
                   /\ UNCHANGED <<part, end>>

(* The first half of a 64-bit load, either half first.                     *)
LoadFirst(from, to) == /\ Step(from, to)
                       /\ part' \in {<<"lo", lo>>, <<"hi", hi>>}
                       /\ UNCHANGED <<end, need, asked, start, torn>>

(* What the two loads make together.                                       *)
Loaded == IF part[1] = "lo" THEN hi * HALF + part[2] ELSE part[2] * HALF + lo

ComputeEnd == /\ Step("end2", "cmp1")
              /\ end' = Loaded + need
              /\ UNCHANGED <<part, need, asked, start, torn>>

(* Mutants: the comparison lets the sleeper go a tick early, or never.     *)
DueEarly == Loaded + 1 >= end

DueNever == FALSE

Due == ~(Loaded < end)

(* The loop's test, then its hlt: a tick between the two does not wake.    *)
Compare == /\ \/ Due /\ Step("cmp2", "idle")
              \/ ~Due /\ Step("cmp2", "halt")
           /\ UNCHANGED <<part, end, need, asked, start, torn>>

Halt == Step("halt", "hlt") /\ UNCHANGED <<part, end, need, asked, start, torn>>

Sleeper == \/ LoadFirst("end1", "end2")
           \/ ComputeEnd
           \/ LoadFirst("cmp1", "cmp2")
           \/ Compare
           \/ Halt

Next == timer_irq_handler \/ irq0_handler \/ Sleeper \/ \E ms \in Ms : timer_sleep(ms)

Spec == Init /\ [][Next]_vars

(* The sleeper's processor runs; nobody has to send it an interrupt.       *)
FairSpec == Spec /\ WF_vars(Sleeper)

-----------------------------------------------------------------------------
(* A sleep returns only when as many ticks have passed as are in the       *)
(* milliseconds it was asked for, wherever the interrupts fall, with two   *)
(* exceptions.  Its load of the counter was torn, and that takes a carry   *)
(* of the low half during the sleep; or the product of line 20 ran over    *)
(* the 32 bits, and then it sleeps for what was left of it.                *)
SleepLongEnough ==
  [][pc = "cmp2" /\ pc' = "idle" =>
       \/ Now >= start + asked
       \/ torn /\ hi > start \div HALF
       \/ need < asked /\ Now >= start + need]_vars

(* Provided that the handler of the driver goes on being called, every     *)
(* sleep ends, also the one that tests just before a tick and halts just   *)
(* after it, the one woken by interrupts that do not count, and the one    *)
(* whose load was torn.  With the handler of boot/idt.c alone a sleep of a *)
(* tick or more never ends.                                                *)
SleepReturns == []<><<timer_irq_handler>>_vars => (pc = "end1" ~> pc = "idle")
=============================================================================

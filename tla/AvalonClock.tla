---------------------------- MODULE AvalonClock ----------------------------
(***************************************************************************)
(* The arithmetic of Avalon's clock (sys/scheduler/x86/avalon.asm), as     *)
(* pure operators.  A 64 bit quantity is a number below Word * Word, and   *)
(* Hi and Lo are its two registers.                                        *)
(***************************************************************************)
EXTENDS Integers

CONSTANTS Word,     \* 2^32, the range of a register
          Short,    \* 2^16, the one of 16.16 fixed point numbers
          PitLimit, \* 65536, the range of a PIT counter
          AdjMult,  \* _PIT_ADJ_MULT_: ticks per microsecond, fixed point 1.31
          AdjDiv    \* _PIT_ADJ_DIV_:  microseconds per tick, fixed point 1.31

ASSUME ClockAssumption ==
    /\ {Word, Short, PitLimit, AdjMult, AdjDiv} \subseteq Nat \ {0, 1}
    /\ Short < Word /\ AdjMult < Word /\ AdjDiv < Word
    /\ Word % 2 = 0 /\ PitLimit % 2 = 0

Long       == Word * Word
Hi(x)      == x \div Word
Lo(x)      == x % Word
Join(h, l) == h * Word + l
Words(x)   == [hi |-> Hi(x), lo |-> Lo(x)]
Add(x, y)  == (x + y) % Long
Sub(x, y)  == (x + Long - y) % Long
Signed(w)  == IF w < Word \div 2 THEN w ELSE w - Word

\* A 1.31 product: the value is doubled, the low half of the product dropped.
Scale(x, by)  == (((2 * x) % Long) * by) \div Word
uuu2ticks(us) == Scale(us, AdjMult)
ticks2uuu(t)  == Scale(t, AdjDiv)

\* Fault: the count is shifted right by one on its way to the PIT.
set_timerHalves(n) == n \div 2

\* Fault: the top bit is set where it is to be cleared.
set_timerSetsTop(n) == (n % (PitLimit \div 2)) + (PitLimit \div 2)

\* __set_timer: the count handed to the PIT, "keep only the lowest 15bits".
set_timer(n) == n % (PitLimit \div 2)

\* __resolution_programmer, the one timer procedure that returns.
resolution_programmer(c) == [c EXCEPT !.per = c.new, !.pit = set_timer(c.new)]

\* Fault: the last correction is not clipped to what is left of the drift.
StepOfUnclipped(c, amount) == amount

(* How much of the drift one interrupt works off: amount whole ticks, with *)
(* the sign of the drift, and no more than is left of it; "jl" and "jg"    *)
(* compare the low registers as signed numbers.                            *)
StepOf(c, amount) ==
    LET back == (Word - amount) % Word
        left == Lo(c.drift)
    IN  IF Hi(c.drift) < Word \div 2
        THEN IF Hi(c.drift) # 0 \/ Signed(amount) < Signed(left) THEN amount ELSE left
        ELSE IF Hi(c.drift) # Word - 1 \/ Signed(back) > Signed(left) THEN back ELSE left

(* .correct_drift: the rate is added to the fraction kept from the last    *)
(* interrupt, and the whole ticks of the sum move from drift to ticks.     *)
correct_drift(c) ==
    LET sum    == (c.frac + c.rate) % Word
        amount == sum \div Short
        step   == StepOf(c, amount)
        kept   == [c EXCEPT !.frac = sum % Short]
    IN  IF amount = 0 THEN kept
        ELSE [kept EXCEPT !.drift = Sub(@, step), !.ticks = Add(@, step)]

\* Fault: ticks_per_irq is not added.
tickForgetsIrq(c) == IF c.drift = 0 THEN c ELSE correct_drift(c)

\* "compute new ticks count"
tick(c) ==
    LET d == IF c.drift = 0 THEN c ELSE correct_drift(c)
    IN  [d EXCEPT !.ticks = Add(@, c.per)]
=============================================================================

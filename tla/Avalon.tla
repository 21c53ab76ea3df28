------------------------------- MODULE Avalon -------------------------------
(***************************************************************************)
(* Avalon, the realtime scheduler (sys/scheduler/x86/avalon.asm): the init *)
(* thread calls the scheduler while the PIT interrupts it between any two  *)
(* instructions.  The interrupt handler runs with interrupts off and is    *)
(* one step; a call is split where the handler can see or change what it   *)
(* works on.                                                               *)
(*                                                                         *)
(* machine  "running", or how it stopped: "hung" in a timer procedure that *)
(*          is still an endless loop (avalon.asm:843), "lock_2" in the     *)
(*          handler's sanity lock, "wild" after a jump to garbage.         *)
(* exec     executing_thread.                                              *)
(* clock    ticks_count, tick_drift, its rate and cumulated fraction,      *)
(*          ticks_per_irq, new_ticks_per_irq, the PIT's own counter and    *)
(*          system_time_adjustment.                                        *)
(* pools    the thread pools.                                              *)
(* q, time  links and execution time of the ring nodes.                    *)
(* thread   execution_status, what is on the stack, and how often the      *)
(*          client holds the thread.                                       *)
(* armed    the timers whose registration was completed and that the       *)
(*          handler has not removed yet.                                   *)
(* call     the call the running thread is in.                             *)
(*                                                                         *)
(* A call that fails a check before its first store changes nothing and is *)
(* an action that is not enabled.  Allow names uses of the scheduler that  *)
(* a run lets the client make although they are known to go wrong.         *)
(***************************************************************************)
EXTENDS RingLinks, AvalonClock, AvalonPools, SequencesExt

CONSTANTS BootPools,      \* the pre-allocated pools, in the order they are added
          BootResolution, \* _RT_TIMER_RESOLUTION_
          Resolutions, Micros, Delays, Deadlines, Priorities, Drifts, Rates, Times,
          Before,         \* what may precede timer_ring in memory, as a time
          MaxTicks,       \* bound on ticks_count
          Allow

Uses == {"early_schedule", "change_resolution", "release"}

ASSUME AvalonAssumption ==
    /\ BootPools \in Seq(Pool) /\ BootPools # <<>>
    /\ BootResolution \in 2 .. PitLimit - 1
    /\ MaxTicks \in Nat /\ Allow \subseteq Uses

VARIABLES machine, exec, clock, pools, q, time, thread, armed, call

vars == <<machine, exec, clock, pools, q, time, thread, armed, call>>

timer_ring          == <<"timer_ring">>
ready_for_execution == <<"ready_for_execution">>
Reprogram           == <<"reprogram">>
Start(t)            == <<"start", t>>
End(t)              == <<"end", t>>
Node == {timer_ring, ready_for_execution, Reprogram}
          \cup {Start(t) : t \in Thread} \cup {End(t) : t \in Thread}

NoCall == [pc |-> "idle"]

\* The pools after add_pool of each pre-allocated one.
BootPool == [ring |-> Reverse(BootPools),
             free |-> [b \in Pool |-> IF b \in ToSet(BootPools) THEN Slot ELSE {}]]
InitThread == acquired(BootPool)

(* __scheduler_init.  The 32 bit store of init's priority clears its       *)
(* status; its start time goes to address 0 instead, so that init's place  *)
(* on the ready ring has the value 0.  Interrupts start with the boot      *)
(* resolution waiting on the timer ring for the first of them.             *)
Init ==
    /\ machine = "running"
    /\ exec = InitThread
    /\ clock = [ticks |-> 0, drift |-> 0, rate |-> 0, frac |-> 0, per |-> 0,
                new |-> BootResolution, pit |-> 0, adj |-> 0]
    /\ pools = acquire(BootPool)
    /\ q = insert_after(insert_after(Alone(Node), Start(InitThread), ready_for_execution),
                        Reprogram, timer_ring)
    /\ \E before \in Before :
         time = [n \in Node |-> IF n = timer_ring THEN before ELSE 0]
    /\ thread = [t \in Thread |->
                   [status |-> 0, frame |-> IF t = InitThread THEN "saved" ELSE "none", held |-> 0]]
    /\ armed = {Reprogram}
    /\ call = NoCall
-----------------------------------------------------------------------------
Running == machine = "running"
CanCall == Running /\ call.pc = "idle" /\ clock.ticks <= MaxTicks

\* Not scheduled, and both nodes loop back: the checks of three calls.
Unused(t) ==
    /\ thread[t].status = 0
    /\ q.next[Start(t)] = Start(t)
    /\ q.next[End(t)] = End(t)

Held(t) == thread[t].held > 0

thread_add_pool(b) ==
    /\ CanCall
    /\ b \notin ToSet(pools.ring)
    /\ pools' = add_pool(pools, b)
    /\ UNCHANGED <<machine, exec, clock, q, time, thread, armed, call>>

thread_acquire ==
    /\ CanCall
    /\ CanAcquire(pools)
    /\ LET t == acquired(pools) IN
         /\ q' = [next |-> [q.next EXCEPT ![Start(t)] = Start(t), ![End(t)] = End(t)],
                  prev |-> [q.prev EXCEPT ![Start(t)] = Start(t), ![End(t)] = End(t)]]
         /\ thread' = [thread EXCEPT ![t].status = 0, ![t].held = @ + 1]
    /\ pools' = acquire(pools)
    /\ UNCHANGED <<machine, exec, clock, time, armed, call>>

thread_release(t) ==
    /\ CanCall
    /\ "release" \in Allow
    /\ Held(t)
    /\ Unused(t)
    /\ CanRelease(pools, t)
    /\ pools' = release(pools, t)
    /\ thread' = [thread EXCEPT ![t].held = @ - 1]
    /\ UNCHANGED <<machine, exec, clock, q, time, armed, call>>

thread_initialize(t) ==
    /\ CanCall
    /\ Held(t)
    /\ Unused(t)
    /\ thread' = [thread EXCEPT ![t].frame = "built"]
    /\ UNCHANGED <<machine, exec, clock, pools, q, time, armed, call>>
-----------------------------------------------------------------------------
(* thread.schedule registers the end timer, and then the start timer or,   *)
(* for a delay of 0, the thread itself on the ready ring.  The 32 bit      *)
(* store of the priority overwrites the status with its third byte.        *)
thread_schedule(t, priority, start, end) ==
    /\ CanCall
    /\ "early_schedule" \in Allow \/ Reprogram \notin armed \/ clock.ticks > 0
    /\ Held(t)
    /\ thread[t].frame = "built"
    /\ Unused(t)
    /\ \A d \in {start, end} : clock.ticks + uuu2ticks(d) <= MaxTicks
    /\ thread' = [thread EXCEPT ![t].status = (priority \div Short) % 256]
    /\ call' = [pc |-> "low", kind |-> "end", node |-> End(t), ring |-> timer_ring,
                t |-> t, priority |-> priority, start |-> start, delay |-> end,
                sum |-> 0, at |-> <<timer_ring, timer_ring>>]
    /\ UNCHANGED <<machine, exec, clock, pools, q, time, armed>>

\* add eax, [ticks_count]
ReadTicksLow ==
    /\ Running
    /\ call.pc = "low"
    /\ call' = [call EXCEPT !.pc = "high", !.sum = Lo(uuu2ticks(call.delay)) + Lo(clock.ticks)]
    /\ UNCHANGED <<machine, exec, clock, pools, q, time, thread, armed>>

(* ring_queue.link_ordered_64 begins: a node that does not loop back is    *)
(* refused, and a failed start timer takes the end timer with it.          *)
LinkBegin(c) ==
    IF LoopsBack(q, c.node)
    THEN /\ call' = [c EXCEPT !.pc = "search", !.at = <<c.ring, q.next[c.ring]>>]
         /\ UNCHANGED <<q, armed>>
    ELSE /\ call' = NoCall
         /\ armed' = armed \ {End(c.t)}
         /\ q' = IF c.kind # "end" /\ CanRemove(q, End(c.t)) THEN remove(q, End(c.t)) ELSE q

\* adc edx, [ticks_count + 4]; the sum is stored and the timer registered.
ReadTicksHigh ==
    /\ Running
    /\ call.pc = "high"
    /\ time' = [time EXCEPT ![call.node] =
                  ((Hi(uuu2ticks(call.delay)) + Hi(clock.ticks)) * Word + call.sum) % Long]
    /\ LinkBegin(call)
    /\ UNCHANGED <<machine, exec, clock, pools, thread>>

\* .ready_immediately: the start timer's node goes on the ready ring.
ReadyImmediately ==
    /\ Running
    /\ call.pc = "ready"
    /\ time' = [time EXCEPT ![Start(call.t)] = call.priority]
    /\ LinkBegin([call EXCEPT !.kind = "ready", !.node = Start(call.t), !.ring = ready_for_execution])
    /\ UNCHANGED <<machine, exec, clock, pools, thread>>

(* One round of link_ordered_64's search.  When the next node does not     *)
(* point back the error return pops the wrong words off the stack.         *)
LinkSearch ==
    /\ Running
    /\ call.pc = "search"
    /\ LET b    == call.at[2]
           stop == b = call.ring \/ StopsBefore(Words(time[call.node]), Words(time[b]))
           back == q.prev[b] = call.at[1]
       IN  /\ machine' = IF back THEN machine ELSE "wild"
           /\ call' = IF stop THEN [call EXCEPT !.pc = "left"]
                              ELSE [call EXCEPT !.at = <<b, q.next[b]>>]
    /\ UNCHANGED <<exec, clock, pools, q, time, thread, armed>>

(* The stores of link_ordered_64 and insert_after: the node's own links,   *)
(* which nobody follows yet, with the left neighbour's, then the right's.  *)
StoreLeft ==
    /\ Running
    /\ call.pc = "left"
    /\ q' = [next |-> [q.next EXCEPT ![call.node] = call.at[2], ![call.at[1]] = call.node],
             prev |-> [q.prev EXCEPT ![call.node] = call.at[1]]]
    /\ call' = [call EXCEPT !.pc = "right"]
    /\ UNCHANGED <<machine, exec, clock, pools, time, thread, armed>>

(* What follows a completed link: the start timer after the end timer; for *)
(* the ready ring a call of __re_evaluate_execution_priority, which loops. *)
AfterLink ==
    CASE call.kind = "end" /\ call.start = 0 -> [call EXCEPT !.pc = "ready"]
      [] call.kind = "end" /\ call.start # 0 ->
           [call EXCEPT !.pc = "low", !.kind = "start", !.node = Start(call.t), !.delay = call.start]
      [] call.kind = "ready" -> [pc |-> "spin"]
      [] OTHER -> NoCall

\* Fault: the right neighbour keeps pointing at the left one.
StoreRightSkipped ==
    /\ Running
    /\ call.pc = "right"
    /\ armed' = IF call.kind = "ready" THEN armed ELSE armed \cup {call.node}
    /\ call' = AfterLink
    /\ UNCHANGED <<machine, exec, clock, pools, q, time, thread>>

StoreRight ==
    /\ Running
    /\ call.pc = "right"
    /\ q' = [q EXCEPT !.prev[call.at[2]] = call.node]
    /\ armed' = IF call.kind = "ready" THEN armed ELSE armed \cup {call.node}
    /\ call' = AfterLink
    /\ UNCHANGED <<machine, exec, clock, pools, time, thread>>
-----------------------------------------------------------------------------
(* set_timer_resolution_ticks: both stores of the time go to its high      *)
(* word (TIMER_R_EXEC, avalon.asm:242), and the node goes first on the     *)
(* ring.  It may still be linked from an earlier call.                     *)
ChangeResolution(n) ==
    /\ CanCall
    /\ "change_resolution" \in Allow
    /\ n >= 2 /\ n <= PitLimit - 1
    /\ clock' = [clock EXCEPT !.new = n]
    /\ time' = [time EXCEPT ![Reprogram] = Join(Lo(clock.ticks), Lo(@))]
    /\ call' = IF CanInsertAfter(q, Reprogram, timer_ring)
               THEN [pc |-> "left", kind |-> "resolution", node |-> Reprogram,
                     at |-> <<timer_ring, q.next[timer_ring]>>]
               ELSE NoCall
    /\ UNCHANGED <<machine, exec, pools, q, thread, armed>>

set_timer_resolution_ticks == \E n \in Resolutions : ChangeResolution(n)

\* The product's low half is passed on, not the ticks in its high half.
set_timer_resolution == \E us \in Micros : ChangeResolution((us * AdjMult) % Word)

set_tick_drift_correction_rate(r) ==
    /\ CanCall
    /\ clock' = [clock EXCEPT !.rate = r]
    /\ UNCHANGED <<machine, exec, pools, q, time, thread, armed, call>>

correct_tick_drift(d) ==
    /\ CanCall
    /\ clock' = [clock EXCEPT !.drift = Join(Hi(@), Lo(d))]
    /\ call' = [pc |-> "drift", drift |-> d]
    /\ UNCHANGED <<machine, exec, pools, q, time, thread, armed>>

StoreDriftHigh ==
    /\ Running
    /\ call.pc = "drift"
    /\ clock' = [clock EXCEPT !.drift = Join(Hi(call.drift), Lo(@))]
    /\ call' = NoCall
    /\ UNCHANGED <<machine, exec, pools, q, time, thread, armed>>

\* set_uuutime begins with get_uuutime, which reads ticks_count in two halves.
set_uuutime(t) ==
    /\ CanCall
    /\ call' = [pc |-> "time", low |-> Lo(clock.ticks), since |-> clock.ticks, to |-> t]
    /\ UNCHANGED <<machine, exec, clock, pools, q, time, thread, armed>>

get_uuutime(low) == Add(ticks2uuu(Join(Hi(clock.ticks), low)), clock.adj)

\* Fault: the adjustment made so far is forgotten.
AdjustTimeAfresh ==
    /\ Running
    /\ call.pc = "time"
    /\ clock' = [clock EXCEPT !.adj = Sub(call.to, get_uuutime(call.low))]
    /\ call' = NoCall
    /\ UNCHANGED <<machine, exec, pools, q, time, thread, armed>>

AdjustTime ==
    /\ Running
    /\ call.pc = "time"
    /\ clock' = [clock EXCEPT !.adj = Add(@, Sub(call.to, get_uuutime(call.low)))]
    /\ call' = NoCall
    /\ UNCHANGED <<machine, exec, pools, q, time, thread, armed>>
-----------------------------------------------------------------------------
\* Fault: times are compared with the count before this interrupt.
VisitLate(lk, x, now) ==
    LET y == lk.next[x] IN
    IF y = x \/ (lk.prev[y] = x /\ time[y] > clock.ticks) THEN "cycled"
    ELSE IF lk.prev[y] # x \/ ~CanRemove(lk, y) THEN "lock_2"
    ELSE IF y = Reprogram THEN "reprogram"
    ELSE IF y = timer_ring THEN "wild"
    ELSE "hung"

(* One round of the handler's scan, from node x.  A timer that is due is   *)
(* removed and its procedure called; x may be a timer, and then the next   *)
(* node may be the head, whose words are read as if it were one.           *)
Visit(lk, x, now) ==
    LET y == lk.next[x] IN
    IF y = x \/ (lk.prev[y] = x /\ time[y] > now) THEN "cycled"
    ELSE IF lk.prev[y] # x \/ ~CanRemove(lk, y) THEN "lock_2"
    ELSE IF y = Reprogram THEN "reprogram"
    ELSE IF y = timer_ring THEN "wild"
    ELSE "hung"

Settled == call.pc \in {"idle", "spin"}

\* Past MaxTicks the clock runs on only while the timer of a thread is waiting.
InBounds == clock.ticks <= MaxTicks \/ (Settled /\ armed \ {Reprogram} # {})

(* __pit_interrupt_handler.  ring_queue.remove leaves the node behind the  *)
(* removed one in ebx, and the scan goes on behind that node.  The frame   *)
(* that thread.initialize builds has no room for the code segment iretd    *)
(* pops, so a thread that never ran resumes at a wild address.             *)
pit_interrupt ==
    /\ Running
    /\ InBounds
    /\ LET c      == tick(clock)
           first  == Visit(q, timer_ring, c.ticks)
           again  == first = "reprogram"
           from   == IF again THEN q.next[Reprogram] ELSE timer_ring
           q1     == IF again THEN remove(q, Reprogram) ELSE q
           last   == IF again THEN Visit(q1, from, c.ticks) ELSE first
           taken  == IF last = "hung" THEN {q1.next[from]} ELSE {}
           t      == q1.next[ready_for_execution][2]
           frames == [thread EXCEPT ![exec].frame = "saved"]
       IN  /\ clock' = IF again THEN resolution_programmer(c) ELSE c
           /\ q' = IF last = "hung" THEN remove(q1, q1.next[from]) ELSE q1
           /\ armed' = armed \ (taken \cup (IF again THEN {Reprogram} ELSE {}))
           /\ thread' = frames
           /\ exec' = IF last = "cycled" THEN t ELSE exec
           /\ machine' = IF last # "cycled" THEN last
                         ELSE IF frames[t].frame = "built" THEN "wild" ELSE "running"
    /\ UNCHANGED <<pools, time, call>>
-----------------------------------------------------------------------------
ClientCall ==
    \/ \E b \in Pool : thread_add_pool(b)
    \/ thread_acquire
    \/ \E t \in Thread : thread_release(t)
    \/ \E t \in Thread : thread_initialize(t)
    \/ \E t \in Thread, p \in Priorities, s \in Delays, e \in Deadlines : thread_schedule(t, p, s, e)
    \/ set_timer_resolution_ticks
    \/ set_timer_resolution
    \/ \E r \in Rates : set_tick_drift_correction_rate(r)
    \/ \E d \in Drifts : correct_tick_drift(d)
    \/ \E t \in Times : set_uuutime(t)

CallStep ==
    \/ ReadTicksLow
    \/ ReadTicksHigh
    \/ ReadyImmediately
    \/ LinkSearch
    \/ StoreLeft
    \/ StoreRight
    \/ StoreDriftHigh
    \/ AdjustTime

Next == ClientCall \/ CallStep \/ pit_interrupt

Spec == Init /\ [][Next]_vars

(* The PIT keeps interrupting, and the interrupted thread is resumed and   *)
(* finishes its call.                                                      *)
FairSpec == Spec /\ WF_vars(pit_interrupt) /\ WF_vars(CallStep)
-----------------------------------------------------------------------------
Ticks == 0 .. Long - 1

\* Every field of the scheduler's state stays in its range.
TypeOK ==
    /\ machine \in {"running", "hung", "lock_2", "wild"}
    /\ exec \in Thread
    /\ clock \in [ticks : Ticks, drift : Ticks, rate : 0 .. Word - 1, frac : 0 .. Short - 1,
                  per : 0 .. PitLimit - 1, new : 2 .. PitLimit - 1,
                  pit : 0 .. PitLimit \div 2 - 1, adj : Ticks]
    /\ pools.ring \in Seq(Pool) /\ pools.free \in [Pool -> SUBSET Slot]
    /\ q.next \in [Node -> Node] /\ q.prev \in [Node -> Node]
    /\ time \in [Node -> Ticks]
    /\ thread \in [Thread -> [status : 0 .. 255, frame : {"none", "built", "saved"}, held : Nat]]
    /\ armed \subseteq Node
    /\ call.pc \in {"idle", "low", "high", "ready", "search", "left", "right", "spin", "drift", "time"}

Chained(s) ==
    LET c == <<timer_ring>> \o s \o <<timer_ring>> IN
    \A i \in 1 .. Len(c) - 1 : q.next[c[i]] = c[i + 1] /\ q.prev[c[i + 1]] = c[i]

(* "Ring list containing all scheduled threads sorted by their execution   *)
(* start time": while the machine runs and no link is half stored, the     *)
(* timer ring leads in both directions through exactly the timers that     *)
(* were registered and did not expire, earliest first, wherever the        *)
(* interrupts fell into thread.schedule.                                   *)
TimerRingHoldsArmed ==
    Running /\ call.pc # "right" =>
      \E s \in SetToSeqs(armed) :
        /\ Chained(s)
        /\ \A i, j \in DOMAIN s : i < j => time[s[i]] <= time[s[j]]

(* "look for all expiring timer": when the handler returns to a thread, no *)
(* registered timer is due, although it stops at the first one that is not *)
(* and threads go on registering timers between interrupts.                *)
NoTimerMissed ==
    [][clock'.ticks # clock.ticks /\ machine' = "running"
         => \A n \in armed' : time[n] > clock'.ticks]_vars

(* No thread outruns its deadline: once thread.schedule has registered an  *)
(* end timer the machine does not run on for ever (an expiring timer ends  *)
(* in __thread_expired, which does not return in this version).            *)
TimersAnswered == \A t \in Thread : (End(t) \in armed) ~> ~Running

(* Right after system_time.set_uuutime the time that get_uuutime computes  *)
(* was the one asked for at some moment of the call, interrupts included.  *)
SetTimeTakes ==
    [][call.pc = "time" /\ call'.pc = "idle"
         => \E x \in call.since .. clock.ticks : Add(ticks2uuu(x), clock'.adj) = call.to]_vars

(* An interrupt advances the clock by ticks_per_irq and by a correction    *)
(* that is taken from the drift, within the rate, and never more than is   *)
(* left: no tick of the drift is lost or applied twice.                    *)
DriftWorkedOff ==
    [][clock'.ticks # clock.ticks =>
         LET step == Sub(clock'.ticks, Add(clock.ticks, clock.per)) IN
         /\ step <= clock.drift
         /\ step <= (clock.rate + Short - 1) \div Short
         /\ clock'.drift = clock.drift - step]_vars

(* The clock counts what the PIT counts: after the first interrupt the     *)
(* number of ticks added per interrupt is the count the PIT was given,     *)
(* through every delayed change of the resolution.                         *)
PitMatchesClock == clock.per # 0 => clock.pit = clock.per

FreeThreads == {t \in Thread : t[2] \in pools.free[t[1]]}
Holdings    == UNION {{t} \X (1 .. thread[t].held) : t \in Thread}

(* thread.acquire and thread.release neither lose a thread nor invent one: *)
(* the free bits, the threads acquired and not released, and init make up  *)
(* all slots of all pools.                                                 *)
ThreadsConserved ==
    Cardinality(FreeThreads) + Cardinality(Holdings) + 1 = Slots * Len(pools.ring)

(* "Thread acquisition requests are searching the thread pools for a free  *)
(* thread entry": no thread is handed out while somebody holds it.         *)
HandedOutOnce == thread[InitThread].held = 0 /\ \A t \in Thread : thread[t].held <= 1
=============================================================================

------------------------------- MODULE Iridia --------------------------------
(***************************************************************************)
(* Iridia, the interrupt manager (sys/interrupts/x86/iridia.asm): threads  *)
(* connect clients to the IRQ lines and disconnect them, set interrupt     *)
(* handlers, and are preempted between any two instructions outside the    *)
(* critical sections; the handler calls the clients of a line with         *)
(* interrupts off.                                                         *)
(*                                                                         *)
(* machine  "running", "wild" after a return to garbage, "locked" in       *)
(*          _unhandled_interrupt.                                          *)
(* q        links of irq_clients (a line is its ring's head) and clients.  *)
(* masked   the lines masked in the two PICs.                              *)
(* serving  the lines the PICs hold in service.                            *)
(* idt      what each vector leads to.                                     *)
(* isr      the interrupt being handled: its line (esi), the node the walk *)
(*          is at (edi) and what .original_top_of_stack holds.             *)
(* call     each thread's irq.disconnect in progress.                      *)
(* line     where the completed calls have put each client (history).      *)
(*                                                                         *)
(* A call refused by the checks on the line number or the client's magic   *)
(* changes nothing and is left out.  Allow names uses that a run lets the  *)
(* threads make although they are known to go wrong.                       *)
(***************************************************************************)
EXTENDS RingLinks, FiniteSets

CONSTANTS
  Line,         \* the IRQ lines in use, numbers below 16
  Client, Thread,
  Fault,        \* the vectors reserved for exceptions
  Claimed,      \* the vectors threads set handlers for
  NoLine,
  Allow

Uses == {"connected", "same line", "same mask", "other line", "cascade", "taken"}

ASSUME LineAssumption ==
  /\ Line \subseteq 0 .. 15
  /\ NoLine \notin Line
  /\ IsFiniteSet(Client)
  /\ Line \cap Client = {} /\ Line \cap Fault = {}
  /\ Claimed \subseteq Line \cup Fault
  /\ Allow \subseteq Uses

VARIABLES machine, q, masked, serving, idt, isr, call, line

vars == <<machine, q, masked, serving, idt, isr, call, line>>

Node == Line \cup Client
Vector == Line \cup Fault
Cascade == 2
Pic(l) == {k \in Line : (k < 8) = (l < 8)}

NoIsr == [line |-> NoLine]
Idle == [pc |-> "idle"]

(* __interrupt_init: every line has the common handler behind its vector   *)
(* and is masked, but for the line of the slave PIC.                       *)
Init ==
  /\ machine = "running"
  /\ q = Alone(Node)
  /\ masked = Line \ {Cascade}
  /\ serving = {}
  /\ idt = [v \in Vector |-> IF v \in Fault THEN "unhandled" ELSE "irq"]
  /\ isr = NoIsr
  /\ call = [t \in Thread |-> Idle]
  /\ line = [c \in Client |-> NoLine]
-----------------------------------------------------------------------------
(* A thread runs while no interrupt is handled. *)
Running == machine = "running"
ThreadRuns == Running /\ isr = NoIsr
InClient == Running /\ isr # NoIsr /\ isr.edi # isr.line

Working(t) == call[t].pc # "idle"

(* Another call is between the in and the out of the PIC's mask. *)
MaskHeld(l) == \E t \in Thread : call[t].pc = "write" /\ call[t].line \in Pic(l)

(* A disconnection that has not returned yet works on the ring of line l,  *)
(* or on client c.                                                         *)
Unfinished(l, c) == \E t \in Thread : Working(t) /\ (call[t].line = l \/ call[t].client = c)

HasClients(l) == \E c \in Client : line[c] = l

set_handler(v, h) ==
  /\ ThreadRuns
  /\ "taken" \in Allow \/ v \in Fault \/ ~HasClients(v)
  /\ idt' = [idt EXCEPT ![v] = h]
  /\ UNCHANGED <<machine, q, masked, serving, isr, call, line>>

unset_handler(v) == set_handler(v, "unhandled")

(* Fault: the client goes in front of the head, at the end of the ring. *)
connect_insertBefore(c, l) ==
  /\ q' = insert_before(q, c, l)
  /\ masked' = masked \ {l}
  /\ line' = [line EXCEPT ![c] = l]
  /\ UNCHANGED machine

(* The client is linked behind the head and the line's mask bit cleared. *)
connect_links(c, l) ==
  /\ q' = insert_after(q, c, l)
  /\ masked' = masked \ {l}
  /\ line' = [line EXCEPT ![c] = l]
  /\ UNCHANGED machine

(* irq.connect, a critical section.  When the insertion is refused, the    *)
(* return takes the flags that are still on the stack for its address.     *)
irq_connect(c, l) ==
  /\ ThreadRuns \/ InClient
  /\ "connected" \in Allow \/ line[c] = NoLine
  /\ "cascade" \in Allow \/ l # Cascade
  /\ "same line" \in Allow \/ ~Unfinished(l, c)
  /\ "same mask" \in Allow \/ ~MaskHeld(l)
  /\ "taken" \in Allow \/ idt[l] = "irq"
  /\ IF CanInsertAfter(q, c, l)
     THEN connect_links(c, l)
     ELSE machine' = "wild" /\ UNCHANGED <<q, masked, line>>
  /\ UNCHANGED <<serving, idt, isr, call>>
-----------------------------------------------------------------------------
(* irq.disconnect has no critical section.  Each of its steps, and each of *)
(* ring_queue.remove's, is an action; the first loads both neighbours.     *)
irq_disconnect(t, c, l) ==
  /\ ThreadRuns
  /\ ~Working(t)
  /\ "other line" \in Allow \/ line[c] \in {l, NoLine}
  /\ "cascade" \in Allow \/ l # Cascade
  /\ "same line" \in Allow \/ ~Unfinished(l, c)
  /\ call' = [call EXCEPT ![t] = [pc |-> "check", client |-> c, line |-> l,
                                  ebx |-> q.next[c], ecx |-> q.prev[c], al |-> {}]]
  /\ UNCHANGED <<machine, q, masked, serving, idt, isr, line>>

At(t, pc) == ThreadRuns /\ call[t].pc = pc
Goto(t, pc) == call' = [call EXCEPT ![t].pc = pc]
Returns(t) == call' = [call EXCEPT ![t] = Idle]

(* remove's sanity checks; it returns through "other" when one fails. *)
RemoveChecks(t) ==
  LET k == call[t] IN
  /\ At(t, "check")
  /\ IF q.prev[k.ebx] = k.client /\ q.next[k.ecx] = k.client /\ k.ebx # k.client
     THEN Goto(t, "close previous")
     ELSE Returns(t)
  /\ UNCHANGED <<machine, q, masked, serving, idt, isr, line>>

(* Fault: the node is looped back before the ring is closed behind it. *)
ClosePreviousLoops(t) ==
  LET k == call[t] IN
  /\ At(t, "close previous")
  /\ q' = [next |-> [q.next EXCEPT ![k.client] = k.client],
           prev |-> [q.prev EXCEPT ![k.ebx] = k.ecx]]
  /\ Goto(t, "close next")
  /\ UNCHANGED <<machine, masked, serving, idt, isr, line>>

ClosePrevious(t) ==
  LET k == call[t] IN
  /\ At(t, "close previous")
  /\ q' = [q EXCEPT !.prev[k.ebx] = k.ecx]
  /\ Goto(t, "close next")
  /\ UNCHANGED <<machine, masked, serving, idt, isr, line>>

(* Fault: the neighbour is read again, after the ring was closed. *)
CloseNextRereads(t) ==
  LET k == call[t] IN
  /\ At(t, "close next")
  /\ q' = [q EXCEPT !.next[q.prev[k.ebx]] = q.next[k.ebx]]
  /\ line' = [line EXCEPT ![k.client] = NoLine]
  /\ Goto(t, "loop next")
  /\ UNCHANGED <<machine, masked, serving, idt, isr>>

(* From this store on an interrupt no longer reaches the client. *)
CloseNext(t) ==
  LET k == call[t] IN
  /\ At(t, "close next")
  /\ q' = [q EXCEPT !.next[k.ecx] = k.ebx]
  /\ line' = [line EXCEPT ![k.client] = NoLine]
  /\ Goto(t, "loop next")
  /\ UNCHANGED <<machine, masked, serving, idt, isr>>

LoopNext(t) ==
  /\ At(t, "loop next")
  /\ q' = [q EXCEPT !.next[call[t].client] = call[t].client]
  /\ Goto(t, "loop previous")
  /\ UNCHANGED <<machine, masked, serving, idt, isr, line>>

LoopPrevious(t) ==
  /\ At(t, "loop previous")
  /\ q' = [q EXCEPT !.prev[call[t].client] = call[t].client]
  /\ Goto(t, "test")
  /\ UNCHANGED <<machine, masked, serving, idt, isr, line>>

(* Fault: the line is masked whether or not clients are left on it. *)
TestRingAlways(t) ==
  /\ At(t, "test")
  /\ Goto(t, "read")
  /\ UNCHANGED <<machine, q, masked, serving, idt, isr, line>>

(* The line stays enabled when its ring still has a node. *)
TestRing(t) ==
  /\ At(t, "test")
  /\ IF q.next[call[t].line] = call[t].line THEN Goto(t, "read") ELSE Returns(t)
  /\ UNCHANGED <<machine, q, masked, serving, idt, isr, line>>

ReadMask(t) ==
  /\ At(t, "read")
  /\ "same mask" \in Allow \/ ~MaskHeld(call[t].line)
  /\ call' = [call EXCEPT ![t].pc = "write", ![t].al = masked \cap Pic(call[t].line)]
  /\ UNCHANGED <<machine, q, masked, serving, idt, isr, line>>

WriteMask(t) ==
  LET l == call[t].line IN
  /\ At(t, "write")
  /\ masked' = (masked \ Pic(l)) \cup call[t].al \cup {l}
  /\ Returns(t)
  /\ UNCHANGED <<machine, q, serving, idt, isr, line>>

DisconnectStep(t) ==
  \/ RemoveChecks(t) \/ ClosePrevious(t) \/ CloseNext(t) \/ LoopNext(t)
  \/ LoopPrevious(t) \/ TestRing(t) \/ ReadMask(t) \/ WriteMask(t)
-----------------------------------------------------------------------------
(* The PICs pass on a request of line l.  A slave line needs the cascade,  *)
(* and a line in service holds back itself and the lines behind it.        *)
Passes(l) ==
  /\ l \notin masked \cup serving
  /\ l >= 8 => Cascade \notin masked \cup serving

(* In service, for the PIC or both PICs the request goes through. *)
Requested(l) == IF l >= 8 THEN {l, Cascade} ELSE {l}

(* The end of interrupt commands of _irq_common name the line, and for the *)
(* slave also line 2 of the master.                                        *)
acknowledge(l) == IF l >= 8 THEN {l, Cascade} ELSE {l}

(* The processor takes the interrupt: the entry of the line acknowledges   *)
(* it and starts at the head of its ring.                                  *)
_irq_common(l) ==
  /\ ThreadRuns
  /\ l # Cascade
  /\ Passes(l)
  /\ idt[l] = "irq"
  /\ serving' = (serving \cup Requested(l)) \ acknowledge(l)
  /\ isr' = [line |-> l, edi |-> l, top |-> "esp"]
  /\ UNCHANGED <<machine, q, masked, idt, call, line>>

(* .cycle: the next client is called on .internal_stack, which begins just *)
(* above .original_top_of_stack, so that the pushad overwrites it.         *)
CallClient ==
  /\ Running /\ isr # NoIsr
  /\ q.next[isr.edi] # isr.line
  /\ isr' = [isr EXCEPT !.edi = q.next[isr.edi], !.top = "eax"]
  /\ UNCHANGED <<machine, q, masked, serving, idt, call, line>>

(* .cycled_ring: esp is loaded back and the interrupted code resumed. *)
CycledRing ==
  /\ Running /\ isr # NoIsr
  /\ q.next[isr.edi] = isr.line
  /\ machine' = IF isr.top = "esp" THEN "running" ELSE "wild"
  /\ isr' = NoIsr
  /\ UNCHANGED <<q, masked, serving, idt, call, line>>

(* An exception, or a line whose vector was unset. *)
_unhandled_interrupt(v) ==
  /\ ThreadRuns
  /\ idt[v] = "unhandled"
  /\ v \in Line => v # Cascade /\ Passes(v)
  /\ machine' = "locked"
  /\ UNCHANGED <<q, masked, serving, idt, isr, call, line>>

Next ==
  \/ \E v \in Claimed : set_handler(v, "own") \/ unset_handler(v)
  \/ \E v \in Vector : _unhandled_interrupt(v)
  \/ \E c \in Client, l \in Line : irq_connect(c, l)
  \/ \E t \in Thread, c \in Client, l \in Line : irq_disconnect(t, c, l)
  \/ \E t \in Thread : DisconnectStep(t)
  \/ \E l \in Line : _irq_common(l)
  \/ CallClient
  \/ CycledRing

Spec == Init /\ [][Next]_vars

(* The handler runs with interrupts off and is not preempted. *)
FairSpec == Spec /\ WF_vars(CallClient \/ CycledRing)
-----------------------------------------------------------------------------
Calls == [pc : {"check", "close previous", "close next", "loop next",
                "loop previous", "test", "read", "write"},
          client : Client, line : Line, ebx : Node, ecx : Node, al : SUBSET Line]

TypeOK ==
  /\ machine \in {"running", "wild", "locked"}
  /\ q \in [next : [Node -> Node], prev : [Node -> Node]]
  /\ masked \subseteq Line
  /\ serving \subseteq Line \cup {Cascade}
  /\ idt \in [Vector -> {"irq", "own", "unhandled"}]
  /\ isr \in [line : Line, edi : Node, top : {"esp", "eax"}] \cup {NoIsr}
  /\ call \in [Thread -> Calls \cup {Idle}]
  /\ line \in [Client -> Line \cup {NoLine}]

(* The walk from node n to the head l, by the links next: where it is and  *)
(* the nodes it has visited after each step.                               *)
Walk(next, n, l) ==
  LET visit[k \in 0 .. Cardinality(Client) + 1] ==
        IF k = 0 THEN [at |-> next[n], nodes |-> {}]
        ELSE IF visit[k - 1].at = l THEN visit[k - 1]
        ELSE [at |-> next[visit[k - 1].at], nodes |-> visit[k - 1].nodes \cup {visit[k - 1].at}]
  IN  visit

(* The nodes the walk of line l still visits when it stands at node n. *)
Ahead(n, l) == Walk(q.next, n, l)[Cardinality(Client) + 1].nodes

(* Whatever call is in progress, and however far the stores of a removal   *)
(* have come, a walk from the head of a line reaches exactly the clients   *)
(* that are connected to it.                                               *)
WalkFindsClients == \A l \in Line : Ahead(l, l) = {c \in Client : line[c] = l}

(* A connected client can be reached by its interrupt: its line and, for a *)
(* slave line, the cascade are neither masked nor still in service, and    *)
(* the vector leads to the common handler ("The client will be called for  *)
(* every IRQ received for which it is connected", iridia.asm:194).         *)
ClientsReachable ==
  \A c \in Client : line[c] # NoLine => Passes(line[c]) /\ idt[line[c]] = "irq"

(* When the calls have returned, a line without clients is masked again.   *)
IdleLinesMasked ==
  (\A t \in Thread : ~Working(t)) =>
    \A l \in Line \ {Cascade} : HasClients(l) \/ l \in masked

(* The masks and vectors agree with the rings: what is connected can be    *)
(* reached, and what irq.disconnect left empty is off.                     *)
MasksMatchRings == TypeOK /\ ClientsReachable /\ IdleLinesMasked

(* The clients the interrupt being handled has not called yet. *)
Uncalled == IF isr = NoIsr THEN {} ELSE Ahead(isr.edi, isr.line)

Irq == INSTANCE IrqSpec WITH serving <- isr.line, todo <- Uncalled

(* The rings and the walk over them implement IrqSpec: an interrupt calls  *)
(* once each client that was connected when it arrived, although a removal *)
(* may be half done on its ring and clients connect others meanwhile.      *)
KeepsIrqPromise == Irq!Promise

(* The walk over the clients comes to an end. *)
DeliveryEnds == isr # NoIsr ~> isr = NoIsr

(* When the walk over a line's clients is over, the interrupt returns to   *)
(* the code it interrupted ("restore cpu state", "return from             *)
(* interruption", iridia.asm:405 and 410).                                 *)
InterruptReturns == [][isr # NoIsr /\ isr' = NoIsr => machine' = "running"]_vars
=============================================================================

-------------------------- MODULE DataSchedulerProofs --------------------------
(***************************************************************************)
(* TLAPS proofs about DataScheduler, for every set of sources and thread    *)
(* slots and every bound.                                                   *)
(*                                                                          *)
(* Mutual exclusion follows from the two directions between program points  *)
(* and locks: Holds (whoever is past a gate holds that gate's lock) and     *)
(* LocksOwned (whatever is held is held by a call at such a point).         *)
(* Neither is inductive alone: a release is harmless only because the       *)
(* caller is the holder, and an acquisition only because a free lock means  *)
(* that nobody is past the gate.                                            *)
(***************************************************************************)
EXTENDS DataScheduler, TLAPS

Session3 == {"attempt", "collect", "record"}

\* what a call's fields say about where it is
Shape ==
    \A j \in Slots :
        /\ slot[j].trigger = "session" => slot[j].source = NoSource
        /\ slot[j].source = NoSource =>
              \/ slot[j].pc = "idle"
              \/ slot[j].trigger = "session" /\ slot[j].pc \in {"gateThread", "gateFile", "collect", "release"}
        /\ slot[j].pc = "macro" => slot[j].source \in Macro
        /\ slot[j].pc \in {"gateThread", "gateFile"} => slot[j].source \in Ibkr \/ slot[j].trigger = "session"
        /\ slot[j].pc = "record" => slot[j].outcome \in Statuses

HoldsSource ==
    \A j \in Slots :
        /\ slot[j].pc \in Fenced \cup {"flock"} /\ slot[j].source # NoSource =>
              sourceLock[ProcOf(j)][slot[j].source] = j
        /\ slot[j].pc \in Fenced /\ slot[j].source # NoSource => sourceFile[slot[j].source] = j
HoldsMacro ==
    \A j \in Slots : slot[j].source \in Macro /\ slot[j].pc \in Fenced \ {"macro"} => macroLease = j
HoldsGate ==
    \A j \in Slots :
        /\ slot[j].pc = "gateFile" => gateLock[ProcOf(j)] = j
        /\ InSession(j) => gateLock[ProcOf(j)] = j /\ gateFile = j
Holds == HoldsSource /\ HoldsMacro /\ HoldsGate

LockInv == Shape /\ Holds /\ LocksOwned

\* SnapshotFresh, from the gate on: a call waiting for the Gateway or about to start still
\* knows the saved scope, if it could read it
Waiting == {"gateThread", "gateFile", "attempt"}
ScopeKnown(c) ==
    \/ c.source = NoSource
    \/ c.blind
    \/ c.pending = PendingContinuation(c.source) /\ ~(Unattended(c) /\ c.pending)
ScopeHeld == \A j \in Slots : slot[j].pc \in Waiting => ScopeKnown(slot[j])

IInv == TypeOK /\ LockInv /\ RunningIsExplained /\ ScopeHeld

(***************************************************************************)
(* How a step changes the calls.                                            *)
(***************************************************************************)
Others(j) == \A i \in Slots \ {j} : slot'[i] = slot[i]
Moves(j, p) ==
    /\ Others(j)
    /\ slot'[j].pc = p
    /\ slot'[j].source = slot[j].source
    /\ slot'[j].trigger = slot[j].trigger
Ends(j) == Others(j) /\ slot'[j] = Idle
SameScope(j) ==
    /\ slot'[j].route = slot[j].route
    /\ slot'[j].pending = slot[j].pending
    /\ slot'[j].blind = slot[j].blind

\* The idle call is a call: what every exit path of run_source leaves in its slot.
LEMMA IdleType ==
    /\ Idle \in Call
    /\ Idle.pc = "idle" /\ Idle.source = NoSource /\ Idle.trigger = "none"
    /\ Idle.outcome = "none" /\ ~Idle.pending
BY DEF Idle, Call, Steps, Statuses

\* Go moves one call to a program point and keeps its other fields (the fall-through
\* from one gate of run_source to the next).
LEMMA GoFacts ==
    ASSUME TypeOK, NEW j \in Slots, NEW p \in Steps, Go(j, p)
    PROVE  /\ slot' \in [Slots -> Call]
           /\ Moves(j, p) /\ SameScope(j)
<1>1. slot \in [Slots -> Call] BY DEF TypeOK
<1>2. slot' = [slot EXCEPT ![j] = [slot[j] EXCEPT !.pc = p]] BY <1>1 DEF Go
<1>3. [slot[j] EXCEPT !.pc = p] \in Call BY <1>1 DEF Call
<1>4. slot'[j] = [slot[j] EXCEPT !.pc = p] BY <1>1, <1>2
<1> QED BY <1>1, <1>2, <1>3, <1>4 DEF Moves, Others, SameScope, Call

\* Leave moves one call to the finally block with its source and trigger.
LEMMA LeaveFacts ==
    ASSUME TypeOK, NEW j \in Slots, Leave(j)
    PROVE  slot' \in [Slots -> Call] /\ Moves(j, "release")
<1>1. slot \in [Slots -> Call] BY DEF TypeOK
<1> DEFINE c == [Idle EXCEPT !.pc = "release", !.source = slot[j].source, !.trigger = slot[j].trigger]
<1>2. slot' = [slot EXCEPT ![j] = c] BY DEF Leave
<1>3. slot[j] \in Call BY <1>1
<1>4. c \in Call /\ c.pc = "release" /\ c.source = slot[j].source /\ c.trigger = slot[j].trigger
  BY <1>3 DEF Idle, Call, Steps
<1>5. slot'[j] = c BY <1>1, <1>2
<1> HIDE DEF c
<1> QED BY <1>1, <1>2, <1>4, <1>5 DEF Moves, Others

\* A call that returns before its try block frees its slot.
LEMMA EndFacts ==
    ASSUME TypeOK, NEW j \in Slots, slot' = [slot EXCEPT ![j] = Idle]
    PROVE  slot' \in [Slots -> Call] /\ Ends(j)
BY IdleType DEF TypeOK, Ends, Others

(***************************************************************************)
(* The lock discipline.                                                     *)
(***************************************************************************)
\* A step of one call between the gates that touches no lock keeps the discipline: the
\* statements of the try block between two acquisitions.
LEMMA QuietMove ==
    ASSUME TypeOK, LockInv, NEW j \in Slots,
           NEW p \in {"gateThread", "attempt", "collect", "record", "release"},
           slot[j].pc \in {"gate", "gateThread", "gateFile", "attempt", "collect", "record"},
           Moves(j, p), slot' \in [Slots -> Call], UNCHANGED locks,
           p = "gateThread" => slot[j].pc = "gate" /\ slot[j].source \in Ibkr,
           p \in Session3 => slot[j].source # NoSource,
           p \in Session3 /\ slot[j].source \in Ibkr => slot[j].pc \in Session3,
           p = "record" => slot'[j].outcome \in Statuses
    PROVE  LockInv'
<1> USE DEF Moves, Others, LockInv, Holds, locks
<1>1. Shape' BY SourcesAssumption DEF Shape, Session3
<1>2. HoldsSource' BY DEF HoldsSource, Fenced
<1>3. HoldsMacro' BY DEF HoldsMacro, Fenced, Shape
<1>4. HoldsGate' BY DEF HoldsGate, InSession, Session3, Shape
<1>5. SourceLocksOwned' /\ SourceFilesOwned' /\ MacroLeaseOwned'
  BY DEF LocksOwned, SourceLocksOwned, SourceFilesOwned, MacroLeaseOwned, Fenced
<1>6. GateLocksOwned' /\ GateFileOwned' BY DEF LocksOwned, GateLocksOwned, GateFileOwned
<1> QED BY <1>1, <1>2, <1>3, <1>4, <1>5, <1>6 DEF LocksOwned

Begins(i) ==
    /\ slot[i].pc = "idle"
    /\ \/ slot'[i].pc = "enter" /\ slot'[i].source \in Sources /\ slot'[i].trigger # "session"
       \/ slot'[i].pc = "gateThread" /\ slot'[i].source = NoSource /\ slot'[i].trigger = "session"

\* Accepting calls (a tick, Run now, the CLI, a Gateway session) takes no lock yet.
LEMMA BeginKeeps ==
    ASSUME LockInv, \A i \in Slots : slot'[i] = slot[i] \/ Begins(i), UNCHANGED locks
    PROVE  LockInv'
<1> USE DEF LockInv, Holds, locks, Begins
<1>1. Shape' BY SourcesAssumption DEF Shape
<1>2. HoldsSource' BY DEF HoldsSource, Fenced
<1>3. HoldsMacro' BY SourcesAssumption DEF HoldsMacro, Fenced
<1>4. HoldsGate' BY DEF HoldsGate, InSession
<1>5. SourceLocksOwned' /\ SourceFilesOwned' /\ MacroLeaseOwned'
  BY DEF LocksOwned, SourceLocksOwned, SourceFilesOwned, MacroLeaseOwned, Fenced
<1>6. GateLocksOwned' /\ GateFileOwned' BY DEF LocksOwned, GateLocksOwned, GateFileOwned
<1> QED BY <1>1, <1>2, <1>3, <1>4, <1>5, <1>6 DEF LocksOwned

\* A call past Run now's entry has a source (run_source, not ibkr_gateway_lock alone).
LEMMA HasSource ==
    ASSUME TypeOK, Shape, NEW j \in Slots,
           slot[j].pc \in {"enter", "flock", "macro", "gate", "attempt", "record"}
    PROVE  slot[j].source \in Sources
<1>1. slot[j] \in Call BY DEF TypeOK
<1>2. slot[j].source \in Sources \cup {NoSource} BY <1>1 DEF Call
<1> QED BY <1>2 DEF Shape

\* A slot belongs to one of the two processes.
LEMMA ProcType == \A j : ProcOf(j) \in Procs
BY DEF ProcOf, Procs

Gone(holder, S) == IF holder \in S THEN Free ELSE holder
Freed(S) ==
    /\ \A p \in Procs, s \in Sources : sourceLock'[p][s] = Gone(sourceLock[p][s], S)
    /\ \A s \in Sources : sourceFile'[s] = Gone(sourceFile[s], S)
    /\ macroLease' = Gone(macroLease, S)
    /\ \A p \in Procs : gateLock'[p] = Gone(gateLock[p], S)
    /\ gateFile' = Gone(gateFile, S)

\* Calls that end and give back exactly what they hold: the early returns, the finally
\* block and the death of a process.
LEMMA EndKeeps ==
    ASSUME TypeOK, LockInv, NEW S \in SUBSET Slots, Freed(S),
           \A i \in S : slot'[i] = Idle, \A i \in Slots \ S : slot'[i] = slot[i]
    PROVE  LockInv'
<1> USE IdleType, SlotsAssumption, SourcesAssumption, ProcType DEF LockInv, Holds, Freed, Gone
<1>1. Shape' BY DEF Shape
<1>2. HoldsSource'
  <2>1. \A i \in Slots : slot[i].source \in Sources \cup {NoSource} BY DEF TypeOK, Call
  <2> QED BY <2>1 DEF HoldsSource, Fenced
<1>3. HoldsMacro' BY DEF HoldsMacro, Fenced
<1>4. HoldsGate' BY DEF HoldsGate, InSession
<1>5. SourceLocksOwned' BY DEF LocksOwned, SourceLocksOwned, Fenced
<1>6. SourceFilesOwned' BY DEF LocksOwned, SourceFilesOwned, Fenced
<1>7. MacroLeaseOwned' BY DEF LocksOwned, MacroLeaseOwned, Fenced
<1>8. GateLocksOwned' /\ GateFileOwned' BY DEF LocksOwned, GateLocksOwned, GateFileOwned
<1> QED BY <1>1, <1>2, <1>3, <1>4, <1>5, <1>6, <1>7, <1>8 DEF LocksOwned

\* The per-source thread lock (run_source, lock.acquire(blocking=False)).
LEMMA LockSourceKeeps ==
    ASSUME TypeOK, LockInv, NEW j \in Slots, LockSource(j)
    PROVE  LockInv' /\ slot' \in [Slots -> Call]
<1> DEFINE p == ProcOf(j)
           s == slot[j].source
<1>0. s \in Sources /\ p \in Procs /\ slot[j].pc = "enter"
  BY HasSource, ProcType DEF LockInv, LockSource
<1>1. CASE sourceLock[p][s] = Free
  <2>1. slot' \in [Slots -> Call] /\ Moves(j, "flock") BY <1>1, GoFacts DEF LockSource, Steps
  <2>2. /\ sourceLock'[p][s] = j
        /\ \A q \in Procs, u \in Sources : <<q, u>> # <<p, s>> => sourceLock'[q][u] = sourceLock[q][u]
    BY <1>0, <1>1 DEF LockSource, TypeOK
  <2>3. UNCHANGED <<sourceFile, macroLease, gateLock, gateFile>> BY DEF LockSource
  <2> HIDE DEF p, s
  <2> USE <1>0, <1>1, <2>1, <2>2, <2>3 DEF LockInv, Holds, Moves, Others, p, s
  <2>4. Shape' BY SourcesAssumption DEF Shape
  <2>5. HoldsSource'
    <3>1. \A i \in Slots : slot[i].source \in Sources \cup {NoSource} BY DEF TypeOK, Call
    <3> QED BY <3>1, ProcType, SlotsAssumption DEF HoldsSource, Fenced
  <2>6. HoldsMacro' BY DEF HoldsMacro, Fenced
  <2>7. HoldsGate' BY DEF HoldsGate, InSession
  <2>8. SourceLocksOwned' BY SlotsAssumption DEF LocksOwned, SourceLocksOwned, Fenced
  <2>9. SourceFilesOwned'
    BY SlotsAssumption, ProcType DEF LocksOwned, SourceFilesOwned, Fenced
  <2>10. MacroLeaseOwned' /\ GateLocksOwned' /\ GateFileOwned'
    BY DEF LocksOwned, MacroLeaseOwned, GateLocksOwned, GateFileOwned, Fenced
  <2> QED BY <2>4, <2>5, <2>6, <2>7, <2>8, <2>9, <2>10 DEF LocksOwned
<1>2. CASE sourceLock[p][s] # Free
  <2>1. slot' \in [Slots -> Call] /\ Ends(j) BY <1>2, EndFacts DEF LockSource
  <2>2. UNCHANGED locks BY <1>2 DEF LockSource, locks
  <2>3. Freed({j})
    BY <1>0, <2>2 DEF Freed, Gone, locks, LockInv, LocksOwned, SourceLocksOwned, SourceFilesOwned,
       MacroLeaseOwned, GateLocksOwned, GateFileOwned, Fenced
  <2> QED BY <2>1, <2>3, EndKeeps DEF Ends, Others
<1> QED BY <1>1, <1>2

\* The cross-process twin (run_source, flock.acquire()); a busy flock gives the thread
\* lock back.
LEMMA FlockSourceKeeps ==
    ASSUME TypeOK, LockInv, NEW j \in Slots, FlockSource(j)
    PROVE  LockInv' /\ slot' \in [Slots -> Call]
<1> DEFINE p == ProcOf(j)
           s == slot[j].source
           to == IF s \in Macro THEN "macro" ELSE "gate"
<1>0. /\ s \in Sources /\ p \in Procs /\ slot[j].pc = "flock" /\ s # NoSource
      /\ sourceLock[p][s] = j
  BY HasSource, ProcType, SourcesAssumption DEF LockInv, FlockSource, Holds, HoldsSource
<1>1. CASE sourceFile[s] = Free
  <2>1. slot' \in [Slots -> Call] /\ Moves(j, to) BY <1>1, GoFacts DEF FlockSource, Steps
  <2>2. sourceFile'[s] = j /\ \A u \in Sources \ {s} : sourceFile'[u] = sourceFile[u]
    BY <1>0, <1>1 DEF FlockSource, TypeOK
  <2>3. UNCHANGED <<sourceLock, macroLease, gateLock, gateFile>> BY <1>1 DEF FlockSource
  <2>4. to \in {"macro", "gate"} /\ (to = "macro" <=> s \in Macro) OBVIOUS
  <2> HIDE DEF p, s, to
  <2> USE <1>0, <1>1, <2>1, <2>2, <2>3, <2>4 DEF LockInv, Holds, Moves, Others, p, s
  <2>5. Shape' BY DEF Shape
  <2>6. HoldsSource'
    <3>1. \A i \in Slots : slot[i].source \in Sources \cup {NoSource} BY DEF TypeOK, Call
    <3> QED BY <3>1, SlotsAssumption DEF HoldsSource, Fenced
  <2>7. HoldsMacro' BY DEF HoldsMacro, Fenced
  <2>8. HoldsGate' BY DEF HoldsGate, InSession
  <2>9. SourceLocksOwned' BY DEF LocksOwned, SourceLocksOwned, Fenced
  <2>10. SourceFilesOwned' BY SlotsAssumption DEF LocksOwned, SourceFilesOwned, Fenced
  <2>11. MacroLeaseOwned' /\ GateLocksOwned' /\ GateFileOwned'
    BY DEF LocksOwned, MacroLeaseOwned, GateLocksOwned, GateFileOwned, Fenced
  <2> QED BY <2>5, <2>6, <2>7, <2>8, <2>9, <2>10, <2>11 DEF LocksOwned
<1>2. CASE sourceFile[s] # Free
  <2>1. slot' \in [Slots -> Call] /\ Ends(j) BY <1>2, EndFacts DEF FlockSource
  <2>2. /\ sourceLock' = [sourceLock EXCEPT ![p][s] = Free]
        /\ UNCHANGED <<sourceFile, macroLease, gateLock, gateFile>>
    BY <1>2 DEF FlockSource
  <2>3. \A q \in Procs, u \in Sources :
           sourceLock'[q][u] = IF q = p /\ u = s THEN Free ELSE sourceLock[q][u]
    BY <1>0, <2>2 DEF TypeOK
  <2> HIDE DEF p, s
  <2>4. \A q \in Procs, u \in Sources : sourceLock[q][u] = j => q = p /\ u = s
    BY DEF LockInv, LocksOwned, SourceLocksOwned, p, s
  <2>5. Freed({j})
    BY <1>0, <2>2, <2>3, <2>4 DEF Freed, Gone, LockInv, LocksOwned, SourceFilesOwned,
       MacroLeaseOwned, GateLocksOwned, GateFileOwned, Fenced
  <2> QED BY <2>1, <2>5, EndKeeps DEF Ends, Others
<1> QED BY <1>1, <1>2

\* The macro writer lease (macro_calendar_writer); MacroCalendarBusy gives both source
\* locks back.
LEMMA LeaseMacroKeeps ==
    ASSUME TypeOK, LockInv, NEW j \in Slots, LeaseMacro(j)
    PROVE  LockInv' /\ slot' \in [Slots -> Call]
<1> DEFINE p == ProcOf(j)
           s == slot[j].source
<1>0. /\ s \in Sources /\ p \in Procs /\ slot[j].pc = "macro" /\ s # NoSource /\ s \in Macro
      /\ sourceLock[p][s] = j /\ sourceFile[s] = j
  BY HasSource, ProcType, SourcesAssumption DEF LockInv, LeaseMacro, Holds, HoldsSource, Shape, Fenced
<1>1. CASE macroLease = Free
  <2>1. slot' \in [Slots -> Call] /\ Moves(j, "gate") BY <1>1, GoFacts DEF LeaseMacro, Steps
  <2>2. macroLease' = j /\ UNCHANGED <<sourceLock, sourceFile, gateLock, gateFile>>
    BY <1>1 DEF LeaseMacro
  <2> HIDE DEF p, s
  <2> USE <1>0, <1>1, <2>1, <2>2, SlotsAssumption DEF LockInv, Holds, Moves, Others, p, s
  <2>3. Shape' BY DEF Shape
  <2>4. HoldsSource' BY DEF HoldsSource, Fenced
  <2>5. HoldsMacro' BY DEF HoldsMacro, Fenced
  <2>6. HoldsGate' BY DEF HoldsGate, InSession
  <2>7. SourceLocksOwned' BY DEF LocksOwned, SourceLocksOwned, Fenced
  <2>8. SourceFilesOwned' BY DEF LocksOwned, SourceFilesOwned, Fenced
  <2>9. MacroLeaseOwned' /\ GateLocksOwned' /\ GateFileOwned'
    BY DEF LocksOwned, MacroLeaseOwned, GateLocksOwned, GateFileOwned, Fenced
  <2> QED BY <2>3, <2>4, <2>5, <2>6, <2>7, <2>8, <2>9 DEF LocksOwned
<1>2. CASE macroLease # Free
  <2>1. slot' \in [Slots -> Call] /\ Ends(j) BY <1>2, EndFacts DEF LeaseMacro
  <2>2. /\ sourceLock' = [sourceLock EXCEPT ![p][s] = Free]
        /\ sourceFile' = [sourceFile EXCEPT ![s] = Free]
        /\ UNCHANGED <<macroLease, gateLock, gateFile>>
    BY <1>2 DEF LeaseMacro
  <2>3. /\ \A q \in Procs, u \in Sources :
              sourceLock'[q][u] = IF q = p /\ u = s THEN Free ELSE sourceLock[q][u]
        /\ \A u \in Sources : sourceFile'[u] = IF u = s THEN Free ELSE sourceFile[u]
    BY <1>0, <2>2 DEF TypeOK
  <2> HIDE DEF p, s
  <2>4. \A q \in Procs, u \in Sources : sourceLock[q][u] = j => q = p /\ u = s
    BY DEF LockInv, LocksOwned, SourceLocksOwned, p, s
  <2>5. \A u \in Sources : sourceFile[u] = j => u = s
    BY <2>4, ProcType DEF LockInv, LocksOwned, SourceFilesOwned
  <2>6. Freed({j})
    BY <1>0, <2>2, <2>3, <2>4, <2>5 DEF Freed, Gone, LockInv, LocksOwned,
       MacroLeaseOwned, GateLocksOwned, GateFileOwned
  <2> QED BY <2>1, <2>6, EndKeeps DEF Ends, Others
<1> QED BY <1>1, <1>2

\* The snapshot step: the call reads the saved continuation, or fails to, and passes on to
\* the Gateway or to the run (run_source, pending_cont).
LEMMA GateFacts ==
    ASSUME TypeOK, LockInv, NEW j \in Slots, Gate(j)
    PROVE  /\ slot' \in [Slots -> Call] /\ UNCHANGED locks
           /\ slot[j].pc = "gate" /\ slot[j].source \in Sources
           /\ \/ Moves(j, "release")
              \/ /\ Moves(j, IF slot[j].source \in Ibkr THEN "gateThread" ELSE "attempt")
                 /\ slot'[j].route = slot[j].route
                 /\ \/ slot'[j].blind
                    \/ /\ slot'[j].pending = PendingContinuation(slot[j].source)
                       /\ ~(Unattended(slot[j]) /\ slot'[j].pending)
<1> DEFINE to == IF slot[j].source \in Ibkr THEN "gateThread" ELSE "attempt"
<1>0. slot \in [Slots -> Call] /\ slot[j] \in Call BY DEF TypeOK
<1>1. slot[j].pc = "gate" /\ UNCHANGED locks BY DEF Gate
<1>2. slot[j].source \in Sources BY <1>1, HasSource DEF LockInv
<1>3. PICK pending, blind \in BOOLEAN :
         ReadContinuation(slot[j].source, pending, blind) /\ PassGate(j, pending, blind)
  BY DEF Gate
<1>4. CASE Unattended(slot[j]) /\ pending
  BY <1>1, <1>2, <1>3, <1>4, LeaveFacts DEF PassGate
<1>5. CASE ~(Unattended(slot[j]) /\ pending)
  <2> DEFINE c == [slot[j] EXCEPT !.pending = pending, !.blind = blind, !.pc = to]
  <2>1. slot' = [slot EXCEPT ![j] = c] BY <1>0, <1>3, <1>5 DEF PassGate
  <2>2. to \in Steps BY DEF Steps
  <2> HIDE DEF to
  <2>3. /\ c \in Call /\ c.pc = to /\ c.pending = pending /\ c.blind = blind
        /\ c.source = slot[j].source /\ c.trigger = slot[j].trigger /\ c.route = slot[j].route
    BY <1>0, <2>2 DEF Call
  <2> HIDE DEF c
  <2>4. slot'[j] = c /\ slot' \in [Slots -> Call] /\ Others(j) BY <1>0, <2>1, <2>3 DEF Others
  <2>5. Moves(j, to) BY <2>3, <2>4 DEF Moves
  <2>6. blind \/ pending = PendingContinuation(slot[j].source) BY <1>3 DEF ReadContinuation
  <2>7. /\ slot'[j].route = slot[j].route
        /\ slot'[j].blind \/ (/\ slot'[j].pending = PendingContinuation(slot[j].source)
                              /\ ~(Unattended(slot[j]) /\ slot'[j].pending))
    BY <1>5, <2>3, <2>4, <2>6
  <2> QED BY <1>1, <1>2, <2>4, <2>5, <2>7 DEF to
<1> QED BY <1>4, <1>5

\* Reading the snapshot touches no lock.
LEMMA GateKeeps ==
    ASSUME TypeOK, LockInv, NEW j \in Slots, Gate(j)
    PROVE  LockInv'
<1>1. slot[j].source # NoSource BY GateFacts, SourcesAssumption
<1>2. CASE Moves(j, "release") BY <1>2, GateFacts, QuietMove DEF Session3
<1>3. CASE Moves(j, IF slot[j].source \in Ibkr THEN "gateThread" ELSE "attempt")
  <2>1. CASE slot[j].source \in Ibkr BY <1>3, <2>1, GateFacts, QuietMove DEF Session3
  <2>2. CASE slot[j].source \notin Ibkr BY <1>1, <1>3, <2>2, GateFacts, QuietMove DEF Session3
  <2> QED BY <2>1, <2>2
<1> QED BY <1>2, <1>3, GateFacts

\* The Gateway's thread lock (_IBKR_LOCK.acquire).
LEMMA GateThreadKeeps ==
    ASSUME TypeOK, LockInv, NEW j \in Slots, GateThread(j)
    PROVE  /\ LockInv' /\ slot' \in [Slots -> Call]
           /\ Moves(j, "release") \/ (Moves(j, "gateFile") /\ SameScope(j))
<1> DEFINE p == ProcOf(j)
<1>0. p \in Procs /\ slot[j].pc = "gateThread" BY ProcType DEF GateThread
<1>1. CASE gateLock[p] = Free
  <2>1. slot' \in [Slots -> Call] /\ Moves(j, "gateFile") /\ SameScope(j)
    BY <1>1, GoFacts DEF GateThread, Steps
  <2>2. gateLock'[p] = j /\ \A q \in Procs \ {p} : gateLock'[q] = gateLock[q]
    BY <1>0, <1>1 DEF GateThread, TypeOK
  <2>3. UNCHANGED <<sourceLock, sourceFile, macroLease, gateFile>> BY DEF GateThread
  <2> HIDE DEF p
  <2> USE <1>0, <1>1, <2>1, <2>2, <2>3, SlotsAssumption, ProcType DEF LockInv, Holds, Moves, Others, p
  <2>4. Shape' BY DEF Shape
  <2>5. HoldsSource' BY DEF HoldsSource, Fenced
  <2>6. HoldsMacro' BY DEF HoldsMacro, Fenced
  <2>7. HoldsGate' BY DEF HoldsGate, InSession
  <2>8. SourceLocksOwned' /\ SourceFilesOwned' /\ MacroLeaseOwned'
    BY DEF LocksOwned, SourceLocksOwned, SourceFilesOwned, MacroLeaseOwned, Fenced
  <2>9. GateLocksOwned' BY DEF LocksOwned, GateLocksOwned
  <2>10. GateFileOwned' BY DEF LocksOwned, GateFileOwned
  <2> QED BY <2>4, <2>5, <2>6, <2>7, <2>8, <2>9, <2>10 DEF LocksOwned
<1>2. CASE gateLock[p] # Free
  <2>1. slot' \in [Slots -> Call] /\ Moves(j, "release") BY <1>2, LeaveFacts DEF GateThread
  <2>2. UNCHANGED locks BY <1>2 DEF GateThread, locks
  <2> QED BY <1>0, <2>1, <2>2, QuietMove DEF Session3
<1> QED BY <1>1, <1>2

\* The Gateway's file lock (_IBKR_FLOCK.acquire).
LEMMA GateFileKeeps ==
    ASSUME TypeOK, LockInv, NEW j \in Slots, GateFile(j)
    PROVE  /\ LockInv' /\ slot' \in [Slots -> Call]
           /\ \/ Moves(j, "release")
              \/ /\ Moves(j, IF slot[j].trigger = "session" THEN "collect" ELSE "attempt")
                 /\ SameScope(j)
<1> DEFINE to == IF slot[j].trigger = "session" THEN "collect" ELSE "attempt"
<1>0. slot[j].pc = "gateFile" /\ gateLock[ProcOf(j)] = j
  BY DEF GateFile, LockInv, Holds, HoldsGate
<1>1. CASE gateFile = Free
  <2>1. slot' \in [Slots -> Call] /\ Moves(j, to) /\ SameScope(j)
    BY <1>1, GoFacts DEF GateFile, Steps
  <2>2. gateFile' = j /\ UNCHANGED <<sourceLock, sourceFile, macroLease, gateLock>>
    BY <1>1 DEF GateFile
  <2>3. to = IF slot[j].trigger = "session" THEN "collect" ELSE "attempt" OBVIOUS
  <2> HIDE DEF to
  <2> USE <1>0, <1>1, <2>1, <2>2, <2>3, SlotsAssumption DEF LockInv, Holds, Moves, Others
  <2>4. Shape' BY DEF Shape
  <2>5. HoldsSource' BY DEF HoldsSource, Fenced
  <2>6. HoldsMacro' BY DEF HoldsMacro, Fenced
  <2>7. HoldsGate' BY DEF HoldsGate, InSession
  <2>8. SourceLocksOwned' /\ SourceFilesOwned' /\ MacroLeaseOwned'
    BY DEF LocksOwned, SourceLocksOwned, SourceFilesOwned, MacroLeaseOwned, Fenced
  <2>9. GateLocksOwned' BY DEF LocksOwned, GateLocksOwned
  <2>10. GateFileOwned' BY DEF LocksOwned, GateFileOwned
  <2> QED BY <2>4, <2>5, <2>6, <2>7, <2>8, <2>9, <2>10 DEF LocksOwned
<1>2. CASE gateFile # Free
  <2>1. slot' \in [Slots -> Call] /\ Moves(j, "release") BY <1>2, LeaveFacts DEF GateFile
  <2>2. UNCHANGED locks BY <1>2 DEF GateFile, locks
  <2> QED BY <1>0, <2>1, <2>2, QuietMove DEF Session3
<1> QED BY <1>1, <1>2

\* Starting the run, or skipping a repair whose scope changed (record_attempt).
LEMMA AttemptKeeps ==
    ASSUME TypeOK, LockInv, NEW j \in Slots, Attempt(j) \/ RepairSkipped(j)
    PROVE  /\ LockInv' /\ slot' \in [Slots -> Call]
           /\ slot[j].pc = "attempt" /\ slot[j].source \in Sources
           /\ Moves(j, IF Attempt(j) THEN "collect" ELSE "release")
<1>0. slot[j].pc = "attempt" BY DEF Attempt, RepairSkipped
<1>1. slot[j].source \in Sources /\ slot[j].source # NoSource
  BY <1>0, HasSource, SourcesAssumption DEF LockInv
<1>2. CASE Attempt(j)
  <2>1. slot' \in [Slots -> Call] /\ Moves(j, "collect") BY <1>2, GoFacts DEF Attempt, Steps
  <2>2. UNCHANGED locks BY <1>2 DEF Attempt
  <2> QED BY <1>0, <1>1, <1>2, <2>1, <2>2, QuietMove DEF Session3
<1>3. CASE ~Attempt(j)
  <2>1. slot' \in [Slots -> Call] /\ Moves(j, "release") BY <1>3, LeaveFacts DEF RepairSkipped
  <2>2. UNCHANGED locks BY <1>3 DEF RepairSkipped
  <2> QED BY <1>0, <1>1, <1>3, <2>1, <2>2, QuietMove DEF Session3
<1> QED BY <1>2, <1>3

\* Whatever the provider returned, the outcome is one of the four statuses and the
\* continuation to store is well defined (the status logic after the collection).
LEMMA OutcomeType ==
    ASSUME NEW c \in Call, NEW o \in Outcomes(c), NEW left \in BOOLEAN
    PROVE  o \in Statuses /\ Continuation(c, o, left) \in BOOLEAN
<1>1. Outcomes(c) \subseteq Statuses BY DEF Outcomes, Statuses
<1>2. o \in Statuses BY <1>1
<1>3. c.pending \in BOOLEAN /\ Resumes(c) \in BOOLEAN BY DEF Call, Resumes
<1>4. Continuation(c, o, left) \in BOOLEAN BY <1>2, <1>3 DEF Continuation, Statuses
<1> QED BY <1>2, <1>4

\* The collection: whatever it returns, the locks stay with the call.
LEMMA CollectKeeps ==
    ASSUME TypeOK, LockInv, NEW j \in Slots, Collect(j)
    PROVE  /\ LockInv' /\ slot' \in [Slots -> Call]
           /\ slot[j].pc = "collect"
           /\ Moves(j, IF slot[j].trigger = "session" THEN "release" ELSE "record")
<1>0. slot[j].pc = "collect" /\ UNCHANGED locks BY DEF Collect
<1>1. slot \in [Slots -> Call] /\ slot[j] \in Call BY DEF TypeOK
<1>2. CASE slot[j].trigger = "session"
  <2>1. slot' \in [Slots -> Call] /\ Moves(j, "release") BY <1>2, LeaveFacts DEF Collect
  <2> QED BY <1>0, <1>2, <2>1, QuietMove DEF Session3
<1>3. CASE slot[j].trigger # "session"
  <2>1. slot[j].source # NoSource BY <1>0, <1>3 DEF LockInv, Shape
  <2>2. PICK o \in Outcomes(slot[j]), left \in BOOLEAN :
           slot' = [slot EXCEPT ![j].pc = "record", ![j].outcome = o,
                                ![j].cont = Continuation(slot[j], o, left)]
    BY <1>3 DEF Collect
  <2>3. o \in Statuses /\ Continuation(slot[j], o, left) \in BOOLEAN BY <1>1, OutcomeType
  <2> DEFINE k == Continuation(slot[j], o, left)
             c == [slot[j] EXCEPT !.pc = "record", !.outcome = o, !.cont = k]
  <2>4. slot' = [slot EXCEPT ![j] = c] BY <1>1, <2>2
  <2>5. k \in BOOLEAN BY <2>3
  <2> HIDE DEF k
  <2>6. /\ c \in Call /\ c.pc = "record" /\ c.outcome = o
        /\ c.source = slot[j].source /\ c.trigger = slot[j].trigger
    BY <1>1, <2>3, <2>5 DEF Call, Steps
  <2> HIDE DEF c
  <2>7. slot' \in [Slots -> Call] /\ Others(j) /\ slot'[j] = c BY <1>1, <2>4, <2>6 DEF Others
  <2>8. Moves(j, "record") /\ slot'[j].outcome \in Statuses BY <2>3, <2>6, <2>7 DEF Moves
  <2> QED BY <1>0, <1>3, <2>1, <2>7, <2>8, QuietMove DEF Session3
<1> QED BY <1>2, <1>3

\* Recording the outcome leads to the finally block with every lock still held.
LEMMA RecordKeeps ==
    ASSUME TypeOK, LockInv, NEW j \in Slots, Record(j)
    PROVE  /\ LockInv' /\ slot' \in [Slots -> Call] /\ Moves(j, "release")
           /\ slot[j].pc = "record" /\ slot[j].source \in Sources /\ slot[j].outcome \in Statuses
<1>1. slot[j].pc = "record" /\ UNCHANGED locks BY DEF Record
<1>2. slot' \in [Slots -> Call] /\ Moves(j, "release") BY LeaveFacts DEF Record
<1>3. slot[j].source \in Sources /\ slot[j].outcome \in Statuses
  BY <1>1, HasSource DEF LockInv, Shape
<1> QED BY <1>1, <1>2, <1>3, QuietMove DEF Session3

\* The finally block of run_source.
LEMMA ReleaseKeeps ==
    ASSUME TypeOK, LockInv, NEW j \in Slots, Release(j)
    PROVE  LockInv' /\ slot' \in [Slots -> Call] /\ Ends(j)
<1>1. slot' \in [Slots -> Call] /\ Ends(j) BY EndFacts DEF Release
<1>2. Freed({j}) BY DEF Release, Drop, Freed, Gone
<1> QED BY <1>1, <1>2, EndKeeps DEF Ends, Others

\* The death of a process.
LEMMA DieKeeps ==
    ASSUME TypeOK, LockInv, NEW S \in SUBSET Slots, Die(S)
    PROVE  /\ LockInv' /\ slot' \in [Slots -> Call]
           /\ \A i \in S : slot'[i] = Idle
           /\ \A i \in Slots \ S : slot'[i] = slot[i]
<1>1. /\ slot' \in [Slots -> Call]
      /\ \A i \in S : slot'[i] = Idle
      /\ \A i \in Slots \ S : slot'[i] = slot[i]
  BY IdleType DEF Die, TypeOK
<1>2. Freed(S) BY DEF Die, Freed, Gone
<1> QED BY <1>1, <1>2, EndKeeps

\* The three ways in: POST /schedule/run and the CLI, a Gateway session, a tick.
LEMMA BeginFacts ==
    ASSUME TypeOK, (\E j \in Slots, s \in Sources : Manual(j, s)) \/ (\E j \in Slots : Session(j)) \/ Tick
    PROVE  /\ slot' \in [Slots -> Call] /\ UNCHANGED locks
           /\ \A i \in Slots : slot'[i] = slot[i] \/ Begins(i)
<1>0. slot \in [Slots -> Call] BY DEF TypeOK
<1>1. ASSUME NEW s \in Sources, NEW t \in {"scheduler", "api", "cli"},
             NEW r \in {"none", "normalized", "legacy", "blocked"}
      PROVE  /\ Entered(s, t, r) \in Call
             /\ Entered(s, t, r).pc = "enter" /\ Entered(s, t, r).source = s
             /\ Entered(s, t, r).trigger = t
  BY DEF Entered, Idle, Call, Steps
<1>2. \A s \in Sources : RoutesOf(s) \subseteq {"none", "normalized", "legacy", "blocked"}
  BY RoutesAssumption DEF RoutesOf
<1>3. CASE \E j \in Slots, s \in Sources : Manual(j, s)
  <2>1. PICK j \in Slots, s \in Sources : Manual(j, s) BY <1>3
  <2> DEFINE t == IF j \in SidecarSlots THEN "api" ELSE "cli"
  <2>2. PICK r \in RoutesOf(s) : slot' = [slot EXCEPT ![j] = Entered(s, t, r)] BY <2>1 DEF Manual
  <2>3. /\ Entered(s, t, r) \in Call
        /\ Entered(s, t, r).pc = "enter" /\ Entered(s, t, r).source = s
        /\ Entered(s, t, r).trigger # "session"
    BY <1>1, <1>2
  <2>4. slot[j].pc = "idle" /\ UNCHANGED locks BY <2>1 DEF Manual
  <2> QED BY <1>0, <2>2, <2>3, <2>4 DEF Begins
<1>4. CASE \E j \in Slots : Session(j)
  <2>1. PICK j \in Slots : Session(j) BY <1>4
  <2> DEFINE c == [Idle EXCEPT !.pc = "gateThread", !.trigger = "session"]
  <2>2. slot' = [slot EXCEPT ![j] = c] /\ slot[j].pc = "idle" /\ UNCHANGED locks BY <2>1 DEF Session
  <2>3. c \in Call /\ c.pc = "gateThread" /\ c.trigger = "session" /\ c.source = NoSource
    BY DEF Idle, Call, Steps
  <2> HIDE DEF c
  <2> QED BY <1>0, <2>2, <2>3 DEF Begins
<1>5. CASE Tick
  <2> DEFINE started == {s \in Fired : Passes(s)}
  <2>1. PICK on \in [started -> IdleSidecar], via \in [started -> Routes \cup {"none"}] :
           slot' = [j \in Slots |->
                 IF \E s \in started : on[s] = j
                 THEN LET s == CHOOSE s \in started : on[s] = j IN Entered(s, "scheduler", via[s])
                 ELSE slot[j]]
    BY <1>5 DEF Tick
  <2>2. started \subseteq Sources BY SourcesAssumption DEF Fired, FirstDue
  <2> HIDE DEF started
  <2>3. ASSUME NEW i \in Slots
        PROVE  slot'[i] \in Call /\ (slot'[i] = slot[i] \/ Begins(i))
    <3>1. CASE \E s \in started : on[s] = i
      <4> DEFINE u == CHOOSE s \in started : on[s] = i
      <4>1. u \in started /\ on[u] = i BY <3>1
      <4>2. slot'[i] = Entered(u, "scheduler", via[u]) BY <2>1, <3>1
      <4>3. slot[i].pc = "idle" BY <4>1 DEF IdleSidecar
      <4> HIDE DEF u
      <4>4. u \in Sources /\ via[u] \in {"none", "normalized", "legacy", "blocked"}
        BY <2>2, <4>1, RoutesAssumption
      <4> QED BY <1>1, <4>2, <4>3, <4>4 DEF Begins
    <3>2. CASE ~\E s \in started : on[s] = i BY <1>0, <2>1, <3>2
    <3> QED BY <3>1, <3>2
  <2>4. slot' \in [Slots -> Call] BY <2>1, <2>3
  <2>5. UNCHANGED locks BY <1>5 DEF Tick
  <2> QED BY <2>3, <2>4, <2>5
<1> QED BY <1>3, <1>4, <1>5

\* Who is past a gate holds its lock, so no two calls are (run_source's mutual exclusion).
LEMMA Exclusion ==
    ASSUME LockInv
    PROVE  SourceExclusive /\ GatewayExclusive /\ MacroExclusive
<1>1. SourceExclusive BY DEF LockInv, Holds, HoldsSource, SourceExclusive
<1>2. GatewayExclusive BY DEF LockInv, Holds, HoldsGate, GatewayExclusive
<1>3. MacroExclusive BY DEF LockInv, Holds, HoldsMacro, MacroExclusive
<1> QED BY <1>1, <1>2, <1>3

(***************************************************************************)
(* The durable rows.                                                        *)
(***************************************************************************)
Runs(i) == slot[i].pc \in {"collect", "record"} /\ slot[i].source \in Sources

\* A step that writes no row, kills no run and enters no waiting point keeps both.
LEMMA QuietRows ==
    ASSUME RunningIsExplained, ScopeHeld, UNCHANGED durable,
           \A i \in Slots : Runs(i) => slot'[i].pc \in {"collect", "record"} /\ slot'[i].source = slot[i].source,
           \A i \in Slots : slot'[i].pc \in Waiting =>
              \/ ScopeKnown(slot'[i])
              \/ /\ slot[i].pc \in Waiting /\ slot'[i].source = slot[i].source
                 /\ slot'[i].trigger = slot[i].trigger /\ SameScope(i)
    PROVE  RunningIsExplained' /\ ScopeHeld'
<1>1. RunningIsExplained' BY DEF RunningIsExplained, Runs, durable
<1>2. ScopeHeld'
  BY DEF ScopeHeld, ScopeKnown, Unattended, SameScope, PendingContinuation, durable
<1> QED BY <1>1, <1>2

\* A call's row is written by that call alone, so a waiting call's snapshot stays right
\* (record_attempt and record_outcome under the two source locks).
LEMMA RowsKept ==
    ASSUME IInv, NEW j \in Slots, Moves(j, "collect") \/ Moves(j, "release"),
           slot[j].pc \in Fenced, slot[j].source \in Sources,
           \A s \in Sources \ {slot[j].source} : row'[s] = row[s]
    PROVE  ScopeHeld'
<1>1. SourceExclusive BY Exclusion DEF IInv
<1>2. slot[j].source # NoSource BY SourcesAssumption
<1>3. ASSUME NEW i \in Slots, slot'[i].pc \in Waiting
      PROVE  ScopeKnown(slot[i])'
  <2>1. i # j BY <1>3 DEF Moves, Waiting
  <2>2. slot'[i] = slot[i] BY <2>1 DEF Moves, Others
  <2>3. ScopeKnown(slot[i]) BY <1>3, <2>2 DEF IInv, ScopeHeld
  <2>4. CASE slot[i].source = NoSource BY <2>2, <2>4 DEF ScopeKnown
  <2>5. CASE slot[i].source # NoSource
    <3>1. slot[i].pc \in Fenced BY <1>3, <2>2 DEF Fenced, Waiting
    <3>2. slot[i].source # slot[j].source BY <1>1, <1>2, <2>1, <3>1 DEF SourceExclusive
    <3>3. slot[i].source \in Sources BY <2>5 DEF IInv, TypeOK, Call
    <3>4. row'[slot[i].source] = row[slot[i].source] BY <3>2, <3>3
    <3> QED BY <2>2, <2>3, <3>4 DEF ScopeKnown, Unattended, PendingContinuation
  <2> QED BY <2>4, <2>5
<1> QED BY <1>3 DEF ScopeHeld

\* Each step of a call keeps the invariants of the rows.
LEMMA CallRows ==
    ASSUME IInv, NEW j \in Slots, CallStep(j)
    PROVE  RunningIsExplained' /\ ScopeHeld'
<1> USE DEF IInv
<1>0. NoSource \notin Sources BY SourcesAssumption
<1>1. CASE LockSource(j)
  <2>1. slot[j].pc = "enter" /\ UNCHANGED durable BY <1>1 DEF LockSource
  <2>2. Others(j) /\ slot'[j].pc \in {"flock", "idle"}
    BY <1>1, GoFacts, EndFacts, IdleType DEF LockSource, Steps, Moves, Ends
  <2> QED BY <2>1, <2>2, QuietRows DEF Others, Runs, Waiting, SameScope
<1>2. CASE FlockSource(j)
  <2>1. slot[j].pc = "flock" /\ UNCHANGED durable BY <1>2 DEF FlockSource
  <2>2. Others(j) /\ slot'[j].pc \in {"macro", "gate", "idle"}
    BY <1>2, GoFacts, EndFacts, IdleType DEF FlockSource, Steps, Moves, Ends
  <2> QED BY <2>1, <2>2, QuietRows DEF Others, Runs, Waiting, SameScope
<1>3. CASE LeaseMacro(j)
  <2>1. slot[j].pc = "macro" /\ UNCHANGED durable BY <1>3 DEF LeaseMacro
  <2>2. Others(j) /\ slot'[j].pc \in {"gate", "idle"}
    BY <1>3, GoFacts, EndFacts, IdleType DEF LeaseMacro, Steps, Moves, Ends
  <2> QED BY <2>1, <2>2, QuietRows DEF Others, Runs, Waiting, SameScope
<1>4. CASE Gate(j)
  <2>1. UNCHANGED durable BY <1>4 DEF Gate
  <2>2. /\ slot[j].pc = "gate" /\ Others(j) /\ slot'[j].source = slot[j].source
        /\ slot'[j].pc = "release" \/ ScopeKnown(slot'[j])
    BY <1>4, GateFacts DEF Moves, ScopeKnown, Unattended
  <2> QED BY <2>1, <2>2, QuietRows DEF Others, Runs, Waiting, SameScope
<1>5. CASE GateThread(j)
  <2>1. slot[j].pc = "gateThread" /\ UNCHANGED durable BY <1>5 DEF GateThread
  <2>2. /\ Others(j) /\ slot'[j].source = slot[j].source /\ slot'[j].trigger = slot[j].trigger
        /\ slot'[j].pc = "release" \/ SameScope(j)
    BY <1>5, GateThreadKeeps DEF Moves
  <2> QED BY <2>1, <2>2, QuietRows DEF Others, Runs, Waiting, SameScope
<1>6. CASE GateFile(j)
  <2>1. slot[j].pc = "gateFile" /\ UNCHANGED durable BY <1>6 DEF GateFile
  <2>2. /\ Others(j) /\ slot'[j].source = slot[j].source /\ slot'[j].trigger = slot[j].trigger
        /\ slot'[j].pc = "release" \/ SameScope(j)
    BY <1>6, GateFileKeeps DEF Moves
  <2> QED BY <2>1, <2>2, QuietRows DEF Others, Runs, Waiting, SameScope
<1>7. CASE Attempt(j)
  <2>1. slot[j].pc = "attempt" /\ slot[j].source \in Sources /\ Moves(j, "collect")
    BY <1>7, AttemptKeeps
  <2>2. \/ /\ row' = [row EXCEPT ![slot[j].source].status = "running"]
           /\ abandoned' = abandoned \ {slot[j].source}
        \/ UNCHANGED <<row, abandoned>>
    BY <1>7 DEF Attempt, durable
  <2>3. \A s \in Sources \ {slot[j].source} : row'[s] = row[s] BY <2>2 DEF TypeOK
  <2>4. ScopeHeld' BY <2>1, <2>3, RowsKept DEF Fenced
  <2>5. RunningIsExplained'
    <3> SUFFICES ASSUME NEW s \in Sources, row'[s].status = "running"
                 PROVE  s \in abandoned' \/ \E i \in Slots : slot'[i].source = s /\ slot'[i].pc \in {"collect", "record"}
      BY DEF RunningIsExplained
    <3>1. CASE s = slot[j].source BY <2>1, <3>1 DEF Moves
    <3>2. CASE s # slot[j].source
      <4>1. row[s].status = "running" /\ (s \in abandoned => s \in abandoned') BY <2>2, <2>3, <3>2
      <4> QED BY <2>1, <4>1, <3>2 DEF RunningIsExplained, Moves, Others
    <3> QED BY <3>1, <3>2
  <2> QED BY <2>4, <2>5
<1>8. CASE RepairSkipped(j)
  <2>1. slot[j].pc = "attempt" /\ UNCHANGED durable BY <1>8 DEF RepairSkipped
  <2>2. Others(j) /\ slot'[j].pc = "release" BY <1>8, LeaveFacts DEF RepairSkipped, Moves
  <2> QED BY <2>1, <2>2, QuietRows DEF Others, Runs, Waiting, SameScope
<1>9. CASE Collect(j)
  <2>1. UNCHANGED durable BY <1>9 DEF Collect
  <2>2. /\ slot[j].pc = "collect" /\ Others(j) /\ slot'[j].source = slot[j].source
        /\ slot'[j].pc = IF slot[j].trigger = "session" THEN "release" ELSE "record"
    BY <1>9, CollectKeeps DEF Moves
  <2>3. Runs(j) => slot[j].trigger # "session" BY <1>0 DEF Runs, LockInv, Shape
  <2> QED BY <2>1, <2>2, <2>3, QuietRows DEF Others, Runs, Waiting, SameScope
<1>10. CASE Record(j)
  <2>1. /\ slot[j].pc = "record" /\ slot[j].source \in Sources /\ slot[j].outcome \in Statuses
        /\ Moves(j, "release")
    BY <1>10, RecordKeeps
  <2>2. \/ /\ row' = [row EXCEPT ![slot[j].source] = [status |-> slot[j].outcome, cont |-> slot[j].cont]]
           /\ abandoned' = abandoned
        \/ row' = row /\ abandoned' = abandoned \cup {slot[j].source}
    BY <1>10 DEF Record
  <2>3. \A s \in Sources \ {slot[j].source} : row'[s] = row[s] BY <2>2 DEF TypeOK
  <2>4. ScopeHeld' BY <2>1, <2>3, RowsKept DEF Fenced
  <2>5. RunningIsExplained'
    <3> SUFFICES ASSUME NEW s \in Sources, row'[s].status = "running"
                 PROVE  s \in abandoned' \/ \E i \in Slots : slot'[i].source = s /\ slot'[i].pc \in {"collect", "record"}
      BY DEF RunningIsExplained
    <3>1. CASE s = slot[j].source
      <4>1. slot[j].outcome # "running" BY <2>1 DEF Statuses
      <4>2. row \in [Sources -> Row] BY DEF TypeOK
      <4> QED BY <2>1, <2>2, <3>1, <4>1, <4>2
    <3>2. CASE s # slot[j].source
      <4>1. row[s].status = "running" /\ (s \in abandoned => s \in abandoned') BY <2>2, <2>3, <3>2
      <4> QED BY <2>1, <4>1, <3>2 DEF RunningIsExplained, Moves, Others
    <3> QED BY <3>1, <3>2
  <2> QED BY <2>4, <2>5
<1>11. CASE Release(j)
  <2>1. slot[j].pc = "release" /\ UNCHANGED durable BY <1>11 DEF Release
  <2>2. Others(j) /\ slot'[j].pc = "idle" BY <1>11, ReleaseKeeps, IdleType DEF Ends
  <2> QED BY <2>1, <2>2, QuietRows DEF Others, Runs, Waiting, SameScope
<1> QED BY <1>1, <1>2, <1>3, <1>4, <1>5, <1>6, <1>7, <1>8, <1>9, <1>10, <1>11 DEF CallStep

\* Killing calls leaves no unexplained row: what ran is abandoned (Die, the history of
\* the runs no outcome was recorded for).
LEMMA DieRows ==
    ASSUME IInv, NEW S \in SUBSET Slots, Die(S), row' = row
    PROVE  RunningIsExplained' /\ ScopeHeld'
<1>1. (\A i \in S : slot'[i] = Idle) /\ (\A i \in Slots \ S : slot'[i] = slot[i])
  BY DieKeeps DEF IInv
<1>2. /\ abandoned \subseteq abandoned'
      /\ \A i \in S : slot[i].pc \in {"collect", "record"} /\ slot[i].source # NoSource => slot[i].source \in abandoned'
  BY DEF Die
<1>3. RunningIsExplained'
  BY <1>1, <1>2, SourcesAssumption DEF IInv, RunningIsExplained
<1>4. ScopeHeld'
  BY <1>1, IdleType DEF IInv, ScopeHeld, ScopeKnown, Unattended, PendingContinuation, Waiting
<1> QED BY <1>3, <1>4

\* Booting clears only rows whose continuation was not pending anyway
\* (reconcile_interrupted_running).
LEMMA BootRows ==
    ASSUME IInv, SidecarBoots
    PROVE  RunningIsExplained' /\ ScopeHeld'
<1>1. slot' = slot BY DEF SidecarBoots
<1>2. ASSUME NEW s \in Sources
      PROVE  row'[s].status # "running" /\ PendingContinuation(s)' = PendingContinuation(s)
  <2>1. row[s] \in Row BY DEF IInv, TypeOK
  <2>2. CASE row[s].status = "running"
    <3>1. row'[s].status = "failed" /\ row'[s].cont = FALSE BY <2>1, <2>2 DEF SidecarBoots, ReconcileInterruptedRunning, Row
    <3> QED BY <2>2, <3>1 DEF PendingContinuation
  <2>3. CASE row[s].status # "running"
    <3>1. row'[s] = row[s] BY <2>3 DEF SidecarBoots, ReconcileInterruptedRunning
    <3> QED BY <2>3, <3>1 DEF PendingContinuation
  <2> QED BY <2>2, <2>3
<1>3. \A i \in Slots : slot[i].source \in Sources \cup {NoSource} BY DEF IInv, TypeOK, Call
<1>4. RunningIsExplained' BY <1>2 DEF RunningIsExplained
<1>5. ScopeHeld' BY <1>1, <1>2, <1>3 DEF IInv, ScopeHeld, ScopeKnown, Unattended
<1> QED BY <1>4, <1>5

(***************************************************************************)
(* The inductive invariant.                                                 *)
(***************************************************************************)
\* The first boot satisfies the inductive invariant.
LEMMA InitInv == Init => IInv
<1> SUFFICES ASSUME Init PROVE IInv OBVIOUS
<1>1. TypeOK BY IdleType, SchedulerBounds DEF Init, TypeOK, Row, Statuses
<1>2. \A j \in Slots : slot[j] = Idle BY DEF Init
<1>3. LockInv
  <2>1. Shape /\ Holds
    BY <1>2, IdleType, SourcesAssumption DEF Shape, Holds, HoldsSource, HoldsMacro, HoldsGate, InSession, Fenced
  <2>2. LocksOwned
    BY SlotsAssumption DEF Init, LocksOwned, SourceLocksOwned, SourceFilesOwned, MacroLeaseOwned,
       GateLocksOwned, GateFileOwned
  <2> QED BY <2>1, <2>2 DEF LockInv
<1>4. RunningIsExplained BY DEF Init, RunningIsExplained
<1>5. ScopeHeld BY <1>2, IdleType DEF ScopeHeld, ScopeKnown
<1> QED BY <1>1, <1>3, <1>4, <1>5 DEF IInv

\* Every step of a call keeps the lock discipline (the statements of run_source).
LEMMA CallLocks ==
    ASSUME TypeOK, LockInv, NEW j \in Slots, CallStep(j)
    PROVE  LockInv' /\ slot' \in [Slots -> Call]
BY LockSourceKeeps, FlockSourceKeeps, LeaseMacroKeeps, GateFacts, GateKeeps, GateThreadKeeps,
   GateFileKeeps, AttemptKeeps, CollectKeeps, RecordKeeps, ReleaseKeeps DEF CallStep

\* The steps of a call are well typed.
LEMMA CallType ==
    ASSUME TypeOK, LockInv, NEW j \in Slots, CallStep(j)
    PROVE  TypeOK'
<1>0. slot' \in [Slots -> Call] BY CallLocks
<1>1. ProcOf(j) \in Procs BY ProcType
<1> USE <1>0, <1>1
<1>2. CASE LockSource(j)
  <2>1. slot[j].source \in Sources BY <1>2, HasSource DEF LockInv, LockSource
  <2> QED BY <1>2, <2>1 DEF LockSource, TypeOK, durable, runtime, counters
<1>3. CASE FlockSource(j)
  <2>1. slot[j].source \in Sources BY <1>3, HasSource DEF LockInv, FlockSource
  <2>2. /\ sourceLock' = sourceLock \/ sourceLock' = [sourceLock EXCEPT ![ProcOf(j)][slot[j].source] = Free]
        /\ sourceFile' = sourceFile \/ sourceFile' = [sourceFile EXCEPT ![slot[j].source] = j]
    BY <1>3 DEF FlockSource
  <2>3. sourceLock' \in [Procs -> [Sources -> Slots \cup {Free}]]
    <3>1. CASE sourceLock' = sourceLock BY <3>1 DEF TypeOK
    <3>2. CASE sourceLock' = [sourceLock EXCEPT ![ProcOf(j)][slot[j].source] = Free] BY <2>1, <3>2 DEF TypeOK
    <3> QED BY <2>2, <3>1, <3>2
  <2>4. sourceFile' \in [Sources -> Slots \cup {Free}] BY <2>1, <2>2 DEF TypeOK
  <2>5. UNCHANGED <<macroLease, gateLock, gateFile, durable, runtime, counters>> BY <1>3 DEF FlockSource
  <2> QED BY <2>3, <2>4, <2>5 DEF TypeOK, durable, runtime, counters
<1>4. CASE LeaseMacro(j)
  <2>1. slot[j].source \in Sources BY <1>4, HasSource DEF LockInv, LeaseMacro
  <2>2. /\ sourceLock' = sourceLock \/ sourceLock' = [sourceLock EXCEPT ![ProcOf(j)][slot[j].source] = Free]
        /\ sourceFile' = sourceFile \/ sourceFile' = [sourceFile EXCEPT ![slot[j].source] = Free]
        /\ macroLease' = macroLease \/ macroLease' = j
    BY <1>4 DEF LeaseMacro
  <2>3. sourceLock' \in [Procs -> [Sources -> Slots \cup {Free}]]
    <3>1. CASE sourceLock' = sourceLock BY <3>1 DEF TypeOK
    <3>2. CASE sourceLock' = [sourceLock EXCEPT ![ProcOf(j)][slot[j].source] = Free] BY <2>1, <3>2 DEF TypeOK
    <3> QED BY <2>2, <3>1, <3>2
  <2>4. sourceFile' \in [Sources -> Slots \cup {Free}] BY <2>1, <2>2 DEF TypeOK
  <2>5. macroLease' \in Slots \cup {Free} BY <2>2 DEF TypeOK
  <2>6. UNCHANGED <<gateLock, gateFile, durable, runtime, counters>> BY <1>4 DEF LeaseMacro
  <2> QED BY <2>3, <2>4, <2>5, <2>6 DEF TypeOK, durable, runtime, counters
<1>5. CASE Gate(j)
  <2>1. age' \in [Sources -> 0..Interval]
    <3>1. age' = age \/ age' = [age EXCEPT ![slot[j].source] = 0] BY <1>5 DEF Gate
    <3>2. age \in [Sources -> 0..Interval] /\ 0 \in 0..Interval BY SchedulerBounds DEF TypeOK
    <3> QED BY <3>1, <3>2
  <2>2. faults' \in Nat BY <1>5 DEF Gate, ReadContinuation, TypeOK
  <2>3. UNCHANGED <<locks, durable, up, orphans, lives, manual>> BY <1>5 DEF Gate
  <2> QED BY <2>1, <2>2, <2>3 DEF TypeOK, locks, durable
<1>6. CASE GateThread(j) BY <1>6 DEF GateThread, TypeOK, durable, runtime, counters
<1>7. CASE GateFile(j) BY <1>7 DEF GateFile, TypeOK, durable, runtime, counters
<1>8. CASE Attempt(j)
  <2>1. slot[j].source \in Sources BY <1>8, AttemptKeeps
  <2>2. row' \in [Sources -> Row] BY <1>8, <2>1 DEF Attempt, TypeOK, Row, durable
  <2>3. abandoned' \subseteq Sources /\ faults' \in Nat BY <1>8 DEF Attempt, TypeOK, durable
  <2> QED BY <1>8, <2>2, <2>3 DEF Attempt, TypeOK, locks, runtime
<1>9. CASE RepairSkipped(j) BY <1>9 DEF RepairSkipped, TypeOK, locks, durable, runtime, counters
<1>10. CASE Collect(j) BY <1>10 DEF Collect, TypeOK, locks, durable, runtime, counters
<1>11. CASE Record(j)
  <2>1. slot[j].source \in Sources /\ slot[j].outcome \in Statuses BY <1>11, RecordKeeps
  <2>2. slot[j].cont \in BOOLEAN BY DEF TypeOK, Call
  <2>3. row' \in [Sources -> Row] BY <1>11, <2>1, <2>2 DEF Record, TypeOK, Row
  <2>4. abandoned' \subseteq Sources /\ faults' \in Nat BY <1>11, <2>1 DEF Record, TypeOK
  <2> QED BY <1>11, <2>3, <2>4 DEF Record, TypeOK, locks, runtime
<1>12. CASE Release(j) BY <1>12 DEF Release, Drop, TypeOK, durable, runtime, counters
<1> QED BY <1>2, <1>3, <1>4, <1>5, <1>6, <1>7, <1>8, <1>9, <1>10, <1>11, <1>12 DEF CallStep

\* What a process leaves behind is well typed.
LEMMA DieType ==
    ASSUME TypeOK, LockInv, NEW S \in SUBSET Slots, Die(S)
    PROVE  /\ slot' \in [Slots -> Call]
           /\ sourceLock' \in [Procs -> [Sources -> Slots \cup {Free}]]
           /\ sourceFile' \in [Sources -> Slots \cup {Free}]
           /\ macroLease' \in Slots \cup {Free}
           /\ gateLock' \in [Procs -> Slots \cup {Free}]
           /\ gateFile' \in Slots \cup {Free}
           /\ orphans' \subseteq Sources /\ abandoned' \subseteq Sources
<1>1. \A i \in Slots : slot[i].source \in Sources \cup {NoSource} BY DEF TypeOK, Call
<1>2. Ibkr \subseteq Sources BY SourcesAssumption
<1>3. orphans' \subseteq Sources BY <1>2 DEF Die, HasWorker, TypeOK
<1>4. abandoned' \subseteq Sources BY <1>1 DEF Die, TypeOK
<1> QED BY <1>3, <1>4, DieKeeps DEF Die, TypeOK

\* Every step keeps the inductive invariant.
LEMMA NextInv == IInv /\ [Next]_vars => IInv'
<1> SUFFICES ASSUME IInv, [Next]_vars PROVE IInv' OBVIOUS
<1>0. TypeOK /\ LockInv /\ RunningIsExplained /\ ScopeHeld BY DEF IInv
<1>1. ASSUME NEW j \in Slots, CallStep(j) PROVE IInv'
  BY <1>0, <1>1, CallLocks, CallType, CallRows DEF IInv
<1>2. CASE (\E j \in Slots, s \in Sources : Manual(j, s)) \/ (\E j \in Slots : Session(j)) \/ Tick
  <2>1. /\ slot' \in [Slots -> Call] /\ UNCHANGED locks
        /\ \A i \in Slots : slot'[i] = slot[i] \/ Begins(i)
    BY <1>0, <1>2, BeginFacts
  <2>2. LockInv' BY <1>0, <2>1, BeginKeeps
  <2>3. UNCHANGED durable BY <1>2 DEF Manual, Session, Tick
  <2>4. /\ age' \in [Sources -> 0..Interval]
        /\ manual' \in Nat /\ UNCHANGED <<up, orphans, lives, faults>>
    BY <1>0, <1>2, SchedulerBounds DEF Manual, Session, Tick, TypeOK, runtime, counters
  <2>5. TypeOK' BY <1>0, <2>1, <2>3, <2>4 DEF TypeOK, locks, durable
  <2>6. RunningIsExplained' /\ ScopeHeld'
    BY <1>0, <2>1, <2>3, QuietRows DEF Begins, Runs, Waiting, SameScope, ScopeKnown
  <2> QED BY <2>2, <2>5, <2>6 DEF IInv
<1>3. CASE SidecarDies
  <2>1. Die(SidecarSlots) /\ SidecarSlots \in SUBSET Slots /\ row' = row
    BY <1>3 DEF SidecarDies, Slots
  <2>2. TypeOK' BY <1>0, <1>3, <2>1, DieType DEF SidecarDies, TypeOK, counters
  <2> QED BY <1>0, <2>1, <2>2, DieKeeps, DieRows DEF IInv
<1>4. CASE CliDies
  <2>1. Die(CliSlots) /\ CliSlots \in SUBSET Slots /\ row' = row BY <1>4 DEF CliDies, Slots
  <2>2. TypeOK' BY <1>0, <1>4, <2>1, DieType DEF CliDies, TypeOK
  <2> QED BY <1>0, <2>1, <2>2, DieKeeps, DieRows DEF IInv
<1>5. CASE SidecarBoots
  <2>1. slot' = slot /\ UNCHANGED locks BY <1>5 DEF SidecarBoots
  <2>2. LockInv' BY <1>0, <2>1, BeginKeeps
  <2>3. row' \in [Sources -> Row] BY <1>0, <1>5 DEF SidecarBoots, ReconcileInterruptedRunning, TypeOK, Row, Statuses
  <2>4. /\ up' \in BOOLEAN /\ age' \in [Sources -> 0..Interval] /\ lives' \in Nat
        /\ UNCHANGED <<abandoned, orphans, faults, manual>>
    <3>1. up' = TRUE /\ age' \in [Sources -> 0..Interval] /\ lives' = lives + 1
      BY <1>5 DEF SidecarBoots
    <3>2. UNCHANGED <<abandoned, orphans, faults, manual>> BY <1>5 DEF SidecarBoots
    <3>3. lives \in Nat BY <1>0 DEF TypeOK
    <3> QED BY <3>1, <3>2, <3>3
  <2>5. TypeOK' BY <1>0, <2>1, <2>3, <2>4 DEF TypeOK, locks
  <2> QED BY <1>5, <2>2, <2>5, BootRows DEF IInv
<1>6. ASSUME NEW s \in Sources, OrphanEnds(s) PROVE IInv'
  <2>1. slot' = slot /\ UNCHANGED <<locks, durable>> BY <1>6 DEF OrphanEnds
  <2>2. LockInv' BY <1>0, <2>1, BeginKeeps
  <2>3. TypeOK' BY <1>0, <1>6, <2>1 DEF OrphanEnds, TypeOK, locks, durable, counters
  <2>4. RunningIsExplained' /\ ScopeHeld'
    BY <1>0, <2>1 DEF RunningIsExplained, ScopeHeld, ScopeKnown, Unattended, PendingContinuation, durable
  <2> QED BY <2>2, <2>3, <2>4 DEF IInv
<1>7. CASE UNCHANGED vars
  <2>1. slot' = slot /\ UNCHANGED <<locks, durable>> BY <1>7 DEF vars
  <2>2. LockInv' BY <1>0, <2>1, BeginKeeps
  <2>3. TypeOK' BY <1>0, <1>7 DEF vars, TypeOK, locks, durable, runtime, counters
  <2>4. RunningIsExplained' /\ ScopeHeld'
    BY <1>0, <2>1 DEF RunningIsExplained, ScopeHeld, ScopeKnown, Unattended, PendingContinuation, durable
  <2> QED BY <2>2, <2>3, <2>4 DEF IInv
<1> QED BY <1>1, <1>2, <1>3, <1>4, <1>5, <1>6, <1>7 DEF Next

\* The inductive invariant holds in every reachable state.
LEMMA Invariance == Spec => []IInv
BY InitInv, NextInv, PTL DEF Spec

(***************************************************************************)
(* Theorems.                                                                *)
(***************************************************************************)
\* Type correctness of the scheduler's memory, locks and durable rows.
THEOREM SchedulerTypeCorrect == Spec => []TypeOK
<1>1. IInv => TypeOK BY DEF IInv
<1> QED BY <1>1, Invariance, PTL

\* One source is never run twice at a time, whichever processes and threads ask for it
\* (run_source: the thread lock and its flock twin).
THEOREM SourcesExclusive == Spec => []SourceExclusive
<1>1. IInv => SourceExclusive BY Exclusion DEF IInv
<1> QED BY <1>1, Invariance, PTL

\* One call at a time is inside a Gateway session (ibkr_gateway_lock).
THEOREM GatewaysExclusive == Spec => []GatewayExclusive
<1>1. IInv => GatewayExclusive BY Exclusion DEF IInv
<1> QED BY <1>1, Invariance, PTL

\* One call at a time writes the macro calendar (macro_calendar_writer).
THEOREM MacrosExclusive == Spec => []MacroExclusive
<1>1. IInv => MacroExclusive BY Exclusion DEF IInv
<1> QED BY <1>1, Invariance, PTL

\* No return, timeout or crash leaks a lock (the finally block and the early returns).
THEOREM NothingLeaks == Spec => []LocksOwned
<1>1. IInv => LocksOwned BY DEF IInv, LockInv
<1> QED BY <1>1, Invariance, PTL

\* A row that says running belongs to a run in flight, or to one that was killed or could
\* not record its end (record_attempt after all skip-only gates).
THEOREM RunningExplained == Spec => []RunningIsExplained
<1>1. IInv => RunningIsExplained BY DEF IInv
<1> QED BY <1>1, Invariance, PTL

\* Unless its state read failed, a call starts with the saved scope as it is: other calls
\* and a boot rewrite rows while it waits, but never the one its locks cover, and an
\* unattended call starts over no saved scope (run_source, pending_cont).
THEOREM SnapshotsFresh == Spec => []SnapshotFresh
<1>1. IInv => SnapshotFresh
  <2> SUFFICES ASSUME IInv, NEW j \in Slots, slot[j].pc = "attempt", ~slot[j].blind
               PROVE  /\ slot[j].pending = PendingContinuation(slot[j].source)
                      /\ Unattended(slot[j]) => ~PendingContinuation(slot[j].source)
    BY DEF SnapshotFresh
  <2>1. slot[j].source # NoSource BY DEF IInv, LockInv, Shape
  <2>2. ScopeKnown(slot[j]) BY DEF IInv, ScopeHeld, Waiting
  <2> QED BY <2>1, <2>2 DEF ScopeKnown
<1> QED BY <1>1, Invariance, PTL
=============================================================================

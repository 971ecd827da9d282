------------------------------- MODULE Citizen -------------------------------
(***************************************************************************)
(* A generated program and the kernel around it: the standard descriptors  *)
(* and signal dispositions `signal_prologue` settles before the first      *)
(* step, the stub a shutdown signal enters, the error blocks a failed step *)
(* runs, the tower of releases and the death at its foot.  Which steps the *)
(* body takes is left open; where the tower is entered and in which order  *)
(* it releases is the subject of Process.                                  *)
(*                                                                         *)
(* Each signal is sent by somebody outside at a moment of its own, and     *)
(* stays pending until the kernel delivers it.                             *)
(***************************************************************************)
EXTENDS Integers, Sequences, FiniteSets, SequencesExt

CONSTANTS
  Signal,        \* the shutdown signals: SIGHUP, SIGINT, SIGTERM
  SIGPIPE,       \* what a write to a vanished reader sends
  NoSignal,      \* mereo_signo and _dying before any signal
  Codes,         \* exit codes of failures: 1, or the overrides of `failures is`
  Alternatives,  \* `or (...)` lines under a construction or a call
  MaxHeld,       \* bound: descriptors held at once
  MaxSent        \* bound: times each signal is sent

ASSUME SignalAssumption == SIGPIPE \notin Signal /\ NoSignal \notin Signal \cup {SIGPIPE}
ASSUME CodesAssumption == Codes \subseteq Nat \ {0}
ASSUME CountsAssumption ==
  Alternatives \in Nat /\ MaxHeld \in Nat /\ MaxSent \in Nat

VARIABLES
  owns,        \* the program has a release tower: interrupts_on
  checks,      \* some step of it ends in an error block: sigpipe_on
  code,        \* the exit code its failures store in _status
  disposition, \* signal |-> "default", "ignored" or "stub"
  settled,     \* the shutdown signals asked about, and set or left
  masked,      \* the shutdown signals are blocked
  pending,     \* shutdown signals sent and not yet delivered
  sent,        \* shutdown signal |-> times sent
  signo,       \* mereo_signo: the last signal the stub saw
  dying,       \* _dying
  fds,         \* open descriptors
  broken,      \* standard descriptors the poll found closed
  held,        \* descriptors the program owns, oldest first
  pc,          \* where the program is
  call,        \* the call it is in: kind, alternatives left, result
  status,      \* _status
  cause,       \* what sent it into the tower
  records,     \* failure records written to descriptor 2
  fate         \* how it ended, once it has

programVars == <<owns, checks, code>>
signalVars == <<disposition, settled, masked, pending, sent, signo>>
fdVars == <<fds, broken, held>>
endVars == <<dying, status, cause, records, fate>>
vars == <<owns, checks, code, disposition, settled, masked, pending, sent,
          signo, fds, broken, held, dying, status, cause, records, fate,
          pc, call>>

-----------------------------------------------------------------------------
Std == 0..2
Fd == 0..(2 + MaxHeld)
LowestFree == Min(Fd \ fds)

(* The calls with an error block of their own, which make the program      *)
(* check, and those an `or continue` repairs.                              *)
Checked == {"acquire", "call"}
CallKind == Checked \cup {"recovered"}
Results == {"ok", "failed", "EINTR", "EPIPE"}
NoCall == [kind |-> "none", left |-> 0, result |-> "none"]

Alive == [how |-> "alive", by |-> NoSignal, status |-> 0]
KilledBy(s) == [how |-> "killed", by |-> s, status |-> 0]
Exits(n) == [how |-> "exited", by |-> NoSignal, status |-> n % 256]

Points == {"poll", "repair", "sigpipe", "install", "body", "calling",
           "blocked", "result", "tower", "reraise", "unmask", "kill", "exit",
           "gone"}
Causes == {"none", "end", "ensure"} \cup Results

-----------------------------------------------------------------------------
(* What execve hands over: some standard descriptors may be closed, a      *)
(* signal is at its default or ignored, and the shutdown signals may be    *)
(* blocked, whichever the parent left.                                     *)
Init ==
  /\ owns \in BOOLEAN /\ checks \in BOOLEAN /\ code \in Codes
  /\ disposition \in [Signal \cup {SIGPIPE} -> {"default", "ignored"}]
  /\ settled = {}
  /\ masked \in BOOLEAN /\ pending = {} /\ sent = [s \in Signal |-> 0]
  /\ signo = NoSignal /\ dying = NoSignal
  /\ fds \in SUBSET Std /\ broken = {} /\ held = <<>>
  /\ pc = IF owns THEN "poll" ELSE "sigpipe"
  /\ call = NoCall /\ status = 0 /\ cause = "none" /\ records = 0
  /\ fate = Alive

-----------------------------------------------------------------------------
(* The kernel and whoever sends signals.                                   *)

(* An unblocked signal that is ignored is dropped as it is sent.           *)
Send(s) ==
  /\ pc # "gone" /\ sent[s] < MaxSent
  /\ sent' = [sent EXCEPT ![s] = @ + 1]
  /\ pending' = IF disposition[s] = "ignored" /\ ~masked THEN pending
                                                        ELSE pending \cup {s}
  /\ UNCHANGED <<disposition, settled, masked, signo, pc, call>>
  /\ UNCHANGED programVars /\ UNCHANGED fdVars /\ UNCHANGED endVars

Dies(s) ==
  /\ pc' = "gone" /\ fate' = KilledBy(s)
  /\ UNCHANGED <<disposition, settled, masked, sent, signo, call>>
  /\ UNCHANGED <<dying, status, cause, records>>
  /\ UNCHANGED programVars /\ UNCHANGED fdVars

Deliver(s) ==
  /\ pc # "gone" /\ ~masked /\ s \in pending
  /\ disposition[s] = "default"
  /\ pending' = pending \ {s}
  /\ Dies(s)

Discard(s) ==
  /\ pc # "gone" /\ ~masked /\ s \in pending
  /\ disposition[s] = "ignored"
  /\ pending' = pending \ {s}
  /\ UNCHANGED <<disposition, settled, masked, sent, signo, pc, call>>
  /\ UNCHANGED programVars /\ UNCHANGED fdVars /\ UNCHANGED endVars

(* The stub: it records the signal and blocks all three.  Only a call that *)
(* is blocked at that moment comes back with EINTR.  The kernel delivers   *)
(* all that is pending before the stub's first instruction, so a signal    *)
(* pending at its default kills instead.                                   *)
Stub(s) ==
  /\ pc # "gone" /\ ~masked /\ s \in pending
  /\ disposition[s] = "stub"
  /\ \A d \in pending : disposition[d] # "default"
  /\ pending' = pending \ {s}
  /\ signo' = s /\ masked' = TRUE
  /\ IF pc = "blocked"
       THEN pc' = "result" /\ call' = [call EXCEPT !.result = "EINTR"]
       ELSE UNCHANGED <<pc, call>>
  /\ UNCHANGED <<disposition, settled, sent>>
  /\ UNCHANGED programVars /\ UNCHANGED fdVars /\ UNCHANGED endVars

(* A program stopped in a call and continued: some calls come back with    *)
(* EINTR although no stub has run.                                         *)
Resume ==
  /\ pc = "blocked"
  /\ pc' = "result" /\ call' = [call EXCEPT !.result = "EINTR"]
  /\ UNCHANGED programVars /\ UNCHANGED signalVars
  /\ UNCHANGED fdVars /\ UNCHANGED endVars

-----------------------------------------------------------------------------
(* signal_prologue.                                                        *)

Poll ==
  /\ pc = "poll"
  /\ broken' = Std \ fds
  /\ pc' = "repair"
  /\ UNCHANGED <<fds, held, call>>
  /\ UNCHANGED programVars /\ UNCHANGED signalVars /\ UNCHANGED endVars

(* Mutant: the answer of open is not compared with the gap.                *)
RepairUnchecked(opened) ==
  /\ pc = "repair" /\ broken # {}
  /\ fds' = IF opened THEN fds \cup {LowestFree} ELSE fds
  /\ broken' = broken \ {Min(broken)}
  /\ UNCHANGED <<held, pc, call>>
  /\ UNCHANGED programVars /\ UNCHANGED signalVars /\ UNCHANGED endVars

(* open("/dev/null") answers the lowest free number; any other answer than *)
(* the gap being repaired ends the program, silently.                      *)
Repair(opened) ==
  /\ pc = "repair" /\ broken # {}
  /\ IF opened /\ LowestFree = Min(broken)
       THEN pc' = pc /\ fate' = fate
       ELSE pc' = "gone" /\ fate' = Exits(1)
  /\ fds' = IF opened THEN fds \cup {LowestFree} ELSE fds
  /\ broken' = broken \ {Min(broken)}
  /\ UNCHANGED <<held, call, dying, status, cause, records>>
  /\ UNCHANGED programVars /\ UNCHANGED signalVars

Repaired ==
  /\ pc = "repair" /\ broken = {}
  /\ pc' = "sigpipe"
  /\ UNCHANGED call /\ UNCHANGED fdVars
  /\ UNCHANGED programVars /\ UNCHANGED signalVars /\ UNCHANGED endVars

IgnoreSigpipe ==
  /\ pc = "sigpipe"
  /\ disposition' = IF checks THEN [disposition EXCEPT ![SIGPIPE] = "ignored"]
                              ELSE disposition
  /\ pc' = IF owns THEN "install" ELSE "body"
  /\ UNCHANGED <<settled, masked, pending, sent, signo, call>>
  /\ UNCHANGED programVars /\ UNCHANGED fdVars /\ UNCHANGED endVars

(* Mutant: the stub is set without asking.                                 *)
InstallUnasked(s) ==
  /\ pc = "install" /\ s \in Signal \ settled
  /\ settled' = settled \cup {s}
  /\ disposition' = [disposition EXCEPT ![s] = "stub"]
  /\ pc' = IF settled' = Signal THEN "body" ELSE pc
  /\ UNCHANGED <<masked, pending, sent, signo, call>>
  /\ UNCHANGED programVars /\ UNCHANGED fdVars /\ UNCHANGED endVars

(* Each shutdown signal in turn is asked about and set, unless it is       *)
(* ignored.  Nobody else writes dispositions, so the two calls are one     *)
(* step.                                                                   *)
Install(s) ==
  /\ pc = "install" /\ s \in Signal \ settled
  /\ settled' = settled \cup {s}
  /\ disposition' = IF disposition[s] # "ignored"
                      THEN [disposition EXCEPT ![s] = "stub"]
                      ELSE disposition
  /\ pc' = IF settled' = Signal THEN "body" ELSE pc
  /\ UNCHANGED <<masked, pending, sent, signo, call>>
  /\ UNCHANGED programVars /\ UNCHANGED fdVars /\ UNCHANGED endVars

-----------------------------------------------------------------------------
(* The body: calls, checks and scopes in any order.                        *)

(* A construction, a plain method call, or one with an `or continue`, each *)
(* with so many `or (...)` lines under it.                                 *)
Begin(kind, left) ==
  /\ pc = "body"
  /\ kind = "acquire" => owns /\ Len(held) < MaxHeld
  /\ kind \in Checked => checks
  /\ pc' = "calling" /\ call' = [kind |-> kind, left |-> left, result |-> "none"]
  /\ UNCHANGED programVars /\ UNCHANGED signalVars
  /\ UNCHANGED fdVars /\ UNCHANGED endVars

(* A call may have to wait; until it does, a signal does not reach it.     *)
Block ==
  /\ pc = "calling" /\ pc' = "blocked"
  /\ UNCHANGED call
  /\ UNCHANGED programVars /\ UNCHANGED signalVars
  /\ UNCHANGED fdVars /\ UNCHANGED endVars

Return(result) ==
  /\ pc \in {"calling", "blocked"}
  /\ result = "EPIPE" => disposition[SIGPIPE] = "ignored"
  /\ pc' = "result" /\ call' = [call EXCEPT !.result = result]
  /\ UNCHANGED programVars /\ UNCHANGED signalVars
  /\ UNCHANGED fdVars /\ UNCHANGED endVars

(* A write to a vanished reader, where nothing ignores SIGPIPE.            *)
BrokenPipe ==
  /\ pc \in {"calling", "blocked"} /\ call.kind # "acquire"
  /\ disposition[SIGPIPE] = "default"
  /\ UNCHANGED pending
  /\ Dies(SIGPIPE)

Succeed ==
  /\ pc = "result" /\ call.result = "ok"
  /\ IF call.kind = "acquire"
       THEN fds' = fds \cup {LowestFree} /\ held' = Append(held, LowestFree)
       ELSE UNCHANGED <<fds, held>>
  /\ pc' = "body" /\ call' = NoCall
  /\ UNCHANGED broken
  /\ UNCHANGED programVars /\ UNCHANGED signalVars /\ UNCHANGED endVars

(* The next `or (...)`, whatever it was that failed.                       *)
TryAlternative ==
  /\ pc = "result" /\ call.result # "ok" /\ call.left > 0
  /\ pc' = "calling"
  /\ call' = [call EXCEPT !.left = @ - 1, !.result = "none"]
  /\ UNCHANGED programVars /\ UNCHANGED signalVars
  /\ UNCHANGED fdVars /\ UNCHANGED endVars

OutOfAlternatives ==
  pc = "result" /\ call.result # "ok" /\ call.left = 0

(* `or continue`: the outs are repaired, and the program carries on.       *)
Recover ==
  /\ OutOfAlternatives /\ call.kind = "recovered"
  /\ pc' = "body" /\ call' = NoCall
  /\ UNCHANGED programVars /\ UNCHANGED signalVars
  /\ UNCHANGED fdVars /\ UNCHANGED endVars

(* An error block: two values are shutdowns, with no record and no status, *)
(* and the source tests for them before it writes anything.                *)
IsInterrupt(value) == owns /\ value = "EINTR"
IsBrokenPipe(value) == checks /\ value = "EPIPE"

(* Mutant: the exit status is never stored.                                *)
ReportSilently(value) ==
  /\ UNCHANGED status
  /\ records' = IF IsInterrupt(value) \/ IsBrokenPipe(value) THEN records
                                                            ELSE records + 1

(* Mutant: the status is stored ahead of the tests for a shutdown.         *)
ReportEagerly(value) ==
  /\ status' = code
  /\ records' = IF IsInterrupt(value) \/ IsBrokenPipe(value) THEN records
                                                            ELSE records + 1

Report(value) ==
  IF IsInterrupt(value) \/ IsBrokenPipe(value)
    THEN UNCHANGED <<status, records>>
    ELSE status' = code /\ records' = records + 1

EnterTower(reason) == pc' = "tower" /\ cause' = reason /\ call' = NoCall

ErrorBlock(value, reason) ==
  /\ dying' = IF IsInterrupt(value) THEN signo ELSE dying
  /\ Report(value)
  /\ EnterTower(reason)
  /\ UNCHANGED fate
  /\ UNCHANGED programVars /\ UNCHANGED signalVars /\ UNCHANGED fdVars

Fault ==
  /\ OutOfAlternatives /\ call.kind \in Checked
  /\ ErrorBlock(call.result, call.result)

(* `ensure X >= 0` tied to no call: the value is the program's own number, *)
(* and the error block reads it as if a call had answered it.              *)
FailEnsure(value) ==
  /\ pc = "body" /\ checks
  /\ ErrorBlock(value, "ensure")

(* A scope's end, or the floor at the foot of what is still held.          *)
CloseNewest ==
  /\ held # <<>>
  /\ fds' = fds \ {Last(held)} /\ held' = Front(held)
  /\ UNCHANGED <<broken, call>>
  /\ UNCHANGED programVars /\ UNCHANGED signalVars /\ UNCHANGED endVars

ScopeRelease == pc = "body" /\ pc' = pc /\ CloseNewest

(* `leave program`, or its end.                                            *)
Leave ==
  /\ pc = "body"
  /\ EnterTower("end")
  /\ UNCHANGED <<dying, status, records, fate>>
  /\ UNCHANGED programVars /\ UNCHANGED signalVars /\ UNCHANGED fdVars

-----------------------------------------------------------------------------
(* The tower, and the end.                                                 *)

TowerRelease == pc = "tower" /\ pc' = pc /\ CloseNewest

(* Mutant: the death does not wait for the tower.                          *)
LandmarkEarly ==
  /\ pc = "tower"
  /\ pc' = IF owns /\ dying # NoSignal THEN "reraise" ELSE "exit"
  /\ UNCHANGED call
  /\ UNCHANGED programVars /\ UNCHANGED signalVars
  /\ UNCHANGED fdVars /\ UNCHANGED endVars

(* Mutant: the landmark of a program that nobody interrupted leads up again. *)
LandmarkLeadsUp ==
  /\ pc = "tower" /\ held = <<>>
  /\ pc' = IF owns /\ dying # NoSignal THEN "reraise" ELSE "tower"
  /\ UNCHANGED call
  /\ UNCHANGED programVars /\ UNCHANGED signalVars
  /\ UNCHANGED fdVars /\ UNCHANGED endVars

(* The exit landmark: die of the signal that asked, or report the status.  *)
Landmark ==
  /\ pc = "tower" /\ held = <<>>
  /\ pc' = IF owns /\ dying # NoSignal THEN "reraise" ELSE "exit"
  /\ UNCHANGED call
  /\ UNCHANGED programVars /\ UNCHANGED signalVars
  /\ UNCHANGED fdVars /\ UNCHANGED endVars

(* _reraise: back to the default disposition ...                           *)
RestoreDefault ==
  /\ pc = "reraise"
  /\ disposition' = [disposition EXCEPT ![dying] = "default"]
  /\ pc' = "unmask"
  /\ UNCHANGED <<settled, masked, pending, sent, signo, call>>
  /\ UNCHANGED programVars /\ UNCHANGED fdVars /\ UNCHANGED endVars

(* Mutant: the mask the stub set is left in force.                         *)
UnmaskNothing ==
  /\ pc = "unmask"
  /\ pc' = "kill"
  /\ UNCHANGED <<disposition, settled, masked, pending, sent, signo, call>>
  /\ UNCHANGED programVars /\ UNCHANGED fdVars /\ UNCHANGED endVars

(* ... an empty signal mask ...                                            *)
Unmask ==
  /\ pc = "unmask"
  /\ masked' = FALSE
  /\ pc' = "kill"
  /\ UNCHANGED <<disposition, settled, pending, sent, signo, call>>
  /\ UNCHANGED programVars /\ UNCHANGED fdVars /\ UNCHANGED endVars

(* Neither call comes back before what it let through is delivered.        *)
NothingToDeliver == masked \/ pending = {}

(* ... and the signal, from itself.                                        *)
Kill ==
  /\ pc = "kill" /\ NothingToDeliver
  /\ pending' = pending \cup {dying}
  /\ pc' = "exit"
  /\ UNCHANGED <<disposition, settled, masked, sent, signo, call>>
  /\ UNCHANGED programVars /\ UNCHANGED fdVars /\ UNCHANGED endVars

ExitGroup ==
  /\ pc = "exit" /\ NothingToDeliver
  /\ pc' = "gone" /\ fate' = Exits(status)
  /\ UNCHANGED <<call, dying, status, cause, records>>
  /\ UNCHANGED programVars /\ UNCHANGED signalVars /\ UNCHANGED fdVars

Gone == pc = "gone" /\ UNCHANGED vars

Program ==
  \/ Poll \/ (\E opened \in BOOLEAN : Repair(opened)) \/ Repaired
  \/ IgnoreSigpipe \/ (\E s \in Signal : Install(s))
  \/ Block
  \/ (\E kind \in CallKind : \E left \in 0..Alternatives : Begin(kind, left))
  \/ (\E result \in {"ok", "failed", "EPIPE"} : Return(result)) \/ BrokenPipe
  \/ Succeed \/ TryAlternative \/ Recover \/ Fault
  \/ (\E value \in {"EINTR", "EPIPE", "other"} : FailEnsure(value))
  \/ ScopeRelease \/ Leave
  \/ TowerRelease \/ Landmark \/ RestoreDefault \/ Unmask \/ Kill \/ ExitGroup

Kernel == \E s \in Signal : Deliver(s) \/ Discard(s) \/ Stub(s)

Next == Program \/ Kernel \/ Resume \/ (\E s \in Signal : Send(s)) \/ Gone

(* The kernel delivers what is pending, and once in its tower the program  *)
(* runs on.  Nobody has to send anything, and the body may go on for ever. *)
Ending == pc \in {"tower", "reraise", "unmask", "kill", "exit"} /\ Program
Fairness == WF_vars(Kernel) /\ WF_vars(Ending)
Spec == Init /\ [][Next]_vars /\ Fairness

-----------------------------------------------------------------------------
(* Properties.                                                             *)

TypeOK ==
  /\ owns \in BOOLEAN /\ checks \in BOOLEAN /\ code \in Codes
  /\ disposition \in [Signal \cup {SIGPIPE} -> {"default", "ignored", "stub"}]
  /\ settled \subseteq Signal /\ masked \in BOOLEAN
  /\ pending \subseteq Signal /\ sent \in [Signal -> 0..MaxSent]
  /\ signo \in Signal \cup {NoSignal} /\ dying \in Signal \cup {NoSignal}
  /\ fds \subseteq Fd /\ broken \subseteq Std
  /\ held \in Seq(Fd) /\ Len(held) <= MaxHeld
  /\ pc \in Points /\ cause \in Causes
  /\ call \in [kind: CallKind \cup {"none"}, left: 0..Alternatives,
                result: Results \cup {"none"}]
  /\ status \in {0} \cup Codes /\ records \in 0..1

(* No descriptor the program opens is one of the three standard ones, even *)
(* started with some of them closed: its output never lands in its files.  *)
NothingOwnedIsStandard ==
  owns => \A k \in 1..Len(held) : held[k] \notin Std

(* A shutdown signal never kills a program that still holds something: its *)
(* releases come first.                                                    *)
KilledEmptyHanded ==
  (fate.how = "killed" /\ fate.by \in Signal) => held = <<>>

(* What was ignored when the program started stays ignored.                *)
IgnoredStaysIgnored ==
  [][\A s \in Signal : disposition[s] = "ignored" => disposition'[s] = "ignored"]_vars

(* A call that failed, other than by an interrupt or a broken pipe, leaves *)
(* one record and the failure's own exit code, whatever is sent meanwhile  *)
(* to a program that owns something.                                       *)
FailureIsReported ==
  (pc = "gone" /\ cause = "failed" /\ (owns \/ fate.how = "exited"))
    => records = 1 /\ fate = Exits(code)

(* And only a failure does: with no record written, a program that got as  *)
(* far as its body exits 0, if it exits.                                   *)
NonzeroMeansFailure ==
  (pc = "gone" /\ fate.how = "exited" /\ cause # "none" /\ records = 0)
    => fate = Exits(0)

(* A program wound down by a signal dies of that signal, unless another of *)
(* the three was sent as well.                                             *)
InterruptedDiesOfIt ==
  (pc = "gone" /\ dying # NoSignal /\ \A s \in Signal \ {dying} : sent[s] = 0)
    => fate = KilledBy(dying)

(* Once the tower is entered the program is gone, whatever is sent to it.  *)
TowerIsLeft == pc = "tower" ~> pc = "gone"

-----------------------------------------------------------------------------
(* What the documentation says and the code does not do.                   *)

(* "An interrupted program now dies of the signal once the tower has run": *)
(* it goes on to no further call once its stub has seen one.               *)
InterruptIsNotLost ==
  [][(pc = "body" /\ pc' = "calling") => signo = NoSignal]_vars

(* mereoc.py:457: "the wait status the parent reads is then the one it     *)
(* would have read had mereo never caught the signal at all".  A second,   *)
(* different signal sent while the tower runs is delivered as _reraise     *)
(* empties the mask, and its stub blocks the death of the first.           *)
SecondSignalChangesNothing ==
  (pc = "gone" /\ cause = "EINTR" /\ dying # NoSignal) => fate.how = "killed"

(* docs/citizen.md:106: "an interrupt arrived. Somebody is waiting to hear *)
(* about it, and a wait status of 0 would tell [them] that the work        *)
(* finished".  A call may answer EINTR after a stop and continue; no stub  *)
(* has run then, and the program exits 0 without a record.                 *)
InterruptIsTold ==
  (pc = "gone" /\ owns /\ cause = "EINTR") => fate # Exits(0)

(* "EINTR means wind down, not retry."                                     *)
EINTRWindsDown ==
  [][(pc = "result" /\ call.result = "EINTR" /\ pc' # pc) => pc' = "tower"]_vars

(* "SIGPIPE is always ignored."                                            *)
NotKilledBySigpipe == ~(fate.how = "killed" /\ fate.by = SIGPIPE)

(* "a failed `ensure` returns non-zero, with a record naming what failed"  *)
FailedEnsureIsNonzero ==
  (pc = "gone" /\ cause = "ensure") => fate # Exits(0)
=============================================================================

---------------------------- MODULE CitizenProofs ----------------------------
(***************************************************************************)
(* What a program started with any descriptors, dispositions and mask      *)
(* keeps, whatever is sent to it and whenever: proofs for every set of     *)
(* shutdown signals and every bound.                                       *)
(***************************************************************************)
EXTENDS Citizen, TLAPS

(* The parts of a run: before the body, in it, and from the tower on.      *)
Early == {"poll", "repair", "sigpipe", "install"}
Body == {"body", "calling", "blocked", "result"}
Late == {"tower", "reraise", "unmask", "kill", "exit"}

(* Until the program has failed or ended it has reported nothing; a plain  *)
(* failure is reported by the time the tower is entered, and once.  A      *)
(* call's result is in by the time it is looked at.                        *)
Accounts ==
  /\ pc \in Early \cup Body => cause = "none"
  /\ pc \in Late => cause # "none"
  /\ pc # "gone" => fate = Alive
  /\ cause = "none" => status = 0 /\ records = 0 /\ dying = NoSignal
  /\ cause = "failed" => status = code /\ records = 1 /\ dying = NoSignal
  /\ records = 0 => status = 0
  /\ pc = "result" => call.result # "none"

(* A program that owns something runs its body and its tower with no       *)
(* shutdown signal left at its default, and lets one through at the end    *)
(* only if it is dying of it.                                              *)
Guarded ==
  /\ owns /\ (pc \in Body \cup {"tower", "reraise"} \/ (pc = "exit" /\ dying = NoSignal))
       => \A s \in Signal : disposition[s] # "default"
  /\ pc \in Early => \A s \in settled : disposition[s] # "default"
  /\ signo # NoSignal => disposition[signo] # "ignored"
  /\ dying # NoSignal => owns /\ pc \in Late \cup {"gone"} /\ disposition[dying] # "ignored"
  /\ pc \in {"reraise", "unmask", "kill"} => dying # NoSignal

(* What is open: nothing but standard descriptors at first, and from the   *)
(* repair on all three and the ones held, the k-th of them k + 2.          *)
Opened ==
  /\ ~owns => held = <<>>
  /\ pc \in Early \cup {"reraise", "unmask", "kill", "exit"} => held = <<>>
  /\ \A k \in 1..Len(held) : held[k] = k + 2
  /\ owns /\ pc \in {"poll", "repair"} => fds \subseteq Std
  /\ pc = "repair" => broken = Std \ fds
  /\ pc \in {"poll", "repair"} => owns
  /\ owns /\ pc \notin {"poll", "repair", "gone"} => fds = 0..(2 + Len(held))
  /\ pc \in {"calling", "blocked", "result"} /\ call.kind = "acquire" => owns /\ Len(held) < MaxHeld

(* One shutdown signal and no other was sent to a program dying of it.     *)
Alone == dying # NoSignal /\ \A s \in Signal \ {dying} : sent[s] = 0

(* The way to that death: its disposition restored, its mask lifted, the   *)
(* signal pending.                                                         *)
Dying ==
  /\ \A s \in pending : sent[s] > 0 \/ s = dying
  /\ dying # NoSignal /\ pc \in {"unmask", "kill", "exit"} => disposition[dying] = "default"
  /\ Alone /\ pc \in {"kill", "exit"} => ~masked
  /\ Alone /\ pc = "exit" => dying \in pending

(* The inductive invariant.                                                *)
IInv == /\ TypeOK /\ Accounts /\ Guarded /\ Opened /\ Dying
        /\ KilledEmptyHanded /\ FailureIsReported
        /\ NonzeroMeansFailure /\ InterruptedDiesOfIt

-----------------------------------------------------------------------------
(* Facts about the operators.                                              *)

(* What an error block leaves: an interrupt or a broken pipe is a shutdown *)
(* without a report.                                                       *)
LEMMA Reported ==
  ASSUME NEW value, NEW reason, ErrorBlock(value, reason)
  PROVE  /\ pc' = "tower" /\ cause' = reason /\ call' = NoCall /\ fate' = fate
         /\ UNCHANGED programVars /\ UNCHANGED signalVars /\ UNCHANGED fdVars
         /\ \/ /\ owns /\ value = "EINTR"
               /\ dying' = signo /\ status' = status /\ records' = records
            \/ /\ value = "EPIPE"
               /\ dying' = dying /\ status' = status /\ records' = records
            \/ /\ ~(owns /\ value = "EINTR")
               /\ dying' = dying /\ status' = code /\ records' = records + 1
BY Zenon DEF ErrorBlock, EnterTower, Report, IsInterrupt, IsBrokenPipe

(* The least member of a set of integers.                                  *)
LEMMA LeastOf ==
  ASSUME NEW S \in SUBSET Int, NEW x \in S, \A y \in S : x <= y
  PROVE  Min(S) = x
<1> DEFINE Least(z) == z \in S /\ \A y \in S : z <= y
<1>1. Least(x)
  OBVIOUS
<1>2. Least(Min(S))
  BY <1>1 DEF Min
<1>3. Min(S) \in Int /\ x \in Int /\ Min(S) <= x /\ x <= Min(S)
  BY <1>1, <1>2
<1> QED BY <1>3

(* While a standard descriptor is closed, the next open takes the lowest.  *)
LEMMA FirstGap ==
  ASSUME fds \subseteq Std, fds # Std
  PROVE  LowestFree = Min(Std \ fds) /\ LowestFree \in Std \ fds
<1>1. PICK x \in Std \ fds : \A y \in Std \ fds : x <= y
  <2>1. CASE 0 \notin fds
    BY <2>1 DEF Std
  <2>2. CASE 0 \in fds /\ 1 \notin fds
    BY <2>2 DEF Std
  <2>3. CASE 0 \in fds /\ 1 \in fds
    <3>1. Std = {0, 1, 2}
      BY DEF Std
    <3>2. 2 \notin fds
      BY <2>3, <3>1
    <3>3. \A y \in Std \ fds : y = 2
      BY <2>3, <3>1
    <3> QED BY <3>1, <3>2, <3>3
  <2> QED BY <2>1, <2>2, <2>3
<1>2. x \in Fd \ fds /\ (\A y \in Fd \ fds : x <= y)
  BY <1>1, CountsAssumption DEF Std, Fd
<1>3. Fd \ fds \in SUBSET Int /\ Std \ fds \in SUBSET Int
  BY DEF Std, Fd
<1>4. Min(Std \ fds) = x /\ Min(Fd \ fds) = x
  BY <1>1, <1>2, <1>3, LeastOf
<1> QED BY <1>1, <1>4 DEF LowestFree

(* With the descriptors open in a row, the next one follows.               *)
LEMMA NextFree ==
  ASSUME NEW n \in Nat, n < MaxHeld, fds = 0..(2 + n)
  PROVE  LowestFree = 3 + n /\ 3 + n \in Fd
<1>1. 3 + n \in Fd \ fds /\ (\A y \in Fd \ fds : 3 + n <= y)
  BY CountsAssumption DEF Fd
<1>2. Fd \ fds \in SUBSET Int
  BY DEF Fd
<1> QED BY <1>1, <1>2, LeastOf DEF LowestFree

(* One more descriptor held, and one fewer.                                *)
LEMMA OneLonger ==
  ASSUME held \in Seq(Fd), NEW d \in Fd
  PROVE  /\ Append(held, d) \in Seq(Fd)
         /\ Len(Append(held, d)) = Len(held) + 1
         /\ \A k \in 1..Len(held) : Append(held, d)[k] = held[k]
         /\ Append(held, d)[Len(held) + 1] = d
OBVIOUS

LEMMA OneShorter ==
  ASSUME held \in Seq(Fd), held # <<>>
  PROVE  /\ Front(held) \in Seq(Fd)
         /\ Len(held) \in Nat \ {0}
         /\ Len(Front(held)) = Len(held) - 1
         /\ \A k \in 1..(Len(held) - 1) : Front(held)[k] = held[k]
         /\ Last(held) = held[Len(held)]
<1>1. Len(held) \in Nat \ {0} /\ Front(held) = [i \in 1..(Len(held) - 1) |-> held[i]]
  BY DEF Front
<1> QED BY <1>1 DEF Last

-----------------------------------------------------------------------------
(* Each part of the invariant is kept by every step.                       *)

(* The types, which rest on the descriptors being in a row.                *)
LEMMA TypesStep == ASSUME IInv, [Next]_vars PROVE TypeOK'
<1> TypeOK
  BY DEF IInv
<1> USE DEF TypeOK, Points, Causes, CallKind, Checked, Results, NoCall
<1>1. CASE \E s \in Signal : Send(s)
  BY <1>1, SignalAssumption, CountsAssumption DEF programVars, signalVars,
     fdVars, endVars, Send
<1>2. CASE \E s \in Signal : Discard(s)
  BY <1>2, SignalAssumption, CountsAssumption DEF programVars, signalVars,
     fdVars, endVars, Discard
<1>3. CASE \E s \in Signal : Stub(s)
  BY <1>3, SignalAssumption, CountsAssumption DEF programVars, signalVars,
     fdVars, endVars, Stub
<1>4. CASE \E s \in Signal : Deliver(s)
  BY <1>4, SignalAssumption, CountsAssumption DEF programVars, signalVars,
     fdVars, endVars, Deliver, Dies, KilledBy
<1>5. CASE \E opened \in BOOLEAN : Repair(opened)
  <2>1. PICK opened \in BOOLEAN : Repair(opened)
    BY <1>5
  <2>2. LowestFree \in Std /\ broken \ {Min(broken)} \subseteq Std
    BY <2>1, FirstGap DEF Repair, IInv, Opened
  <2>3. Std \subseteq Fd
    BY CountsAssumption DEF Std, Fd
  <2> QED BY <2>1, <2>2, <2>3, SignalAssumption DEF Repair, programVars, signalVars
<1>6. CASE Poll \/ Repaired \/ IgnoreSigpipe
  BY <1>6, SignalAssumption, CountsAssumption DEF programVars, signalVars,
     fdVars, endVars, Poll, Repaired, IgnoreSigpipe
<1>7. CASE \E s \in Signal : Install(s)
  BY <1>7, SignalAssumption, CountsAssumption DEF programVars, signalVars,
     fdVars, endVars, Install
<1>8. CASE \E kind \in CallKind : \E left \in 0..Alternatives : Begin(kind, left)
  BY <1>8, SignalAssumption, CountsAssumption DEF programVars, signalVars,
     fdVars, endVars, Begin
<1>9. CASE \E result \in {"ok", "failed", "EPIPE"} : Return(result)
  BY <1>9, SignalAssumption, CountsAssumption DEF programVars, signalVars,
     fdVars, endVars, Return
<1>10. CASE Block \/ Resume \/ Recover
  BY <1>10, SignalAssumption, CountsAssumption DEF programVars, signalVars,
     fdVars, endVars, Block, Resume, Recover, OutOfAlternatives
<1>11. CASE TryAlternative
  <2>1. call.left \in 1..Alternatives
    BY <1>11, CountsAssumption DEF TryAlternative
  <2>2. call' = [kind |-> call.kind, left |-> call.left - 1, result |-> "none"]
    BY <1>11 DEF TryAlternative
  <2>3. call.left - 1 \in 0..Alternatives
    BY <2>1, CountsAssumption
  <2> QED BY <1>11, <2>2, <2>3 DEF TryAlternative, programVars, signalVars, fdVars, endVars
<1>12. CASE BrokenPipe
  BY <1>12, SignalAssumption, CountsAssumption DEF programVars, signalVars,
     fdVars, endVars, BrokenPipe, Dies, KilledBy
<1>13. CASE Succeed
  <2>1. CASE call.kind = "acquire"
    <3>1. owns /\ Len(held) < MaxHeld /\ fds = 0..(2 + Len(held)) /\ Len(held) \in Nat
      BY <1>13, <2>1 DEF Succeed, IInv, Opened
    <3>2. LowestFree \in Fd
      BY <3>1, NextFree
    <3>3. held' = Append(held, LowestFree) /\ fds' = fds \cup {LowestFree}
      BY <1>13, <2>1 DEF Succeed
    <3>4. held' \in Seq(Fd) /\ Len(held') = Len(held) + 1
      BY <3>2, <3>3, OneLonger
    <3>5. Len(held') <= MaxHeld
      BY <3>1, <3>4, CountsAssumption
    <3> QED BY <1>13, <2>1, <3>2, <3>3, <3>4, <3>5, SignalAssumption, CountsAssumption
            DEF Succeed, programVars, signalVars, endVars
  <2>2. CASE call.kind # "acquire"
    BY <1>13, <2>2, SignalAssumption, CountsAssumption DEF Succeed, programVars, signalVars, endVars
  <2> QED BY <2>1, <2>2
<1>14. CASE Fault
  <2>1. records = 0
    BY <1>14 DEF IInv, Accounts, Body, Fault, OutOfAlternatives
  <2> QED BY <1>14, <2>1, SignalAssumption, Reported
          DEF Fault, OutOfAlternatives, programVars, signalVars, fdVars
<1>15. CASE \E value \in {"EINTR", "EPIPE", "other"} : FailEnsure(value)
  <2>1. records = 0
    BY <1>15 DEF IInv, Accounts, Body, FailEnsure
  <2>2. PICK value \in {"EINTR", "EPIPE", "other"} : FailEnsure(value)
    BY <1>15
  <2>3. ErrorBlock(value, "ensure")
    BY <2>2 DEF FailEnsure
  <2>4. /\ pc' = "tower" /\ cause' = "ensure" /\ call' = NoCall
        /\ dying' \in {signo, dying} /\ status' \in {status, code}
        /\ records' \in {records, records + 1}
        /\ UNCHANGED programVars /\ UNCHANGED signalVars /\ UNCHANGED fdVars
    BY <2>3, Reported
  <2> QED BY <2>1, <2>4, SignalAssumption, CountsAssumption
          DEF programVars, signalVars, fdVars
<1>16. CASE ScopeRelease \/ TowerRelease
  <2>1. held # <<>>
    BY <1>16 DEF ScopeRelease, TowerRelease, CloseNewest
  <2>2. held' \in Seq(Fd) /\ Len(held') <= MaxHeld /\ fds' \subseteq Fd
    BY <1>16, <2>1, OneShorter, CountsAssumption DEF ScopeRelease, TowerRelease, CloseNewest
  <2> QED BY <1>16, <2>2, SignalAssumption
          DEF ScopeRelease, TowerRelease, CloseNewest, programVars, signalVars, endVars
<1>17. CASE Leave
  BY <1>17, SignalAssumption, CountsAssumption DEF programVars, signalVars,
     fdVars, endVars, Leave, EnterTower
<1>18. CASE Landmark
  BY <1>18, SignalAssumption, CountsAssumption DEF programVars, signalVars,
     fdVars, endVars, Landmark
<1>19. CASE RestoreDefault \/ Unmask \/ Kill
  <2>1. dying \in Signal
    BY <1>19 DEF IInv, Guarded, RestoreDefault, Unmask, Kill
  <2>2. CASE RestoreDefault
    BY <2>1, <2>2, SignalAssumption DEF RestoreDefault, programVars, fdVars, endVars
  <2>3. CASE Unmask
    <3>1. masked' \in BOOLEAN /\ pc' \in Points
      BY <2>3 DEF Unmask
    <3> QED BY <2>3, <3>1 DEF Unmask, programVars, fdVars, endVars
  <2>4. CASE Kill
    BY <2>1, <2>4 DEF Kill, programVars, fdVars, endVars
  <2> QED BY <1>19, <2>2, <2>3, <2>4
<1>20. CASE ExitGroup
  BY <1>20, SignalAssumption, CountsAssumption DEF programVars, signalVars,
     fdVars, endVars, ExitGroup, Exits, NothingToDeliver
<1>21. CASE UNCHANGED vars
  BY <1>21 DEF vars
<1> QED BY <1>1, <1>2, <1>3, <1>4, <1>5, <1>6, <1>7, <1>8, <1>9, <1>10, <1>11,
   <1>12, <1>13, <1>14, <1>15, <1>16, <1>17, <1>18, <1>19, <1>20, <1>21 DEF
   Next, Program, Kernel, Gone

(* Only the error blocks write the record, the status and the cause, and   *)
(* each is entered once, from the body.                                    *)
LEMMA AccountsStep == ASSUME IInv, [Next]_vars PROVE Accounts'
<1> USE DEF IInv, TypeOK, Accounts, Guarded, Early, Body, Late, Alive
<1>1. CASE \/ \E s \in Signal : Send(s)
           \/ \E s \in Signal : Discard(s)
           \/ \E s \in Signal : Stub(s)
           \/ \E s \in Signal : Install(s)
           \/ \E kind \in CallKind : \E left \in 0..Alternatives : Begin(kind, left)
           \/ \E result \in {"ok", "failed", "EPIPE"} : Return(result)
           \/ Poll \/ Repaired \/ IgnoreSigpipe \/ Block \/ Resume
           \/ Recover \/ TryAlternative \/ ScopeRelease \/ TowerRelease \/ Landmark
           \/ RestoreDefault \/ Unmask \/ Kill \/ UNCHANGED vars
  BY <1>1, SignalAssumption DEF programVars, signalVars, fdVars, endVars, Send,
     Discard, Stub, Poll, Repaired, IgnoreSigpipe, Install, Begin, CallKind,
     Checked, Return, Block, Resume, Recover, OutOfAlternatives, NoCall,
     TryAlternative, ScopeRelease, TowerRelease, CloseNewest, Landmark,
     RestoreDefault, Unmask, Kill, NothingToDeliver, vars
<1>2. CASE \/ \E s \in Signal : Deliver(s)
           \/ \E opened \in BOOLEAN : Repair(opened)
           \/ BrokenPipe \/ ExitGroup
  BY <1>2, SignalAssumption DEF programVars, signalVars, fdVars, endVars,
     Deliver, Dies, KilledBy, BrokenPipe, Repair, Exits, ExitGroup,
     NothingToDeliver
<1>3. CASE \/ Succeed \/ Leave
  BY <1>3, SignalAssumption DEF programVars, signalVars, fdVars, endVars,
     Succeed, NoCall, Leave, EnterTower
<1>4. CASE Fault
  <2>1. /\ call.result \notin {"ok", "none"}
        /\ status = 0 /\ records = 0 /\ dying = NoSignal /\ fate = Alive
    BY <1>4 DEF Fault, OutOfAlternatives
  <2>3. ErrorBlock(call.result, call.result)
    BY <1>4 DEF Fault
  <2>4. /\ pc' = "tower" /\ cause' = call.result /\ fate' = fate /\ UNCHANGED programVars
        /\ \/ /\ call.result \in {"EINTR", "EPIPE"}
              /\ status' = status /\ records' = records
           \/ dying' = dying /\ status' = code /\ records' = records + 1
    BY <2>3, Reported
  <2>5. CASE call.result \in {"EINTR", "EPIPE"} /\ status' = status /\ records' = records
    BY <2>1, <2>4, <2>5 DEF programVars
  <2>6. CASE dying' = dying /\ status' = code /\ records' = records + 1
    BY <2>1, <2>4, <2>6 DEF programVars
  <2> QED BY <2>4, <2>5, <2>6
<1>5. CASE \E value \in {"EINTR", "EPIPE", "other"} : FailEnsure(value)
  BY <1>5, SignalAssumption DEF programVars, signalVars, fdVars, endVars,
     FailEnsure, ErrorBlock, Report, EnterTower, IsInterrupt, IsBrokenPipe,
     NoCall
<1> QED BY <1>1, <1>2, <1>3, <1>4, <1>5 DEF Next, Program, Kernel, Gone

(* A disposition goes back to its default at the end of the tower only.    *)
LEMMA GuardedStep == ASSUME IInv, [Next]_vars PROVE Guarded'
<1> USE DEF IInv, TypeOK, Accounts, Guarded, Early, Body, Late
<1>1. CASE \/ \E s \in Signal : Send(s)
           \/ \E s \in Signal : Discard(s)
           \/ \E s \in Signal : Stub(s)
  BY <1>1, SignalAssumption DEF programVars, signalVars, fdVars, endVars, Send,
     Discard, Stub
<1>2. CASE \/ \E s \in Signal : Deliver(s)
           \/ \E opened \in BOOLEAN : Repair(opened)
           \/ BrokenPipe \/ ExitGroup
  BY <1>2, SignalAssumption DEF programVars, signalVars, fdVars, endVars,
     Deliver, Dies, KilledBy, BrokenPipe, Repair, Exits, ExitGroup,
     NothingToDeliver
<1>3. CASE \/ \E s \in Signal : Install(s)
           \/ Poll \/ Repaired \/ IgnoreSigpipe
  BY <1>3, SignalAssumption DEF programVars, signalVars, fdVars, endVars, Poll,
     Repaired, IgnoreSigpipe, Install
<1>4. CASE \/ \E kind \in CallKind : \E left \in 0..Alternatives : Begin(kind, left)
           \/ \E result \in {"ok", "failed", "EPIPE"} : Return(result)
           \/ Block \/ Resume \/ Recover \/ TryAlternative \/ Succeed
           \/ ScopeRelease \/ TowerRelease \/ Landmark \/ UNCHANGED vars
  BY <1>4, SignalAssumption DEF programVars, signalVars, fdVars, endVars,
     Begin, CallKind, Checked, Return, Block, Resume, Recover,
     OutOfAlternatives, NoCall, TryAlternative, Succeed, ScopeRelease,
     TowerRelease, CloseNewest, Landmark, vars
<1>5. CASE \/ \E value \in {"EINTR", "EPIPE", "other"} : FailEnsure(value)
           \/ Fault \/ Leave
  BY <1>5, SignalAssumption DEF programVars, signalVars, fdVars, endVars,
     Fault, OutOfAlternatives, ErrorBlock, Report, EnterTower, IsInterrupt,
     IsBrokenPipe, NoCall, FailEnsure, Leave
<1>6. CASE RestoreDefault \/ Unmask \/ Kill
  BY <1>6, SignalAssumption DEF programVars, signalVars, fdVars, endVars,
     RestoreDefault, Unmask, Kill, NothingToDeliver
<1> QED BY <1>1, <1>2, <1>3, <1>4, <1>5, <1>6 DEF Next, Program, Kernel, Gone

(* Opening and closing keep the descriptors in a row above the standard    *)
(* ones: what is held is closed newest first.                              *)
LEMMA OpenedStep == ASSUME IInv, [Next]_vars PROVE Opened'
<1> USE DEF IInv, TypeOK, Opened, Accounts, Guarded, Early, Body, Late, NoCall
<1>1. CASE \/ \E s \in Signal : Send(s)
           \/ \E s \in Signal : Discard(s)
           \/ \E s \in Signal : Stub(s)
           \/ \E s \in Signal : Deliver(s)
           \/ BrokenPipe
  BY <1>1, CountsAssumption DEF programVars, signalVars, fdVars, endVars, Send,
     Discard, Stub, Deliver, Dies, KilledBy, BrokenPipe
<1>2. CASE \E opened \in BOOLEAN : Repair(opened)
  <2>1. PICK opened \in BOOLEAN : Repair(opened)
    BY <1>2
  <2>2. CASE opened /\ LowestFree = Min(broken)
    <3>1. LowestFree \in Std \ fds
      BY <2>1, FirstGap DEF Repair
    <3>2. fds' \subseteq Std /\ broken' = Std \ fds'
      BY <2>1, <2>2, <3>1 DEF Repair
    <3> QED BY <2>1, <2>2, <3>2 DEF Repair, programVars
  <2>3. CASE ~(opened /\ LowestFree = Min(broken))
    BY <2>1, <2>3 DEF Repair, programVars
  <2> QED BY <2>2, <2>3
<1>3. CASE Poll \/ Repaired \/ IgnoreSigpipe
  <2>1. CASE Poll
    BY <2>1 DEF Poll, programVars
  <2>2. CASE Repaired
    <3>1. held = <<>> /\ owns
      BY <2>2 DEF Repaired
    <3>2. fds \subseteq Std /\ Std \ fds = {}
      BY <2>2 DEF Repaired
    <3>3. fds = Std /\ Len(held) = 0
      BY <3>1, <3>2
    <3> QED BY <2>2, <3>1, <3>3 DEF Repaired, Std, programVars, fdVars
  <2>3. CASE IgnoreSigpipe
    BY <2>3 DEF IgnoreSigpipe, programVars, fdVars
  <2> QED BY <1>3, <2>1, <2>2, <2>3
<1>4. CASE \E s \in Signal : Install(s)
  BY <1>4, CountsAssumption DEF programVars, signalVars, fdVars, endVars,
     Install
<1>5. CASE \E kind \in CallKind : \E left \in 0..Alternatives : Begin(kind, left)
  BY <1>5, CountsAssumption DEF programVars, signalVars, fdVars, endVars,
     Begin, CallKind, Checked
<1>6. CASE \E result \in {"ok", "failed", "EPIPE"} : Return(result)
  BY <1>6, CountsAssumption DEF programVars, signalVars, fdVars, endVars,
     Return
<1>7. CASE Block \/ Resume \/ Recover
  BY <1>7, CountsAssumption DEF programVars, signalVars, fdVars, endVars,
     Block, Resume, Recover, OutOfAlternatives
<1>8. CASE TryAlternative
  BY <1>8, CountsAssumption DEF programVars, signalVars, fdVars, endVars,
     TryAlternative
<1>9. CASE Succeed
  <2>1. CASE call.kind = "acquire"
    <3>1. owns /\ Len(held) < MaxHeld /\ fds = 0..(2 + Len(held)) /\ Len(held) \in Nat
      BY <1>9, <2>1 DEF Succeed
    <3>2. LowestFree = 3 + Len(held) /\ LowestFree \in Fd
      BY <3>1, NextFree
    <3>3. held' = Append(held, LowestFree) /\ fds' = fds \cup {LowestFree}
      BY <1>9, <2>1 DEF Succeed
    <3>4. Len(held') = Len(held) + 1 /\ (\A k \in 1..Len(held') : held'[k] = k + 2)
      BY <3>1, <3>2, <3>3, OneLonger
    <3>5. fds' = 0..(2 + Len(held'))
      BY <3>1, <3>2, <3>3, <3>4
    <3> QED BY <1>9, <3>1, <3>4, <3>5 DEF Succeed, programVars
  <2>2. CASE call.kind # "acquire"
    BY <1>9, <2>2 DEF Succeed, programVars
  <2> QED BY <2>1, <2>2
<1>10. CASE \/ \E value \in {"EINTR", "EPIPE", "other"} : FailEnsure(value)
            \/ Fault \/ Leave
  BY <1>10, CountsAssumption DEF programVars, signalVars, fdVars, endVars,
     Fault, OutOfAlternatives, ErrorBlock, Report, EnterTower, IsInterrupt,
     IsBrokenPipe, FailEnsure, Leave
<1>11. CASE ScopeRelease \/ TowerRelease
  <2>1. held # <<>> /\ held' = Front(held) /\ fds' = fds \ {Last(held)} /\ pc' = pc
    BY <1>11 DEF ScopeRelease, TowerRelease, CloseNewest
  <2>2. /\ Len(held) \in Nat \ {0} /\ Len(held') = Len(held) - 1
        /\ \A k \in 1..Len(held') : held'[k] = k + 2
        /\ Last(held) = Len(held) + 2
    BY <2>1, OneShorter
  <2>3. owns /\ pc \in {"body", "tower"} /\ fds = 0..(2 + Len(held))
    BY <1>11, <2>1 DEF ScopeRelease, TowerRelease
  <2>4. fds' = 0..(2 + Len(held'))
    BY <2>1, <2>2, <2>3
  <2> QED BY <1>11, <2>1, <2>2, <2>3, <2>4 DEF ScopeRelease, TowerRelease, CloseNewest, programVars
<1>12. CASE \/ Landmark \/ RestoreDefault \/ Unmask \/ Kill \/ ExitGroup
  BY <1>12, CountsAssumption, SMTT(60) DEF programVars, signalVars, fdVars, endVars,
     Landmark, RestoreDefault, Unmask, Kill, NothingToDeliver, ExitGroup, Exits
<1>13. CASE UNCHANGED vars
  BY <1>13 DEF vars
<1> QED BY <1>1, <1>2, <1>3, <1>4, <1>5, <1>6, <1>7, <1>8, <1>9, <1>10, <1>11,
   <1>12, <1>13 DEF Next, Program, Kernel, Gone

(* The three calls of _reraise, with signals arriving between them.        *)
LEMMA DyingStep == ASSUME IInv, [Next]_vars PROVE Dying'
<1> USE DEF IInv, TypeOK, Accounts, Guarded, Dying, Alone, Early, Body, Late
<1>1. CASE \E s \in Signal : Send(s)
  BY <1>1, SignalAssumption DEF programVars, signalVars, fdVars, endVars, Send
<1>2. CASE \/ \E s \in Signal : Discard(s)
           \/ \E s \in Signal : Stub(s)
           \/ \E s \in Signal : Deliver(s)
  BY <1>2, SignalAssumption DEF programVars, signalVars, fdVars, endVars,
     Discard, Stub, Deliver, Dies, KilledBy
<1>3. CASE \/ \E opened \in BOOLEAN : Repair(opened)
           \/ BrokenPipe \/ ExitGroup
  BY <1>3, SignalAssumption DEF programVars, signalVars, fdVars, endVars,
     Repair, Exits, BrokenPipe, Dies, KilledBy, ExitGroup, NothingToDeliver
<1>4. CASE \/ \E s \in Signal : Install(s)
           \/ \E kind \in CallKind : \E left \in 0..Alternatives : Begin(kind, left)
           \/ \E result \in {"ok", "failed", "EPIPE"} : Return(result)
           \/ Poll \/ Repaired \/ IgnoreSigpipe \/ Block \/ Resume
           \/ Recover \/ TryAlternative \/ Succeed \/ ScopeRelease \/ TowerRelease
           \/ UNCHANGED vars
  BY <1>4, SignalAssumption DEF programVars, signalVars, fdVars, endVars, Poll,
     Repaired, IgnoreSigpipe, Install, Begin, CallKind, Checked, Return, Block,
     Resume, Recover, OutOfAlternatives, NoCall, TryAlternative, Succeed,
     ScopeRelease, TowerRelease, CloseNewest, vars
<1>5. CASE \/ \E value \in {"EINTR", "EPIPE", "other"} : FailEnsure(value)
           \/ Fault \/ Leave
  BY <1>5, SignalAssumption DEF programVars, signalVars, fdVars, endVars,
     Fault, OutOfAlternatives, ErrorBlock, Report, EnterTower, IsInterrupt,
     IsBrokenPipe, NoCall, FailEnsure, Leave
<1>6. CASE Landmark
  BY <1>6, SignalAssumption DEF programVars, signalVars, fdVars, endVars,
     Landmark
<1>7. CASE RestoreDefault \/ Unmask \/ Kill
  BY <1>7, SignalAssumption DEF programVars, signalVars, fdVars, endVars,
     RestoreDefault, Unmask, Kill, NothingToDeliver
<1> QED BY <1>1, <1>2, <1>3, <1>4, <1>5, <1>6, <1>7 DEF Next, Program, Kernel,
   Gone

(* A default disposition is met only by a program that holds nothing.      *)
LEMMA KilledStep == ASSUME IInv, [Next]_vars PROVE KilledEmptyHanded'
<1> USE DEF IInv, TypeOK, Accounts, Guarded, Opened, Alive, KilledEmptyHanded, Early, Body, Late, Points
<1>1. CASE \/ \E s \in Signal : Send(s)
           \/ \E s \in Signal : Discard(s)
           \/ \E s \in Signal : Stub(s)
           \/ \E s \in Signal : Install(s)
           \/ \E kind \in CallKind : \E left \in 0..Alternatives : Begin(kind, left)
           \/ \E result \in {"ok", "failed", "EPIPE"} : Return(result)
           \/ \E value \in {"EINTR", "EPIPE", "other"} : FailEnsure(value)
           \/ Poll \/ Repaired \/ IgnoreSigpipe \/ Block \/ Resume
           \/ Recover \/ TryAlternative \/ Succeed \/ Fault \/ ScopeRelease
           \/ TowerRelease \/ Leave \/ Landmark \/ RestoreDefault \/ Unmask
           \/ Kill \/ UNCHANGED vars
  BY <1>1, SignalAssumption DEF programVars, signalVars, fdVars, endVars, Send,
     Discard, Stub, Poll, Repaired, IgnoreSigpipe, Install, Begin, CallKind,
     Checked, Return, Block, Resume, Recover, OutOfAlternatives, NoCall,
     TryAlternative, Succeed, Fault, ErrorBlock, Report, EnterTower,
     IsInterrupt, IsBrokenPipe, FailEnsure, ScopeRelease, TowerRelease,
     CloseNewest, Leave, Landmark, RestoreDefault, Unmask, Kill,
     NothingToDeliver, vars
<1>2. CASE \E s \in Signal : Deliver(s)
  BY <1>2, SignalAssumption DEF programVars, signalVars, fdVars, endVars,
     Deliver, Dies, KilledBy
<1>3. CASE \/ \E opened \in BOOLEAN : Repair(opened)
           \/ BrokenPipe \/ ExitGroup
  BY <1>3, SignalAssumption DEF programVars, signalVars, fdVars, endVars,
     Repair, Exits, BrokenPipe, Dies, KilledBy, ExitGroup, NothingToDeliver
<1> QED BY <1>1, <1>2, <1>3 DEF Next, Program, Kernel, Gone

(* A failure's record and status stand until the exit.                     *)
LEMMA FailureStep == ASSUME IInv, [Next]_vars PROVE FailureIsReported'
<1> USE DEF IInv, TypeOK, Accounts, Guarded, Alive, FailureIsReported, Early, Body, Late, Points, Causes
<1>1. CASE \/ \E s \in Signal : Send(s)
           \/ \E s \in Signal : Discard(s)
           \/ \E s \in Signal : Stub(s)
           \/ \E s \in Signal : Install(s)
           \/ \E kind \in CallKind : \E left \in 0..Alternatives : Begin(kind, left)
           \/ \E result \in {"ok", "failed", "EPIPE"} : Return(result)
           \/ \E value \in {"EINTR", "EPIPE", "other"} : FailEnsure(value)
           \/ Poll \/ Repaired \/ IgnoreSigpipe \/ Block \/ Resume
           \/ Recover \/ TryAlternative \/ Succeed \/ Fault \/ ScopeRelease
           \/ TowerRelease \/ Leave \/ Landmark \/ RestoreDefault \/ Unmask
           \/ Kill \/ UNCHANGED vars
  BY <1>1, SignalAssumption DEF programVars, signalVars, fdVars, endVars, Send,
     Discard, Stub, Poll, Repaired, IgnoreSigpipe, Install, Begin, CallKind,
     Checked, Return, Block, Resume, Recover, OutOfAlternatives, NoCall,
     TryAlternative, Succeed, Fault, ErrorBlock, Report, EnterTower,
     IsInterrupt, IsBrokenPipe, FailEnsure, ScopeRelease, TowerRelease,
     CloseNewest, Leave, Landmark, RestoreDefault, Unmask, Kill,
     NothingToDeliver, vars
<1>2. CASE \E s \in Signal : Deliver(s)
  BY <1>2, SignalAssumption DEF programVars, signalVars, fdVars, endVars,
     Deliver, Dies, KilledBy
<1>3. CASE \/ \E opened \in BOOLEAN : Repair(opened)
           \/ BrokenPipe
  BY <1>3, SignalAssumption DEF programVars, signalVars, fdVars, endVars,
     Repair, Exits, BrokenPipe, Dies, KilledBy
<1>4. CASE ExitGroup
  BY <1>4, SignalAssumption DEF programVars, signalVars, fdVars, endVars,
     ExitGroup, Exits, NothingToDeliver
<1> QED BY <1>1, <1>2, <1>3, <1>4 DEF Next, Program, Kernel, Gone

(* Without a record the status stays 0.                                    *)
LEMMA NonzeroStep == ASSUME IInv, [Next]_vars PROVE NonzeroMeansFailure'
<1> USE DEF IInv, TypeOK, Accounts, Guarded, Alive, NonzeroMeansFailure, Early, Body, Late
<1>1. CASE \/ \E s \in Signal : Send(s)
           \/ \E s \in Signal : Discard(s)
           \/ \E s \in Signal : Stub(s)
           \/ \E s \in Signal : Install(s)
           \/ \E kind \in CallKind : \E left \in 0..Alternatives : Begin(kind, left)
           \/ \E result \in {"ok", "failed", "EPIPE"} : Return(result)
           \/ \E value \in {"EINTR", "EPIPE", "other"} : FailEnsure(value)
           \/ Poll \/ Repaired \/ IgnoreSigpipe \/ Block \/ Resume
           \/ Recover \/ TryAlternative \/ Succeed \/ Fault \/ ScopeRelease
           \/ TowerRelease \/ Leave \/ Landmark \/ RestoreDefault \/ Unmask
           \/ Kill \/ UNCHANGED vars
  BY <1>1, SignalAssumption DEF programVars, signalVars, fdVars, endVars, Send,
     Discard, Stub, Poll, Repaired, IgnoreSigpipe, Install, Begin, CallKind,
     Checked, Return, Block, Resume, Recover, OutOfAlternatives, NoCall,
     TryAlternative, Succeed, Fault, ErrorBlock, Report, EnterTower,
     IsInterrupt, IsBrokenPipe, FailEnsure, ScopeRelease, TowerRelease,
     CloseNewest, Leave, Landmark, RestoreDefault, Unmask, Kill,
     NothingToDeliver, vars
<1>2. CASE \/ \E opened \in BOOLEAN : Repair(opened)
           \/ \E s \in Signal : Deliver(s)
           \/ BrokenPipe
  BY <1>2, SignalAssumption DEF programVars, signalVars, fdVars, endVars,
     Repair, Exits, BrokenPipe, Dies, KilledBy, Deliver
<1>3. CASE ExitGroup
  BY <1>3, SignalAssumption DEF programVars, signalVars, fdVars, endVars,
     ExitGroup, Exits, NothingToDeliver
<1> QED BY <1>1, <1>2, <1>3 DEF Next, Program, Kernel, Gone

(* Only the signal it is dying of can reach a program that is.             *)
LEMMA InterruptedStep == ASSUME IInv, [Next]_vars PROVE InterruptedDiesOfIt'
<1> USE DEF IInv, TypeOK, Accounts, Guarded, Dying, Alone, Alive, InterruptedDiesOfIt, Early, Body, Late
<1>1. CASE \E s \in Signal : Send(s)
  BY <1>1, SignalAssumption DEF programVars, signalVars, fdVars, endVars, Send
<1>2. CASE \/ \E s \in Signal : Discard(s)
           \/ \E s \in Signal : Stub(s)
           \/ \E s \in Signal : Install(s)
           \/ \E kind \in CallKind : \E left \in 0..Alternatives : Begin(kind, left)
           \/ \E result \in {"ok", "failed", "EPIPE"} : Return(result)
           \/ \E value \in {"EINTR", "EPIPE", "other"} : FailEnsure(value)
           \/ Poll \/ Repaired \/ IgnoreSigpipe \/ Block \/ Resume
           \/ Recover \/ TryAlternative \/ Succeed \/ Fault \/ ScopeRelease
           \/ TowerRelease \/ Leave \/ Landmark \/ RestoreDefault \/ Unmask
           \/ Kill \/ UNCHANGED vars
  BY <1>2, SignalAssumption DEF programVars, signalVars, fdVars, endVars,
     Discard, Stub, Poll, Repaired, IgnoreSigpipe, Install, Begin, CallKind,
     Checked, Return, Block, Resume, Recover, OutOfAlternatives, NoCall,
     TryAlternative, Succeed, Fault, ErrorBlock, Report, EnterTower,
     IsInterrupt, IsBrokenPipe, FailEnsure, ScopeRelease, TowerRelease,
     CloseNewest, Leave, Landmark, RestoreDefault, Unmask, Kill,
     NothingToDeliver, vars
<1>3. CASE \E s \in Signal : Deliver(s)
  BY <1>3, SignalAssumption DEF programVars, signalVars, fdVars, endVars,
     Deliver, Dies, KilledBy
<1>4. CASE \/ \E opened \in BOOLEAN : Repair(opened)
           \/ BrokenPipe
  BY <1>4, SignalAssumption DEF programVars, signalVars, fdVars, endVars,
     Repair, Exits, BrokenPipe, Dies, KilledBy
<1>5. CASE ExitGroup
  BY <1>5, SignalAssumption DEF programVars, signalVars, fdVars, endVars,
     ExitGroup, Exits, NothingToDeliver
<1> QED BY <1>1, <1>2, <1>3, <1>4, <1>5 DEF Next, Program, Kernel, Gone

(* What execve hands over satisfies the invariant.                         *)
LEMMA InitIInv == Init => IInv
<1> SUFFICES ASSUME Init PROVE IInv
  OBVIOUS
<1> USE DEF Init
<1>1. TypeOK
  <2>1. Std \subseteq Fd
    BY CountsAssumption DEF Std, Fd
  <2>2. fds \subseteq Fd /\ held \in Seq(Fd) /\ Len(held) <= MaxHeld
    BY <2>1, CountsAssumption
  <2> QED BY <2>2, CountsAssumption DEF TypeOK, Points, Causes, NoCall, Std
<1>2. Accounts /\ Guarded /\ Opened /\ Dying
  BY SignalAssumption DEF Accounts, Guarded, Opened, Dying, Alone, Early, Body, Late, Alive, NoCall
<1>3. KilledEmptyHanded /\ FailureIsReported /\ NonzeroMeansFailure /\ InterruptedDiesOfIt
  BY DEF KilledEmptyHanded, FailureIsReported, NonzeroMeansFailure, InterruptedDiesOfIt, Alive
<1> QED BY <1>1, <1>2, <1>3 DEF IInv

(* And every step keeps it.                                                *)
LEMMA Invariant == Spec => []IInv
<1>1. IInv /\ [Next]_vars => IInv'
  BY TypesStep, AccountsStep, GuardedStep, OpenedStep, DyingStep, KilledStep, FailureStep,
     NonzeroStep, InterruptedStep DEF IInv
<1> QED BY <1>1, InitIInv, PTL DEF Spec

-----------------------------------------------------------------------------
(* The theorems.                                                           *)

(* The program stays within its points, its descriptors and its codes.     *)
THEOREM CitizenTypes == Spec => []TypeOK
<1>1. IInv => TypeOK
  BY DEF IInv
<1> QED BY <1>1, Invariant, PTL

(* No descriptor a program opens is 0, 1 or 2, whichever of them were      *)
(* closed when it started and whether or not each repair succeeds.         *)
THEOREM OpensAboveStandard == Spec => []NothingOwnedIsStandard
<1>1. IInv => NothingOwnedIsStandard
  BY DEF IInv, TypeOK, Opened, NothingOwnedIsStandard, Std
<1> QED BY <1>1, Invariant, PTL

(* A shutdown signal kills no program that holds something, at whatever    *)
(* moment it is sent.                                                      *)
THEOREM ReleasesBeforeDeath == Spec => []KilledEmptyHanded
<1>1. IInv => KilledEmptyHanded
  BY DEF IInv
<1> QED BY <1>1, Invariant, PTL

(* A failure leaves its record and its code, signals or not.               *)
THEOREM FailuresAreReported == Spec => []FailureIsReported
<1>1. IInv => FailureIsReported
  BY DEF IInv
<1> QED BY <1>1, Invariant, PTL

(* Without a record the exit status is 0.                                  *)
THEOREM SilenceIsSuccess == Spec => []NonzeroMeansFailure
<1>1. IInv => NonzeroMeansFailure
  BY DEF IInv
<1> QED BY <1>1, Invariant, PTL

(* A program wound down by one signal alone dies of that signal.           *)
THEOREM DiesOfItsSignal == Spec => []InterruptedDiesOfIt
<1>1. IInv => InterruptedDiesOfIt
  BY DEF IInv
<1> QED BY <1>1, Invariant, PTL

(* An inherited ignore outlives the prologue and the death.                *)
THEOREM IgnoredIsKept == Spec => IgnoredStaysIgnored
<1>1. ASSUME IInv, [Next]_vars
      PROVE  [\A s \in Signal : disposition[s] = "ignored" => disposition'[s] = "ignored"]_vars
  <2>1. CASE IgnoreSigpipe
    BY <1>1, <2>1, SignalAssumption DEF IInv, TypeOK, IgnoreSigpipe
  <2>2. CASE \E s \in Signal : Install(s)
    BY <1>1, <2>2 DEF IInv, TypeOK, Install
  <2>3. CASE RestoreDefault
    BY <1>1, <2>3 DEF IInv, TypeOK, Guarded, RestoreDefault
  <2>4. CASE UNCHANGED disposition
    BY <2>4
  <2> QED
    BY <1>1, <2>1, <2>2, <2>3, <2>4
    DEF Next, Program, Kernel, Gone, vars, signalVars, Send, Deliver, Dies, Discard, Stub, Resume,
        Poll, Repair, Repaired, Begin, Block, Return, BrokenPipe, Succeed, TryAlternative, Recover,
        Fault, FailEnsure, ErrorBlock, ScopeRelease, TowerRelease, CloseNewest, Leave, Landmark,
        Unmask, Kill, ExitGroup
<1> QED BY <1>1, Invariant, PTL DEF Spec, IgnoredStaysIgnored
=============================================================================

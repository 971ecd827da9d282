------------------------ MODULE LanguageServerProofs ------------------------
(***************************************************************************)
(* What the two threads of the language server keep, for every set of      *)
(* files, programs and texts and any number of messages.                   *)
(***************************************************************************)
EXTENDS LanguageServer, TLAPS

\* An error is shown on a file, or there is none.
LEMMA WhereIsAPlace ==
  ASSUME disk \in [Path -> Text], NEW path \in Path, NEW held \in [Path -> Buffer]
  PROVE  Where(path, held) \in Path \cup {Nowhere}
<1>1. \A p \in Path : TextOf(held, p) \in Text
  BY DEF TextOf, Buffer
<1>2. Texts(held) \in [Path -> Text]
  BY <1>1 DEF Texts
<1>3. ErrorOf(Host[path], held) \in Path \cup {Nowhere, Unnamed}
  BY <1>2, ServerAssumption DEF ErrorOf
<1> QED
  BY <1>3 DEF Where

-----------------------------------------------------------------------------
\* The server starts with nothing to do.
LEMMA InitTypes == Init => TypeOK
<1>1. (CHOOSE p \in Path : TRUE) \in Path
  BY ServerAssumption
<1>2. ASSUME Init PROVE mpath \in Path /\ dpath \in Path
  BY <1>1, <1>2 DEF Init
<1>3. ASSUME Init PROVE TypeOK
  <2>1. buffers \in [Path -> Buffer] /\ seen \in [Path -> Buffer] /\ overlay \in [Path -> Buffer]
    BY <1>3 DEF Init, Buffer
  <2>2. pending \in Seq(Path) /\ paths \in Seq(Path) /\ published \in [Path -> SUBSET Path]
    BY <1>3 DEF Init
  <2>3. sent \in 0..MaxSent /\ shown \subseteq Path /\ popped \subseteq Path
    BY <1>3, ServerAssumption DEF Init
  <2>4. disk \in [Path -> Text] /\ quiet \in BOOLEAN /\ wake \in BOOLEAN /\ spoilt \in BOOLEAN
        /\ mpc = "read" /\ dpc = "wait" /\ found = Nowhere
    BY <1>3, Zenon DEF Init
  <2>5. mpath \in Path /\ dpath \in Path
    BY <1>2, <1>3
  <2> QED
    BY <2>1, <2>2, <2>3, <2>4, <2>5 DEF TypeOK
<1> QED
  BY <1>3

\* No message disturbs the types.
LEMMA MessageTypes == TypeOK /\ Message => TypeOK'
<1> SUFFICES ASSUME TypeOK, Message PROVE TypeOK'
  OBVIOUS
<1> USE ServerAssumption
<1>1. ASSUME NEW p \in Path, NEW text \in Text, Sync(p, text) PROVE TypeOK'
  BY <1>1 DEF Sync, Receive, TypeOK, schedule, diagnosis, history, Buffer
<1>2. ASSUME NEW p \in Path, DidSave(p) PROVE TypeOK'
  <2>1. buffers[p] \in Text
    BY <1>2 DEF DidSave, TypeOK, Buffer
  <2> QED
    BY <1>2, <2>1 DEF DidSave, Receive, TypeOK, schedule, diagnosis, history
<1>3. ASSUME NEW p \in Path, DidClose(p) PROVE TypeOK'
  BY <1>3 DEF DidClose, Receive, TypeOK, schedule, diagnosis, Buffer
<1> QED
  BY <1>1, <1>2, <1>3 DEF Message

\* Neither does the rest of its handler.
LEMMA HandleTypes == TypeOK /\ Handle => TypeOK'
<1> SUFFICES ASSUME TypeOK, Handle PROVE TypeOK'
  OBVIOUS
<1>1. CASE Add
  BY <1>1 DEF Add, TypeOK, editor, diagnosis, history
<1>2. CASE Stamp
  BY <1>2 DEF Stamp, TypeOK, editor, diagnosis, history
<1>3. CASE Wake
  BY <1>3 DEF Wake, TypeOK, editor, diagnosis, history
<1>4. CASE Pop
  BY <1>4 DEF Pop, TypeOK, editor, schedule, diagnosis, history
<1>5. CASE Notify
  BY <1>5 DEF Notify, TypeOK, editor, schedule, diagnosis, history
<1> QED
  BY <1>1, <1>2, <1>3, <1>4, <1>5 DEF Handle

\* Nor a diagnosis.
LEMMA DiagnoseTypes == TypeOK /\ Diagnose => TypeOK'
<1> SUFFICES ASSUME TypeOK, Diagnose PROVE TypeOK'
  OBVIOUS
<1> USE DEF TypeOK, editor, schedule, message, diagnosis, history
<1>1. CASE Woken \/ Paused \/ LoopAgain
  BY <1>1 DEF Woken, Paused, LoopAgain
<1>2. CASE ClearWake
  BY <1>2 DEF ClearWake
<1>3. CASE List
  BY <1>3 DEF List
<1>4. CASE Swap
  BY <1>4 DEF Swap
<1>5. CASE Begin
  <2>1. Head(paths) \in Path /\ Tail(paths) \in Seq(Path)
    BY <1>5 DEF Begin
  <2>2. seen' = [seen EXCEPT ![Head(paths)] = buffers[Head(paths)]] /\ dpath' = Head(paths)
        /\ paths' = Tail(paths) /\ overlay' = buffers /\ dpc' = "compile"
    BY <1>5 DEF Begin
  <2>3. seen' \in [Path -> Buffer]
    BY <2>1, <2>2
  <2> QED
    BY <1>5, <2>1, <2>2, <2>3 DEF Begin
<1>6. CASE Compile
  <2>1. found' \in Path \cup {Nowhere}
    BY <1>6, WhereIsAPlace DEF Compile
  <2> QED
    BY <1>6, <2>1 DEF Compile
<1>7. CASE GiveUp
  BY <1>7 DEF GiveUp
<1>8. CASE Publish
  BY <1>8 DEF Publish, touched
<1>9. CASE Retract
  BY <1>9 DEF Retract
<1>10. CASE Store
  BY <1>10 DEF Store, touched
<1> QED
  BY <1>1, <1>2, <1>3, <1>4, <1>5, <1>6, <1>7, <1>8, <1>9, <1>10 DEF Diagnose

\* Every step keeps the types.
LEMMA NextTypes == TypeOK /\ [Next]_vars => TypeOK'
<1> SUFFICES ASSUME TypeOK, [Next]_vars PROVE TypeOK'
  OBVIOUS
<1>1. CASE Tick
  BY <1>1 DEF Tick, TypeOK, editor, message, diagnosis, history
<1>2. CASE UNCHANGED vars
  BY <1>2 DEF vars, TypeOK, editor, schedule, message, diagnosis, history
<1> QED
  BY <1>1, <1>2, MessageTypes, HandleTypes, DiagnoseTypes DEF Next

\* Both threads stay within their steps and their shared state keeps its shape.
THEOREM ServerTypes == Spec => []TypeOK
  BY InitTypes, NextTypes, PTL DEF Spec

-----------------------------------------------------------------------------
\* No step leaves a path pending with both threads asleep.
LEMMA NextWake == WakeIsNotLost /\ [Next]_vars => WakeIsNotLost'
<1> SUFFICES ASSUME WakeIsNotLost, [Next]_vars PROVE WakeIsNotLost'
  OBVIOUS
<1> USE DEF WakeIsNotLost
<1>1. CASE Message
  BY <1>1 DEF Message, Sync, DidSave, DidClose, Receive, schedule
<1>2. CASE Handle
  BY <1>2 DEF Handle, Add, Stamp, Wake, Pop, Notify, schedule
<1>3. CASE Diagnose
  <2>1. CASE Woken \/ Paused \/ ClearWake \/ List
    BY <2>1 DEF Woken, Paused, ClearWake, List, schedule, message
  <2>2. CASE Swap
    BY <2>2 DEF Swap
  <2>3. CASE Begin \/ LoopAgain \/ Compile \/ GiveUp \/ Publish \/ Retract \/ Store
    BY <2>3 DEF Begin, LoopAgain, Compile, GiveUp, Publish, Retract, Store, schedule, message
  <2> QED
    BY <1>3, <2>1, <2>2, <2>3 DEF Diagnose
<1>4. CASE Tick
  BY <1>4 DEF Tick, message
<1>5. CASE UNCHANGED vars
  BY <1>5 DEF vars, schedule, message
<1> QED
  BY <1>1, <1>2, <1>3, <1>4, <1>5 DEF Next

\* Whatever the interleaving, a pending path has the diagnosing thread on its
\* way to the list or the event set for it.
THEOREM WakeIsNeverLost == Spec => []WakeIsNotLost
<1>1. Init => WakeIsNotLost
  BY DEF Init, WakeIsNotLost
<1> QED
  BY <1>1, NextWake, PTL DEF Spec

-----------------------------------------------------------------------------
\* Before the diagnosis is remembered, what the file was remembered for and does
\* not complain of any more is no longer shown.
Retracted == dpc = "store" => shown \cap published[dpath] \subseteq touched

\* Nobody shows anything again between the two.
LEMMA NextRetracted == TypeOK /\ Retracted /\ [Next]_vars => Retracted'
<1> SUFFICES ASSUME TypeOK, Retracted, [Next]_vars PROVE Retracted'
  OBVIOUS
<1> USE DEF Retracted, touched
<1>1. CASE Message
  BY <1>1 DEF Message, Sync, DidSave, DidClose, Receive, diagnosis
<1>2. CASE Add \/ Stamp \/ Wake \/ Notify
  BY <1>2 DEF Add, Stamp, Wake, Notify, diagnosis
<1>3. CASE Pop
  <2>1. published'[dpath] \subseteq published[dpath]
    BY <1>3 DEF Pop, TypeOK
  <2> QED
    BY <1>3, <2>1 DEF Pop, diagnosis
<1>4. CASE Retract
  BY <1>4 DEF Retract, diagnosis
<1>5. CASE Diagnose /\ ~Retract
  BY <1>5 DEF Diagnose, Woken, Paused, ClearWake, List, Swap, Begin, LoopAgain, Compile, GiveUp,
       Publish, Store
<1>6. CASE Tick
  BY <1>6 DEF Tick, diagnosis
<1>7. CASE UNCHANGED vars
  BY <1>7 DEF vars, diagnosis
<1> QED
  BY <1>1, <1>2, <1>3, <1>4, <1>5, <1>6, <1>7 DEF Next, Handle

\* No step leaves a diagnostic shown that neither thread will take away.
LEMMA NextOrphan == TypeOK /\ Retracted /\ NoOrphan /\ [Next]_vars => NoOrphan'
<1> SUFFICES ASSUME TypeOK, Retracted, NoOrphan, [Next]_vars PROVE NoOrphan'
  OBVIOUS
<1> USE DEF NoOrphan
<1>1. CASE Message
  BY <1>1 DEF Message, Sync, DidSave, DidClose, Receive, diagnosis
<1>2. CASE Add \/ Stamp \/ Wake
  BY <1>2 DEF Add, Stamp, Wake, diagnosis
<1>3. CASE Pop
  <2>1. shown' = shown /\ dpc' = dpc /\ found' = found /\ mpc' = "notify"
        /\ popped' = published[mpath] /\ published' = [published EXCEPT ![mpath] = {}]
    BY <1>3 DEF Pop, diagnosis
  <2>2. mpc # "notify"
    BY <1>3 DEF Pop
  <2>3. ASSUME NEW u \in shown', NEW p \in Path, u \in published[p]
        PROVE  u \in popped' \/ u \in published'[p]
    BY <2>1, <2>3 DEF TypeOK
  <2> QED
    BY <2>1, <2>2, <2>3
<1>4. CASE Notify
  BY <1>4 DEF Notify, diagnosis
<1>5. CASE Diagnose
  <2>1. CASE Woken \/ Paused \/ ClearWake \/ List \/ Swap \/ Begin \/ LoopAgain \/ GiveUp
    BY <2>1 DEF Woken, Paused, ClearWake, List, Swap, Begin, LoopAgain, GiveUp, message, diagnosis
  <2>2. CASE Compile
    BY <2>2 DEF Compile, message
  <2>3. CASE Publish
    BY <2>3 DEF Publish, touched, message, diagnosis
  <2>4. CASE Retract
    BY <2>4 DEF Retract, touched, message, diagnosis
  <2>5. CASE Store
    <3>1. published' = [published EXCEPT ![dpath] = touched] /\ shown' = shown /\ dpc = "store"
          /\ dpc' = "next" /\ UNCHANGED <<mpc, popped, found>> /\ dpath \in Path
      BY <2>5 DEF Store, message, diagnosis, TypeOK
    <3>2. touched \in SUBSET published'[dpath] /\ \A p \in Path \ {dpath} : published'[p] = published[p]
      BY <3>1 DEF TypeOK
    <3>3. ASSUME NEW u \in shown, u \in published[dpath] PROVE u \in published'[dpath]
      BY <3>1, <3>2, <3>3 DEF Retracted
    <3>4. ASSUME NEW u \in shown, u = found PROVE u \in published'[dpath]
      BY <3>1, <3>2, <3>4, ServerAssumption DEF touched, TypeOK
    <3> QED
      BY <3>1, <3>2, <3>3, <3>4
  <2> QED
    BY <1>5, <2>1, <2>2, <2>3, <2>4, <2>5 DEF Diagnose
<1>6. CASE Tick
  BY <1>6 DEF Tick, message, diagnosis
<1>7. CASE UNCHANGED vars
  BY <1>7 DEF vars, message, diagnosis
<1> QED
  BY <1>1, <1>2, <1>3, <1>4, <1>5, <1>6, <1>7 DEF Next, Handle

\* Every diagnostic the editor shows is remembered by some file or in one
\* thread's hands.
THEOREM NothingIsOrphaned == Spec => []NoOrphan
<1>1. Init => NoOrphan
  BY DEF Init, NoOrphan
<1>2. Init => Retracted
  BY DEF Init, Retracted
<1>3. TypeOK /\ Retracted /\ NoOrphan /\ [Next]_vars => (TypeOK /\ Retracted /\ NoOrphan)'
  BY NextTypes, NextRetracted, NextOrphan
<1> QED
  BY InitTypes, <1>1, <1>2, <1>3, PTL DEF Spec

-----------------------------------------------------------------------------
(* What is shown once the server has settled.                              *)

\* The diagnosing thread has its list.
Listed == dpc \in {"next", "compile", "publish", "retract", "store"}

\* Something will be diagnosed.
AnyDue == mpc = "add" \/ pending # <<>> \/ (Listed /\ paths # <<>>)

\* Unless something was lost, dropped or closed: nothing has undone what the
\* last diagnosis has come to, step by step.
Undisturbed ==
  ~spoilt =>
    /\ mpc \notin {"pop", "notify"}
    /\ dpc \notin {"compile", "publish"} => touched \subseteq shown
    /\ dpc \notin {"compile", "publish", "retract"} => shown \cap {dpath} \subseteq touched
    /\ dpc \notin {"compile", "publish", "retract", "store"} => published[dpath] = touched

\* And the diagnosis under way or made last is of the texts as they are, or
\* another will be made.
Timely ==
  ~spoilt => \/ AnyDue
             \/ /\ dpc = "compile" => overlay = buffers
                /\ dpc # "compile" /\ Editing => found = Where(dpath, buffers)

\* What no step takes back.
LEMMA SpoiltStays == [Next]_vars /\ spoilt => spoilt'
  BY DEF Next, Message, Sync, DidSave, DidClose, Receive, Handle, Add, Stamp, Wake, Pop, Notify, Diagnose,
         Woken, Paused, ClearWake, List, Swap, Begin, LoopAgain, Compile, GiveUp, Publish, Retract, Store,
         Tick, vars, history

\* Only the diagnosis itself adds to what it has come to.
LEMMA NextUndisturbed == TypeOK /\ Undisturbed /\ [Next]_vars => Undisturbed'
<1> SUFFICES ASSUME TypeOK, Undisturbed, [Next]_vars, ~spoilt' PROVE Undisturbed'
  BY DEF Undisturbed
<1>1. ~spoilt
  BY SpoiltStays
<1> USE <1>1 DEF Undisturbed, touched
<1>2. CASE Message
  BY <1>2 DEF Message, Sync, DidSave, DidClose, Receive, diagnosis
<1>3. CASE Handle
  BY <1>3 DEF Handle, Add, Stamp, Wake, Pop, Notify, diagnosis
<1>4. CASE Diagnose
  <2>1. CASE Woken \/ Paused \/ ClearWake \/ List \/ Swap \/ Begin \/ LoopAgain \/ Compile \/ GiveUp
    BY <2>1 DEF Woken, Paused, ClearWake, List, Swap, Begin, LoopAgain, Compile, GiveUp, message, diagnosis
  <2>2. CASE Publish
    BY <2>2 DEF Publish, message, diagnosis
  <2>3. CASE Retract
    BY <2>3 DEF Retract, message, diagnosis
  <2>4. CASE Store
    <3>1. published'[dpath] = touched
      BY <2>4 DEF Store, TypeOK
    <3> QED
      BY <2>4, <3>1 DEF Store, message, diagnosis
  <2> QED
    BY <1>4, <2>1, <2>2, <2>3, <2>4 DEF Diagnose
<1>5. CASE Tick \/ UNCHANGED vars
  BY <1>5 DEF Tick, vars, message, diagnosis
<1> QED
  BY <1>2, <1>3, <1>4, <1>5 DEF Next

\* A list is empty when it has no members.
LEMMA NoMembers ==
  ASSUME NEW s \in Seq(Path)
  PROVE  /\ s = <<>> <=> ToSet(s) = {}
         /\ \A x \in Path : Append(s, x) # <<>>
         /\ \A x : Contains(s, x) => s # <<>>
<1>1. s # <<>> => 1 \in DOMAIN s
  OBVIOUS
<1>2. s = <<>> <=> ToSet(s) = {}
  BY <1>1 DEF ToSet
<1>3. \A x \in Path : Len(Append(s, x)) = Len(s) + 1 /\ Len(s) \in Nat
  OBVIOUS
<1>4. \A x \in Path : Append(s, x) # <<>>
  BY <1>3
<1>5. \A x : Contains(s, x) => s # <<>>
  BY DEF Contains
<1> QED
  BY <1>2, <1>4, <1>5

\* While nobody edits and the path is the same, its error stays where it is.
LEMMA PlaceStays ==
  ASSUME UNCHANGED <<disk, buffers, dpath>>
  PROVE  Where(dpath, buffers)' = Where(dpath, buffers) /\ (Editing' <=> Editing)
BY DEF Where, ErrorOf, Texts, TextOf, Editing

\* An edit makes a diagnosis due, and one is due until the last file is taken
\* up, with the texts as they are then.
LEMMA NextTimely == TypeOK /\ Undisturbed /\ Timely /\ [Next]_vars => Timely'
<1> SUFFICES ASSUME TypeOK, Undisturbed, Timely, [Next]_vars, ~spoilt' PROVE Timely'
  BY DEF Timely
<1>1. ~spoilt
  BY SpoiltStays
<1>2. CASE Message
  <2>1. mpc' = "add"
    BY <1>2 DEF Message, Sync, DidSave, DidClose, Receive
  <2> QED
    BY <2>1 DEF Timely, AnyDue
<1>3. CASE Add
  <2>1. pending' # <<>>
    BY <1>3, NoMembers DEF Add, TypeOK
  <2> QED
    BY <2>1 DEF Timely, AnyDue
<1>4. CASE Stamp \/ Wake \/ Tick \/ UNCHANGED vars
  <2>1. /\ UNCHANGED <<disk, buffers, dpath, dpc, pending, paths, overlay, found>>
        /\ mpc' = "add" <=> mpc = "add"
    BY <1>4 DEF Stamp, Wake, Tick, vars, editor, schedule, message, diagnosis
  <2>2. AnyDue' <=> AnyDue
    BY <2>1 DEF AnyDue, Listed
  <2> QED
    BY <1>1, <2>1, <2>2, PlaceStays DEF Timely
<1>5. CASE Pop \/ Notify
  BY <1>1, <1>5 DEF Pop, Notify, Undisturbed
<1>6. CASE Diagnose
  <2>1. UNCHANGED <<disk, buffers, mpc>>
    BY <1>6 DEF Diagnose, Woken, Paused, ClearWake, List, Swap, Begin, LoopAgain, Compile, GiveUp,
           Publish, Retract, Store, editor, message
  <2>2. CASE Begin
    BY <2>1, <2>2 DEF Begin, Timely
  <2>3. CASE Compile
    <3>1. UNCHANGED <<dpath, overlay, paths, pending>> /\ dpc = "compile" /\ dpc' = "publish"
          /\ found' = Where(dpath, overlay)
      BY <2>3 DEF Compile, schedule
    <3>2. AnyDue' <=> AnyDue
      BY <2>1, <3>1 DEF AnyDue, Listed
    <3>3. overlay = buffers => found' = Where(dpath, buffers)'
      BY <2>1, <3>1, PlaceStays
    <3> QED
      BY <1>1, <3>1, <3>2, <3>3 DEF Timely
  <2>4. CASE GiveUp
    BY <2>4 DEF GiveUp
  <2>5. CASE Woken \/ Paused \/ ClearWake \/ List \/ Swap \/ LoopAgain \/ Publish \/ Retract \/ Store
    <3>1. UNCHANGED <<dpath, overlay, found>> /\ dpc # "compile" /\ dpc' # "compile"
      BY <2>5 DEF Woken, Paused, ClearWake, List, Swap, LoopAgain, Publish, Retract, Store, diagnosis
    <3>2. AnyDue => AnyDue'
      <4>1. CASE List
        BY <2>1, <4>1 DEF List, schedule, AnyDue, Listed
      <4>2. CASE Swap
        <5>1. pending # <<>> => paths # <<>>
          BY <4>2, NoMembers DEF Swap, TypeOK
        <5> QED
          BY <2>1, <4>2, <5>1 DEF Swap, diagnosis, AnyDue, Listed
      <4>3. CASE Woken \/ Paused \/ ClearWake \/ LoopAgain \/ Publish \/ Retract \/ Store
        BY <2>1, <4>3 DEF Woken, Paused, ClearWake, LoopAgain, Publish, Retract, Store, schedule,
                          diagnosis, AnyDue, Listed
      <4> QED
        BY <2>5, <4>1, <4>2, <4>3
    <3> QED
      BY <1>1, <2>1, <3>1, <3>2, PlaceStays DEF Timely
  <2> QED
    BY <1>6, <2>2, <2>3, <2>4, <2>5 DEF Diagnose
<1> QED
  BY <1>2, <1>3, <1>4, <1>5, <1>6 DEF Next, Handle

\* Once the server has settled, what the last diagnosis came to is what the
\* texts as they are give, and is shown; what is shown besides is remembered
\* for other files (mereolsp.py:1407, 1428, 1431).
THEOREM SettlesOnTheTexts == Spec => []LastDiagnosisStands
<1>1. Init => NoOrphan /\ Retracted
  BY DEF Init, NoOrphan, Retracted
<1>2. Init => Undisturbed /\ Timely
  <2>1. ASSUME Init PROVE published[dpath] = {} /\ touched = {}
    BY <2>1, InitTypes DEF Init, TypeOK, touched
  <2> QED
    BY <2>1 DEF Init, Undisturbed, Timely, Editing
<1>3. NoOrphan /\ Undisturbed /\ Timely => LastDiagnosisStands
  <2> SUFFICES ASSUME NoOrphan, Undisturbed, Timely, Settled, ~spoilt, Editing
               PROVE  /\ {Where(dpath, buffers)} \ {Nowhere} \subseteq shown
                      /\ \A u \in shown \ {Where(dpath, buffers)} :
                           u # dpath /\ \E p \in Path \ {dpath} : u \in published[p]
    BY DEF LastDiagnosisStands
  <2>1. found = Where(dpath, buffers)
    BY DEF Settled, Timely, AnyDue, Listed
  <2>2. touched \subseteq shown /\ shown \cap {dpath} \subseteq touched /\ published[dpath] = touched
    BY DEF Settled, Undisturbed
  <2>3. \A u \in shown : \E p \in Path : u \in published[p]
    BY DEF Settled, NoOrphan
  <2> QED
    BY <2>1, <2>2, <2>3 DEF touched
<1>4. TypeOK /\ Retracted /\ NoOrphan /\ Undisturbed /\ Timely /\ [Next]_vars
        => (TypeOK /\ Retracted /\ NoOrphan /\ Undisturbed /\ Timely)'
  BY NextTypes, NextRetracted, NextOrphan, NextUndisturbed, NextTimely
<1> QED
  BY InitTypes, <1>1, <1>2, <1>3, <1>4, PTL DEF Spec
=============================================================================

--------------------------- MODULE LanguageServer ---------------------------
(***************************************************************************)
(* The diagnostics of mereolsp.py: a thread that answers the editor's      *)
(* messages and a thread that waits for a pause in the typing and runs the *)
(* compiler, over the shared `pending`, `wake`, `stamp`, `buffers` and     *)
(* `published`, none of them locked.  The interpreter may switch threads   *)
(* at calls, so a step here is what lies between two of them.              *)
(*                                                                         *)
(* A text is only what mereoc makes of it together with the texts of the   *)
(* other files.  The editor reads what the server writes in order, so what *)
(* is `shown` is what was last notified.                                   *)
(***************************************************************************)
EXTENDS Integers, Sequences, SequencesExt

CONSTANTS Path,      \* the .mereo files; a file's uri is the file
          Text,      \* what a file may hold
          NotOpen,   \* the editor has no buffer of the file
          Nowhere,   \* mereoc refuses nothing, or only that there is no program
          Unnamed,   \* mereoc's error names no file: it is of the whole program
          Host,      \* the program through which a file is compiled
          Refusal,   \* program |-> the texts of the files |-> where its error is
          MayFail,   \* bound: the worker may time out, fail or raise
          MaxSent    \* bound: messages the editor sends

\* Any file's text may matter to any error: a name may be declared twice, and
\* what is planned is planned out of all of them.
ASSUME ServerAssumption ==
  /\ Path # {}
  /\ NotOpen \notin Text
  /\ Nowhere \notin Path
  /\ Unnamed \notin Path \cup {Nowhere}
  /\ Host \in [Path -> Path]
  /\ Refusal \in [Path -> [[Path -> Text] -> Path \cup {Nowhere, Unnamed}]]
  /\ MayFail \in BOOLEAN
  /\ MaxSent \in Nat

VARIABLES disk,       \* the files as saved
          sent,       \* messages sent so far
          shown,      \* the files the editor shows a diagnostic on
          buffers,    \* project.buffers
          pending,    \* the keys of self.pending, oldest first
          quiet,      \* DEBOUNCE has passed since self.stamp
          wake,       \* self.wake is set
          published,  \* self.published
          mpc, mpath, \* the message thread: where it is, with which file
          popped,     \* the uris clear took out of published
          dpc, dpath, \* the diagnosing thread: where it is, with which file
          paths,      \* the paths it has listed and not begun
          overlay,    \* the buffers the worker was given
          found,      \* the file the worker's error is shown on
          seen,       \* history: the text each file was last diagnosed with
          spoilt      \* history: a path was lost, a diagnosis dropped, a file closed

\* The editor's side.
editor == <<disk, sent>>

\* What the two threads share for scheduling.
schedule == <<pending, quiet, wake>>

\* The message thread's own state.
message == <<mpc, mpath, popped>>

\* The diagnosing thread's own state, where it is apart.
diagnosis == <<dpath, paths, overlay, found>>

\* What no thread reads.
history == <<seen, spoilt>>

vars == <<editor, shown, buffers, schedule, published, message, dpc, diagnosis, history>>

\* What may be in a buffer.
Buffer == Text \cup {NotOpen}

\* What the compiler reads: a buffer always wins over the file on disk.
TextOf(held, p) == IF held[p] # NotOpen THEN held[p] ELSE disk[p]

\* What the compiler reads, file by file.
Texts(held) == [p \in Path |-> TextOf(held, p)]

\* The file mereoc's error names when it compiles a program.
ErrorOf(program, held) == Refusal[program][Texts(held)]

\* Where the error found by the diagnosis of a path is shown: one that names
\* no file on the path itself, although another file may be at fault.
Where(path, held) ==
  LET named == ErrorOf(Host[path], held)
  IN  IF named = Unnamed THEN path ELSE named

Init == /\ disk \in [Path -> Text]
        /\ sent = 0
        /\ shown = {}
        /\ buffers = [p \in Path |-> NotOpen]
        /\ pending = <<>>
        /\ quiet = TRUE
        /\ wake = FALSE
        /\ published = [p \in Path |-> {}]
        /\ mpc = "read" /\ mpath = (CHOOSE p \in Path : TRUE) /\ popped = {}
        /\ dpc = "wait" /\ dpath = mpath /\ paths = <<>>
        /\ overlay = buffers
        /\ found = Nowhere
        /\ seen = [p \in Path |-> NotOpen]
        /\ spoilt = FALSE

-----------------------------------------------------------------------------
(* The message thread.                                                     *)

\* A message about a file is read.
Receive(p, next) == /\ mpc = "read"
                    /\ sent < MaxSent
                    /\ sent' = sent + 1
                    /\ mpath' = p
                    /\ mpc' = next
                    /\ UNCHANGED popped

\* didOpen and didChange: the editor's text replaces the buffer.
Sync(p, text) == /\ Receive(p, "add")
                 /\ buffers' = [buffers EXCEPT ![p] = text]
                 /\ UNCHANGED <<disk, shown, schedule, published, dpc, diagnosis, history>>

\* didSave, of a file the editor has written.
DidSave(p) == /\ buffers[p] # NotOpen
              /\ Receive(p, "add")
              /\ disk' = [disk EXCEPT ![p] = buffers[p]]
              /\ UNCHANGED <<shown, buffers, schedule, published, dpc, diagnosis, history>>

\* didClose, of an open file.
DidClose(p) == /\ buffers[p] # NotOpen
               /\ Receive(p, "pop")
               /\ buffers' = [buffers EXCEPT ![p] = NotOpen]
               /\ spoilt' = TRUE
               /\ UNCHANGED <<disk, shown, schedule, published, dpc, diagnosis, seen>>

\* `schedule`: the path is pending, if it was not already.
Add == /\ mpc = "add"
       /\ pending' = IF Contains(pending, mpath) THEN pending ELSE Append(pending, mpath)
       /\ mpc' = "stamp"
       /\ UNCHANGED <<editor, shown, buffers, quiet, wake, published, mpath, popped, dpc,
                      diagnosis, history>>

\* The time of the last message is noted.
Stamp == /\ mpc = "stamp"
         /\ quiet' = FALSE
         /\ mpc' = "wake"
         /\ UNCHANGED <<editor, shown, buffers, pending, wake, published, mpath, popped, dpc,
                        diagnosis, history>>

\* The diagnosing thread is woken.
Wake == /\ mpc = "wake"
        /\ wake' = TRUE
        /\ mpc' = "read"
        /\ UNCHANGED <<editor, shown, buffers, pending, quiet, published, mpath, popped, dpc,
                       diagnosis, history>>

\* `clear`: what was published for the file is taken out...
Pop == /\ mpc = "pop"
       /\ popped' = published[mpath]
       /\ published' = [published EXCEPT ![mpath] = {}]
       /\ mpc' = "notify"
       /\ UNCHANGED <<editor, shown, buffers, schedule, mpath, dpc, diagnosis, history>>

\* ... and cleared in the editor.
\* Mutant: only the file itself is cleared.
NotifyItself == /\ mpc = "notify"
                /\ shown' = shown \ {mpath}
                /\ popped' = {}
                /\ mpc' = "read"
                /\ UNCHANGED <<editor, buffers, schedule, published, mpath, dpc, diagnosis, history>>

Notify == /\ mpc = "notify"
          /\ shown' = shown \ popped
          /\ popped' = {}
          /\ mpc' = "read"
          /\ UNCHANGED <<editor, buffers, schedule, published, mpath, dpc, diagnosis, history>>

-----------------------------------------------------------------------------
(* The diagnosing thread: `_diagnose_loop` and `diagnose`.                 *)

\* `wake.wait` returns.
Woken == /\ dpc = "wait"
         /\ wake
         /\ dpc' = "debounce"
         /\ UNCHANGED <<editor, shown, buffers, schedule, published, message, diagnosis, history>>

\* No message for DEBOUNCE seconds.
Paused == /\ dpc = "debounce"
          /\ quiet
          /\ dpc' = "clear"
          /\ UNCHANGED <<editor, shown, buffers, schedule, published, message, diagnosis, history>>

\* `wake.clear`, before the paths are looked at.
ClearWake == /\ dpc = "clear"
             /\ wake' = FALSE
             /\ dpc' = "list"
             /\ UNCHANGED <<editor, shown, buffers, pending, quiet, published, message, diagnosis,
                            history>>

\* The pending paths are listed...
List == /\ dpc = "list"
        /\ paths' = pending
        /\ dpc' = "swap"
        /\ UNCHANGED <<editor, shown, buffers, schedule, published, message, dpath, overlay,
                       found, history>>

\* ... and the map is replaced by an empty one.
\* Mutant: the map is emptied once the paths are diagnosed.
SwapKeeping == /\ dpc = "swap"
               /\ spoilt' = (spoilt \/ ToSet(pending) # ToSet(paths))
               /\ dpc' = "next"
               /\ UNCHANGED <<editor, shown, buffers, schedule, published, message, diagnosis, seen>>

Swap == /\ dpc = "swap"
        /\ pending' = <<>>
        /\ spoilt' = (spoilt \/ ToSet(pending) # ToSet(paths))
        /\ dpc' = "next"
        /\ UNCHANGED <<editor, shown, buffers, quiet, wake, published, message, diagnosis, seen>>

\* The next path: the worker is given the buffers as they are now.
Begin == /\ dpc = "next"
         /\ paths # <<>>
         /\ dpath' = Head(paths)
         /\ paths' = Tail(paths)
         /\ overlay' = buffers
         /\ seen' = [seen EXCEPT ![dpath'] = buffers[dpath']]
         /\ dpc' = "compile"
         /\ UNCHANGED <<editor, shown, buffers, schedule, published, message, found, spoilt>>

\* No path is left.
\* Mutant: the event is cleared once everything is diagnosed.
LoopAgainClearing == /\ dpc = "next"
                     /\ paths = <<>>
                     /\ wake' = FALSE
                     /\ dpc' = "wait"
                     /\ UNCHANGED <<editor, shown, buffers, pending, quiet, published, message,
                                    diagnosis, history>>

LoopAgain == /\ dpc = "next"
             /\ paths = <<>>
             /\ dpc' = "wait"
             /\ UNCHANGED <<editor, shown, buffers, schedule, published, message, diagnosis, history>>

\* The worker answers.
Compile == /\ dpc = "compile"
           /\ found' = Where(dpath, overlay)
           /\ dpc' = "publish"
           /\ UNCHANGED <<editor, shown, buffers, schedule, published, message, dpath, paths,
                          overlay, history>>

\* The worker times out or fails, or the diagnosis raises: nothing is
\* published and nothing is scheduled again.
GiveUp == /\ dpc = "compile"
          /\ MayFail
          /\ spoilt' = TRUE
          /\ dpc' = "next"
          /\ UNCHANGED <<editor, shown, buffers, schedule, published, message, diagnosis, seen>>

\* The uris this diagnosis complains of.
touched == {found} \ {Nowhere}

\* The error is shown on the file it names, or on the file diagnosed.
Publish == /\ dpc = "publish"
           /\ shown' = shown \cup touched
           /\ dpc' = "retract"
           /\ UNCHANGED <<editor, buffers, schedule, published, message, diagnosis, history>>

\* What the file complained of last and does not any more is cleared, and the
\* file itself.
\* Mutant: only what it complained of.
RetractOld == /\ dpc = "retract"
              /\ shown' = shown \ (published[dpath] \ touched)
              /\ dpc' = "store"
              /\ UNCHANGED <<editor, buffers, schedule, published, message, diagnosis, history>>

Retract == /\ dpc = "retract"
           /\ shown' = shown \ ((published[dpath] \cup {dpath}) \ touched)
           /\ dpc' = "store"
           /\ UNCHANGED <<editor, buffers, schedule, published, message, diagnosis, history>>

\* `published` remembers what the file complains of now.
Store == /\ dpc = "store"
         /\ published' = [published EXCEPT ![dpath] = touched]
         /\ dpc' = "next"
         /\ UNCHANGED <<editor, shown, buffers, schedule, message, diagnosis, history>>

-----------------------------------------------------------------------------
\* Time passes.
Tick == /\ ~quiet
        /\ quiet' = TRUE
        /\ UNCHANGED <<editor, shown, buffers, pending, wake, published, message, dpc, diagnosis,
                       history>>

\* What the editor may send.
Message == \E p \in Path : DidSave(p) \/ DidClose(p) \/ \E text \in Text : Sync(p, text)

\* The rest of a message's handler.
Handle == Add \/ Stamp \/ Wake \/ Pop \/ Notify

\* The diagnosing thread.
Diagnose == \/ Woken \/ Paused \/ ClearWake \/ List \/ Swap \/ Begin \/ LoopAgain
            \/ Compile \/ GiveUp \/ Publish \/ Retract \/ Store

Next == Message \/ Handle \/ Diagnose \/ Tick

\* Both threads are scheduled and time passes; nobody has to send anything.
Fairness == WF_vars(Handle) /\ WF_vars(Diagnose) /\ WF_vars(Tick)

Spec == Init /\ [][Next]_vars /\ Fairness

-----------------------------------------------------------------------------
(* Properties.                                                             *)

\* The threads' steps and what they hold; a diagnosis complains of at most one
\* file.
TypeOK == /\ disk \in [Path -> Text]
          /\ sent \in 0..MaxSent
          /\ shown \subseteq Path
          /\ buffers \in [Path -> Buffer]
          /\ pending \in Seq(Path)
          /\ quiet \in BOOLEAN
          /\ wake \in BOOLEAN
          /\ published \in [Path -> SUBSET Path]
          /\ mpc \in {"read", "add", "stamp", "wake", "pop", "notify"}
          /\ mpath \in Path
          /\ popped \subseteq Path
          /\ dpc \in {"wait", "debounce", "clear", "list", "swap", "next", "compile", "publish",
                      "retract", "store"}
          /\ dpath \in Path
          /\ paths \in Seq(Path)
          /\ overlay \in [Path -> Buffer]
          /\ found \in Path \cup {Nowhere}
          /\ seen \in [Path -> Buffer]
          /\ spoilt \in BOOLEAN

\* The event is cleared before the paths are listed and set after a path is
\* added, so no path is ever pending with both threads gone to sleep over it.
WakeIsNotLost ==
  pending # <<>> => \/ wake
                    \/ dpc \in {"debounce", "clear", "list", "swap"}
                    \/ mpc \in {"stamp", "wake"}

\* Whatever the two threads do to `published` and the editor at once, a shown
\* diagnostic is one that some file is remembered for, one about to be
\* remembered, or one about to be cleared: closing that file or diagnosing it
\* again takes it away.
NoOrphan ==
  \A u \in shown : \/ \E p \in Path : u \in published[p]
                   \/ dpc \in {"retract", "store"} /\ u = found
                   \/ mpc = "notify" /\ u \in popped

\* Nothing is under way or scheduled.
Settled == /\ mpc = "read"
           /\ dpc = "wait"
           /\ pending = <<>>
           /\ ~wake

\* Some file is being edited, and so has been diagnosed once all is settled.
Editing == \E p \in Path : buffers[p] # NotOpen

\* Once the server has settled, unless a path was lost, a diagnosis dropped or
\* a file closed, the last diagnosis was made of the texts as they are, and
\* nothing after it undid what it showed or took back: its error is shown where
\* it belongs, the file diagnosed last shows no other, and whatever else the
\* editor shows is remembered for another file than that one.
LastDiagnosisStands ==
  Settled /\ ~spoilt /\ Editing =>
    LET place == Where(dpath, buffers)
    IN  /\ {place} \ {Nowhere} \subseteq shown
        /\ \A u \in shown \ {place} :
             u # dpath /\ \E p \in Path \ {dpath} : u \in published[p]

\* A pending path does not stay pending: the diagnosing thread comes round to
\* it once the typing pauses.
PendingIsTaken == pending # <<>> ~> pending = <<>>

-----------------------------------------------------------------------------
(* What the documentation says and the code does not do.                   *)

\* mereolsp.py:18: "DIAGNOSTICS   mereoc's own refusals, on the line they name,
\* as you type."  A path added between the listing and the replacement of the
\* map is never diagnosed, and what its last edit broke or repaired never shown.
LastEditIsDiagnosed ==
  Settled => \A p \in Path : buffers[p] # NotOpen => seen[p] = buffers[p]

\* The same sentence.  A diagnostic is taken back when the file whose diagnosis
\* put it there is diagnosed again, and an edit schedules none but the file
\* edited: an error of two files, repaired in the other one, stays.
OnlyRefusalsAreShown ==
  Settled /\ ~spoilt /\ Editing /\ (\A p \in Path : ErrorOf(Host[p], buffers) = Nowhere)
    => shown = {}
=============================================================================

----------------------------- MODULE MediaCalls -----------------------------
(***************************************************************************)
(* Media work as its callers see it: a call runs a few child processes one *)
(* after the other (ffmpeg.run, or execute of the CLI providers), the last *)
(* of them reads or writes a partial file, and the call publishes it under *)
(* the path it was asked for.  The calls of finalization.py clean up after *)
(* themselves and refuse to overwrite; those of the assembly and of the    *)
(* providers, whose output lies in a directory of their run, do neither.   *)
(*                                                                         *)
(* Looking for a cancellation and starting the child is one step, as is    *)
(* reaping the child and the check after it: a request in between is as    *)
(* good as one before or after.                                            *)
(***************************************************************************)
EXTENDS Naturals, Sequences

CONSTANTS Callers,   \* processes that make media calls, one at a time
          NoCaller

ASSUME CallerAssumption == NoCaller \notin Callers /\ "final" \notin Callers

VARIABLES kind,      \* kind[c]: which call it is
          command,   \* command[c]: index of its present child process
          step,      \* step[c]: where the call stands
          child,     \* child[c]: its child process; "good" and "bad" have exited, unreaped
          partial,   \* partial[c]: the partial file, "torn" while it is being written
          captions,  \* captions[c]: the private copy of the subtitles exists
          asked,     \* asked[c]: cancel_requested; when it came is history
          outcome,   \* outcome[c]: how the last call ended
          output,    \* output[path]: who published there and what (history)
          raced      \* two calls were past the last look at one path (history)

files    == <<partial, captions>>
callVars == <<kind, command, step, child, files, asked, outcome, output, raced>>

\* The child processes of each kind of call, one after the other.
SoftSubtitles   == <<"probe", "write", "probe">>
BurnedSubtitles == <<"probe", "write", "probe">>
Normalization   == <<"probe", "measure", "write", "probe">>
Assembly        == <<"probe", "write">>
MockVideo       == <<"write">>
CLIVideo        == <<"write", "probe">>

Commands == [soft     |-> SoftSubtitles,
             burned   |-> BurnedSubtitles,
             audio    |-> Normalization,
             assembly |-> Assembly,
             video    |-> MockVideo,
             provider |-> CLIVideo]

Kinds         == DOMAIN Commands
Finalizations == {"soft", "burned", "audio"}

Path(c)    == IF kind[c] \in Finalizations THEN "final" ELSE c
Running(c) == Commands[kind[c]][command[c]]
Writing(c) == Running(c) = "write"

\* A provider that runs an administrator's command is not told of cancellations.
Watched(c) == kind[c] # "provider"

NoFile == [by |-> NoCaller, whole |-> FALSE]

CallsInit ==
    /\ kind = [c \in Callers |-> "video"]
    /\ command = [c \in Callers |-> 1]
    /\ step = [c \in Callers |-> "idle"]
    /\ child = [c \in Callers |-> "none"]
    /\ partial = [c \in Callers |-> "absent"]
    /\ captions = [c \in Callers |-> FALSE]
    /\ asked = [c \in Callers |-> "no"]
    /\ outcome = [c \in Callers |-> "none"]
    /\ output = [path \in Callers \cup {"final"} |-> NoFile]
    /\ raced = FALSE

At(c, label)   == step[c] = label
Goto(c, label) == step' = [step EXCEPT ![c] = label]
Child(c, to)   == child' = [child EXCEPT ![c] = to]
Exited(c)      == child[c] \in {"good", "bad"}
Alive(c)       == child[c] \in {"started", "writing"}
Cancelled(c)   == asked[c] # "no"

\* The call is past its last look at cancel_requested.
Decided(c) == \/ step[c] \in {"replacing", "returned"}
              \/ At(c, "publishing") /\ kind[c] \notin Finalizations

\* An exception leaves the work of the call.
Raise(c, how) == /\ outcome' = [outcome EXCEPT ![c] = how]
                 /\ Goto(c, "raising")

Occupied(path) == output[path].by # NoCaller

\* The call begins; a finalization looks at its output first (_validate_inputs).
Begin(c, k) ==
    /\ step[c] \in {"idle", "returned"}
    /\ kind' = [kind EXCEPT ![c] = k]
    /\ command' = [command EXCEPT ![c] = 1]
    /\ partial' = [partial EXCEPT ![c] = "absent"]
    /\ IF k \in Finalizations /\ Occupied("final")
       THEN Raise(c, "failed")
       ELSE Goto(c, "starting") /\ outcome' = [outcome EXCEPT ![c] = "none"]
    /\ asked' = [asked EXCEPT ![c] = IF @ = "late" THEN "early" ELSE @]
    /\ UNCHANGED <<child, captions, output, raced>>

\* The caller turns to other work; the next run has a directory of its own.
Dismiss(c) ==
    /\ kind' = [kind EXCEPT ![c] = "video"]
    /\ command' = [command EXCEPT ![c] = 1]
    /\ Goto(c, "idle")
    /\ partial' = [partial EXCEPT ![c] = "absent"]
    /\ asked' = [asked EXCEPT ![c] = "no"]
    /\ outcome' = [outcome EXCEPT ![c] = "none"]
    /\ output' = [output EXCEPT ![c] = NoFile]
    /\ UNCHANGED raced

Ask(c) ==
    asked' = [asked EXCEPT ![c] = IF @ # "no" THEN @ ELSE IF Decided(c) THEN "late" ELSE "early"]

-----------------------------------------------------------------------------
(* One child process *)

\* burn_subtitles copies the subtitles before the run that needs them.
Start(c) ==
    /\ At(c, "starting")
    /\ captions' = [captions EXCEPT ![c] = (kind[c] = "burned" /\ Writing(c))]
    /\ IF Watched(c) /\ Cancelled(c)
       THEN Raise(c, "cancelled") /\ UNCHANGED child
       ELSE Goto(c, "polling") /\ Child(c, "started") /\ UNCHANGED outcome
    /\ UNCHANGED <<kind, command, partial, asked, output, raced>>

\* The child opens the file it was told to write.
ChildWrites(c) ==
    /\ child[c] = "started"
    /\ Writing(c)
    /\ Child(c, "writing")
    /\ partial' = [partial EXCEPT ![c] = "torn"]
    /\ UNCHANGED <<kind, command, step, captions, asked, outcome, output, raced>>

ChildSucceeds(c) ==
    /\ child[c] = IF Writing(c) THEN "writing" ELSE "started"
    /\ step[c] # "killing"
    /\ Child(c, "good")
    /\ partial' = [partial EXCEPT ![c] = IF Writing(c) THEN "whole" ELSE @]
    /\ UNCHANGED <<kind, command, step, captions, asked, outcome, output, raced>>

\* It fails, or a signal ends it.
ChildFails(c) ==
    /\ Alive(c)
    /\ Child(c, "bad")
    /\ UNCHANGED <<kind, command, step, files, asked, outcome, output, raced>>

\* Faulty variant: the call does not wait for the child it terminates.
SeeCancel_Abandons(c) ==
    /\ At(c, "polling")
    /\ Watched(c)
    /\ Cancelled(c)
    /\ Raise(c, "cancelled")
    /\ UNCHANGED <<kind, command, child, files, asked, output, raced>>

\* The loop of run finds a cancellation and terminates the child.
SeeCancel(c) ==
    /\ At(c, "polling")
    /\ Watched(c)
    /\ Cancelled(c)
    /\ outcome' = [outcome EXCEPT ![c] = "cancelled"]
    /\ Goto(c, "stopping")
    /\ UNCHANGED <<kind, command, child, files, asked, output, raced>>

\* The time is up, or looking for a cancellation raised (the BaseException handler).
GiveUp(c) ==
    /\ At(c, "polling")
    /\ outcome' = [outcome EXCEPT ![c] = "failed"]
    /\ Goto(c, "stopping")
    /\ UNCHANGED <<kind, command, child, files, asked, output, raced>>

\* Faulty variant: it waits for the child that was terminated.
Kill_Waits(c) == FALSE /\ UNCHANGED callVars

\* The grace of _stop_process (_terminate_process) is over.
Kill(c) ==
    /\ At(c, "stopping")
    /\ Alive(c)
    /\ Goto(c, "killing")
    /\ UNCHANGED <<kind, command, child, files, asked, outcome, output, raced>>

\* The stopped child is reaped and the exception goes on.
Reap(c) ==
    /\ step[c] \in {"stopping", "killing"}
    /\ Exited(c)
    /\ Child(c, "none")
    /\ captions' = [captions EXCEPT ![c] = FALSE]
    /\ Goto(c, "raising")
    /\ UNCHANGED <<kind, command, partial, asked, outcome, output, raced>>

\* Faulty variant: the exit code is not looked at.
ExitFailed_Never(c) == FALSE

ExitFailed(c) == child[c] = "bad"

\* Faulty variant: no check after the child has exited.
CancelledAtExit_Never(c) == FALSE

CancelledAtExit(c) == Watched(c) /\ Cancelled(c)

\* Faulty variant: one command too many.
More_OffByOne(c) == command[c] <= Len(Commands[kind[c]])

More(c) == command[c] < Len(Commands[kind[c]])

\* What a child's exit code may mean.
Failures(c) == IF kind[c] = "provider" /\ Writing(c) THEN {"oom", "failed"} ELSE {"failed"}

\* The child has exited by itself: the exit code is looked at after a last
\* check; the metadata may be refused.
Collect(c) ==
    /\ At(c, "polling")
    /\ Exited(c)
    /\ Child(c, "none")
    /\ captions' = [captions EXCEPT ![c] = FALSE]
    /\ IF CancelledAtExit(c)
       THEN Raise(c, "cancelled") /\ UNCHANGED command
       ELSE IF ExitFailed(c)
       THEN (\E how \in Failures(c) : Raise(c, how)) /\ UNCHANGED command
       ELSE \/ ~Writing(c) /\ Raise(c, "failed") /\ UNCHANGED command
            \/ /\ UNCHANGED outcome
               /\ IF More(c)
                  THEN command' = [command EXCEPT ![c] = @ + 1] /\ Goto(c, "starting")
                  ELSE UNCHANGED command /\ Goto(c, "publishing")
    /\ UNCHANGED <<kind, partial, asked, output, raced>>

-----------------------------------------------------------------------------
(* Publication *)

\* Faulty variant: whoever comes last wins.
Refused_Never(c) == FALSE

\* os.path.lexists(output)
Refused(c) == kind[c] \in Finalizations /\ Occupied(Path(c))

\* The checks of _publish_partial.
CheckPublication(c) ==
    /\ At(c, "publishing")
    /\ IF kind[c] \in Finalizations /\ Cancelled(c) THEN Raise(c, "cancelled") /\ UNCHANGED raced
       ELSE IF Refused(c) THEN Raise(c, "failed") /\ UNCHANGED raced
       ELSE /\ Goto(c, "replacing")
            /\ raced' = (raced \/ \E d \in Callers \ {c} : At(d, "replacing") /\ Path(d) = Path(c))
            /\ UNCHANGED outcome
    /\ UNCHANGED <<kind, command, child, files, asked, output>>

\* partial.replace(output)
Replace(c) ==
    /\ At(c, "replacing")
    /\ output' = [output EXCEPT ![Path(c)] = [by |-> c, whole |-> partial[c] = "whole"]]
    /\ partial' = [partial EXCEPT ![c] = "absent"]
    /\ outcome' = [outcome EXCEPT ![c] = "ok"]
    /\ Goto(c, "returned")
    /\ UNCHANGED <<kind, command, child, captions, asked, raced>>

\* The handlers: a finalization unlinks its partial file.
CleanUp(c) ==
    /\ At(c, "raising")
    /\ partial' = [partial EXCEPT ![c] = IF kind[c] \in Finalizations THEN "absent" ELSE @]
    /\ Goto(c, "returned")
    /\ captions' = [captions EXCEPT ![c] = FALSE]
    /\ UNCHANGED <<kind, command, child, asked, outcome, output, raced>>

-----------------------------------------------------------------------------

Progress(c) == \/ Start(c) \/ SeeCancel(c) \/ Reap(c) \/ Collect(c)
               \/ CheckPublication(c) \/ Replace(c) \/ CleanUp(c)

ChildStep(c) == ChildWrites(c) \/ ChildSucceeds(c) \/ ChildFails(c)

CallStep(c) == Progress(c) \/ GiveUp(c) \/ Kill(c) \/ ChildStep(c)

-----------------------------------------------------------------------------
(* Properties *)

Steps == {"idle", "starting", "polling", "stopping", "killing", "publishing", "replacing",
          "raising", "returned"}

CallTypeOK ==
    /\ kind \in [Callers -> Kinds]
    /\ command \in [Callers -> Nat]
    /\ \A c \in Callers : command[c] \in 1 .. Len(Commands[kind[c]])
    /\ step \in [Callers -> Steps]
    /\ child \in [Callers -> {"none", "started", "writing", "good", "bad"}]
    /\ partial \in [Callers -> {"absent", "torn", "whole"}]
    /\ captions \in [Callers -> BOOLEAN]
    /\ asked \in [Callers -> {"no", "early", "late"}]
    /\ outcome \in [Callers -> {"none", "ok", "cancelled", "oom", "failed"}]
    /\ output \in [Callers \cup {"final"} -> [by : Callers \cup {NoCaller}, whole : BOOLEAN]]
    /\ raced \in BOOLEAN

\* Where a call is, and at most how many steps it and its children still make.
Stage(c)  == <<command[c], step[c], child[c]>>
StepsLeft == [starting |-> 6, polling |-> 5, stopping |-> 4, killing |-> 3, publishing |-> 3,
              replacing |-> 2, raising |-> 1, returned |-> 0, idle |-> 0]
ChildLeft == [none |-> 0, good |-> 1, bad |-> 1, writing |-> 2, started |-> 3]
CallLeft(c) == 4 * (Len(Commands[kind[c]]) - command[c] + StepsLeft[step[c]]) + ChildLeft[child[c]]

\* When a call is over its child has been reaped (ffmpeg.run retains ownership
\* of the process lifecycle), and a finalization leaves neither its partial
\* file nor its copy of the subtitles, whenever it was cancelled or timed out;
\* a child that outlived the call could still create the file.
NothingLeft ==
    \A c \in Callers : step[c] \in {"idle", "returned"} =>
        /\ child[c] = "none"
        /\ ~captions[c]
        /\ kind[c] \in Finalizations => partial[c] = "absent"

\* What is published is complete: its writer exited successfully.
OutputWhole == \A path \in DOMAIN output : Occupied(path) => output[path].whole

\* No finalization overwrites the file of another that returned it, unless both
\* had looked at the path before either replaced it (_publish_partial).
OutputKept ==
    ~raced => \A c \in Callers :
        At(c, "returned") /\ outcome[c] = "ok" => output[Path(c)].by = c

\* A call that watches cancel_requested and was asked before its last check
\* publishes nothing.
CancelledUnpublished ==
    \A c \in Callers : outcome[c] = "ok" /\ asked[c] = "early" => ~Watched(c)
=============================================================================

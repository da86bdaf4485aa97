-------------------------- MODULE MediaCallsProofs --------------------------
(***************************************************************************)
(* Lemmas about MediaCalls, for any number of callers: what a call has     *)
(* made of its child and its files at each of its steps (CallInv), and     *)
(* what the calls that share a path have published (OutputInv).            *)
(***************************************************************************)
EXTENDS MediaCalls, TLAPS

\* Which command of each kind of call writes the file.
WriteIndex == [soft |-> 2, burned |-> 2, audio |-> 3, assembly |-> 2, video |-> 1, provider |-> 1]

\* A child belongs to a call that waits for it; what is published is whole; a
\* call that was asked to cancel in time does not get to its publication.
CallInv(c) ==
    /\ step[c] \in {"idle", "starting", "publishing", "replacing", "raising", "returned"}
           => child[c] = "none"
    /\ step[c] \in {"polling", "stopping", "killing"} => child[c] # "none"
    /\ step[c] \in {"idle", "starting", "publishing", "replacing", "returned"} => ~captions[c]
    /\ child[c] = "writing" => command[c] = WriteIndex[kind[c]]
    /\ step[c] \in {"starting", "polling"} /\ command[c] > WriteIndex[kind[c]]
           => partial[c] = "whole"
    /\ child[c] = "good" /\ command[c] = WriteIndex[kind[c]] => partial[c] = "whole"
    /\ step[c] \in {"publishing", "replacing"} => partial[c] = "whole"
    /\ step[c] \in {"idle", "returned"} /\ kind[c] \in Finalizations => partial[c] = "absent"
    /\ outcome[c] = "ok" => step[c] = "returned"
    /\ step[c] \in {"stopping", "killing", "raising"} => outcome[c] \notin {"none", "ok"}
    /\ step[c] = "returned" => outcome[c] # "none"
    /\ outcome[c] = "oom" => kind[c] = "provider"
    /\ Watched(c) /\ (Decided(c) /\ (step[c] = "returned" => outcome[c] = "ok"))
           => asked[c] # "early"

\* Without a race the call about to replace the shared path is the only one, and
\* finds it free; who replaced it keeps it.
OutputInv ==
    /\ OutputWhole
    /\ OutputKept
    /\ ~raced => \A c \in Callers : step[c] = "replacing" /\ kind[c] \in Finalizations
                     => /\ ~Occupied("final")
                        /\ \A d \in Callers : step[d] = "replacing" /\ kind[d] \in Finalizations
                               => d = c

CallsInv == (\A c \in Callers : CallInv(c)) /\ OutputInv

\* The commands of a call and the one of them that writes.
LEMMA CommandFacts ==
    ASSUME NEW k \in Kinds
    PROVE  /\ Len(Commands[k]) \in Nat
           /\ WriteIndex[k] \in 1 .. Len(Commands[k])
           /\ \A i \in 1 .. Len(Commands[k]) : Commands[k][i] = "write" <=> i = WriteIndex[k]
  <1>1. k \in {"soft", "burned", "audio", "assembly", "video", "provider"}
    BY DEF Kinds, Commands
  <1>2. CASE k \in {"soft", "burned"}
    <2>1. Commands[k] = <<"probe", "write", "probe">> /\ WriteIndex[k] = 2
      BY <1>2 DEF Commands, WriteIndex, SoftSubtitles, BurnedSubtitles
    <2>2. 1 .. 3 = {1, 2, 3}
      OBVIOUS
    <2> QED BY <2>1, <2>2
  <1>3. CASE k = "audio"
    <2>1. Commands[k] = <<"probe", "measure", "write", "probe">> /\ WriteIndex[k] = 3
      BY <1>3 DEF Commands, WriteIndex, Normalization
    <2>2. 1 .. 4 = {1, 2, 3, 4}
      OBVIOUS
    <2> QED BY <2>1, <2>2
  <1>4. CASE k = "assembly"
    <2>1. Commands[k] = <<"probe", "write">> /\ WriteIndex[k] = 2
      BY <1>4 DEF Commands, WriteIndex, Assembly
    <2>2. 1 .. 2 = {1, 2}
      OBVIOUS
    <2> QED BY <2>1, <2>2
  <1>5. CASE k = "video"
    <2>1. Commands[k] = <<"write">> /\ WriteIndex[k] = 1
      BY <1>5 DEF Commands, WriteIndex, MockVideo
    <2> QED BY <2>1
  <1>6. CASE k = "provider"
    <2>1. Commands[k] = <<"write", "probe">> /\ WriteIndex[k] = 1
      BY <1>6 DEF Commands, WriteIndex, CLIVideo
    <2>2. 1 .. 2 = {1, 2}
      OBVIOUS
    <2> QED BY <2>1, <2>2
  <1> QED BY <1>1, <1>2, <1>3, <1>4, <1>5, <1>6

LEMMA KindNames ==
    /\ Finalizations \subseteq Kinds
    /\ {"assembly", "video", "provider"} \subseteq Kinds \ Finalizations
  BY DEF Finalizations, Kinds, Commands

LEMMA WritingIndex ==
    ASSUME CallTypeOK, NEW c \in Callers
    PROVE  /\ Writing(c) <=> command[c] = WriteIndex[kind[c]]
           /\ command[c] \in 1 .. Len(Commands[kind[c]])
           /\ WriteIndex[kind[c]] \in 1 .. Len(Commands[kind[c]])
           /\ Len(Commands[kind[c]]) \in Nat
  <1>1. kind[c] \in Kinds
    BY DEF CallTypeOK
  <1> QED BY <1>1, CommandFacts DEF CallTypeOK, Writing, Running


\* What CallTypeOK says of one caller.
CallerTypeOK(c) ==
    /\ kind[c] \in Kinds
    /\ command[c] \in 1 .. Len(Commands[kind[c]])
    /\ step[c] \in Steps
    /\ child[c] \in {"none", "started", "writing", "good", "bad"}
    /\ partial[c] \in {"absent", "torn", "whole"}
    /\ captions[c] \in BOOLEAN
    /\ asked[c] \in {"no", "early", "late"}
    /\ outcome[c] \in {"none", "ok", "cancelled", "oom", "failed"}

\* The state of one caller is all a step changes of the state of the callers.
Changes(c) ==
    /\ kind' = [kind EXCEPT ![c] = kind'[c]]
    /\ command' = [command EXCEPT ![c] = command'[c]]
    /\ step' = [step EXCEPT ![c] = step'[c]]
    /\ child' = [child EXCEPT ![c] = child'[c]]
    /\ partial' = [partial EXCEPT ![c] = partial'[c]]
    /\ captions' = [captions EXCEPT ![c] = captions'[c]]
    /\ asked' = [asked EXCEPT ![c] = asked'[c]]
    /\ outcome' = [outcome EXCEPT ![c] = outcome'[c]]

OutputTypeOK ==
    /\ output \in [Callers \cup {"final"} -> [by : Callers \cup {NoCaller}, whole : BOOLEAN]]
    /\ raced \in BOOLEAN

LEMMA CallerTypes ==
    ASSUME CallTypeOK, NEW c \in Callers
    PROVE  CallerTypeOK(c) /\ OutputTypeOK
  BY DEF CallTypeOK, CallerTypeOK, OutputTypeOK

LEMMA ChangesTyped ==
    ASSUME CallTypeOK, NEW c \in Callers, Changes(c), CallerTypeOK(c)', OutputTypeOK'
    PROVE  CallTypeOK'
  <1>1. kind' \in [Callers -> Kinds]
    BY DEF CallTypeOK, Changes, CallerTypeOK
  <1>2. command' \in [Callers -> Nat]
    <2>1. command'[c] \in Nat
      BY CommandFacts DEF CallerTypeOK
    <2> QED BY <2>1 DEF CallTypeOK, Changes
  <1>3. ASSUME NEW d \in Callers PROVE command'[d] \in 1 .. Len(Commands[kind'[d]])
    <2>1. CASE d = c
      BY <2>1 DEF CallerTypeOK
    <2>2. CASE d # c
      <3>1. command'[d] = command[d] /\ kind'[d] = kind[d]
        BY <2>2 DEF CallTypeOK, Changes
      <3> QED BY <3>1 DEF CallTypeOK
    <2> QED BY <2>1, <2>2
  <1>4. /\ step' \in [Callers -> Steps]
        /\ child' \in [Callers -> {"none", "started", "writing", "good", "bad"}]
        /\ partial' \in [Callers -> {"absent", "torn", "whole"}]
    BY DEF CallTypeOK, Changes, CallerTypeOK
  <1>5. /\ captions' \in [Callers -> BOOLEAN]
        /\ asked' \in [Callers -> {"no", "early", "late"}]
        /\ outcome' \in [Callers -> {"none", "ok", "cancelled", "oom", "failed"}]
    BY DEF CallTypeOK, Changes, CallerTypeOK
  <1> QED BY <1>1, <1>2, <1>3, <1>4, <1>5 DEF CallTypeOK, OutputTypeOK

\* The state of d is what it was.
Same(d) ==
    /\ kind'[d] = kind[d] /\ command'[d] = command[d] /\ step'[d] = step[d]
    /\ child'[d] = child[d] /\ partial'[d] = partial[d] /\ captions'[d] = captions[d]
    /\ asked'[d] = asked[d] /\ outcome'[d] = outcome[d]

LEMMA OthersSame ==
    ASSUME CallTypeOK, NEW c \in Callers, Changes(c), NEW d \in Callers, d # c
    PROVE  Same(d)
  BY DEF CallTypeOK, Changes, Same

LEMMA SameInv ==
    ASSUME NEW d \in Callers, CallInv(d), Same(d)
    PROVE  CallInv(d)'
  BY DEF CallInv, Same, Watched, Decided, At

\* The calls have the invariant after a step of one that has it and writes nothing.
LEMMA ChangesInv ==
    ASSUME CallTypeOK, CallsInv, NEW c \in Callers, Changes(c), CallInv(c)',
           UNCHANGED <<output, raced>>,
           step'[c] # "replacing" \/ (step[c] = "replacing" /\ kind'[c] = kind[c]),
           outcome'[c] # "ok" \/ (step[c] = "returned" /\ outcome[c] = "ok" /\ kind'[c] = kind[c])
    PROVE  CallsInv'
  <1>1. ASSUME NEW d \in Callers PROVE CallInv(d)'
    BY OthersSame, SameInv DEF CallsInv
  <1>2. OutputWhole'
    BY DEF CallsInv, OutputInv, OutputWhole, Occupied
  <1>3. ASSUME ~raced', NEW d \in Callers, At(d, "returned")', outcome'[d] = "ok"
        PROVE  output'[Path(d)'].by = d
    <2>1. step[d] = "returned" /\ outcome[d] = "ok" /\ kind'[d] = kind[d]
      BY <1>3, OthersSame DEF Same, At
    <2> QED BY <1>3, <2>1 DEF CallsInv, OutputInv, OutputKept, Path, At
  <1>4. ASSUME ~raced', NEW d \in Callers, step'[d] = "replacing", kind'[d] \in Finalizations
        PROVE  ~Occupied("final") /\ step[d] = "replacing" /\ kind[d] \in Finalizations
    <2>1. step[d] = "replacing" /\ kind[d] \in Finalizations
      BY <1>4, OthersSame DEF Same
    <2> QED BY <1>4, <2>1 DEF CallsInv, OutputInv
  <1>5. OutputInv'
    BY <1>2, <1>3, <1>4 DEF CallsInv, OutputInv, OutputKept, Occupied
  <1> QED BY <1>1, <1>5 DEF CallsInv

LEMMA CallsInitInv ==
    ASSUME CallerAssumption, CallsInit
    PROVE  CallTypeOK /\ CallsInv
  <1>1. Len(Commands["video"]) = 1 /\ "video" \in Kinds \ Finalizations /\ WriteIndex["video"] = 1
    BY KindNames DEF Commands, MockVideo, WriteIndex
  <1>2. CallTypeOK
    <2>1. kind \in [Callers -> Kinds] /\ command \in [Callers -> Nat]
      BY <1>1 DEF CallsInit
    <2>2. \A c \in Callers : kind[c] = "video" /\ command[c] = 1
      BY DEF CallsInit
    <2>3. ASSUME NEW c \in Callers PROVE command[c] \in 1 .. Len(Commands[kind[c]])
      <3>1. Len(Commands[kind[c]]) = 1 /\ command[c] = 1
        BY <1>1, <2>2
      <3> QED BY <3>1
    <2>4. output \in [Callers \cup {"final"} -> [by : Callers \cup {NoCaller}, whole : BOOLEAN]]
      BY DEF CallsInit, NoFile
    <2> QED BY <2>1, <2>3, <2>4 DEF CallsInit, CallTypeOK, Steps
  <1>3. ASSUME NEW c \in Callers PROVE CallInv(c)
    <2>1. /\ kind[c] = "video" /\ command[c] = 1 /\ step[c] = "idle" /\ child[c] = "none"
          /\ captions[c] = FALSE /\ outcome[c] = "none" /\ asked[c] = "no"
      BY DEF CallsInit
    <2> QED BY <1>1, <2>1 DEF CallInv, Decided, At
  <1>4. OutputInv
    BY <1>1 DEF CallsInit, OutputInv, OutputWhole, OutputKept, Occupied, NoFile, At
  <1> QED BY <1>2, <1>3, <1>4 DEF CallsInv

\* A step of a call that publishes nothing and takes no decision to.
Quiet(c) == \/ Start(c) \/ ChildStep(c) \/ SeeCancel(c) \/ GiveUp(c) \/ Kill(c) \/ Reap(c)
            \/ Collect(c) \/ CleanUp(c)

LEMMA QuietInv ==
    ASSUME CallTypeOK, CallsInv, NEW c \in Callers, Quiet(c)
    PROVE  CallTypeOK' /\ CallsInv' /\ Changes(c)
  <1> USE DEF Quiet, ChildStep, Start, ChildWrites, ChildSucceeds, ChildFails, SeeCancel, GiveUp,
              Kill, Reap, Collect, CleanUp, Goto, Child, At, Raise, files
  <1>1. Changes(c) /\ UNCHANGED <<output, raced>>
    BY DEF CallTypeOK, Changes
  <1>2. CallerTypeOK(c) /\ OutputTypeOK /\ CallInv(c)
    BY CallerTypes DEF CallsInv
  <1>3. CallerTypeOK(c)' /\ OutputTypeOK'
    <2>1. kind'[c] = kind[c] /\ kind[c] \in Kinds
      BY DEF CallTypeOK
    <2>2. command'[c] \in 1 .. Len(Commands[kind[c]])
      <3>1. CASE Collect(c)
        <4>1. command'[c] = command[c] \/ (More(c) /\ command'[c] = command[c] + 1)
          BY <3>1 DEF CallTypeOK
        <4> QED BY <4>1, WritingIndex DEF More
      <3>2. CASE ~Collect(c)
        BY <3>2, WritingIndex
      <3> QED BY <3>1, <3>2
    <2>3. /\ step'[c] \in Steps
          /\ child'[c] \in {"none", "started", "writing", "good", "bad"}
          /\ partial'[c] \in {"absent", "torn", "whole"}
      BY DEF CallTypeOK, Steps
    <2>4. captions'[c] \in BOOLEAN
      <3>1. CASE Start(c)
        BY <3>1 DEF CallTypeOK
      <3>2. CASE ~Start(c)
        BY <3>2 DEF CallTypeOK
      <3> QED BY <3>1, <3>2
    <2>5. asked'[c] \in {"no", "early", "late"}
      BY DEF CallTypeOK
    <2>6. outcome'[c] \in {"none", "ok", "cancelled", "oom", "failed"}
      BY DEF CallTypeOK, Failures
    <2> QED BY <1>1, <1>2, <2>1, <2>2, <2>3, <2>4, <2>5, <2>6 DEF CallerTypeOK, OutputTypeOK
  <1>4. CallInv(c)'
    <2> USE <1>2, WritingIndex
        DEF CallTypeOK, CallerTypeOK, CallInv, Watched, Cancelled, Decided, Alive, Exited
    <2>1. CASE Start(c) \/ ChildStep(c)
      BY <2>1
    <2>2. CASE SeeCancel(c) \/ GiveUp(c) \/ Kill(c) \/ Reap(c) \/ CleanUp(c)
      BY <2>2
    <2>3. CASE Collect(c)
      <3>1. CASE step'[c] = "raising"
        BY <2>3, <3>1 DEF Failures
      <3>2. CASE step'[c] = "starting"
        BY <2>3, <3>2 DEF More, CancelledAtExit, ExitFailed
      <3>3. CASE step'[c] = "publishing"
        BY <2>3, <3>3 DEF More, CancelledAtExit, ExitFailed
      <3>4. step'[c] \in {"raising", "starting", "publishing"}
        BY <2>3
      <3> QED BY <3>1, <3>2, <3>3, <3>4
    <2> QED BY <2>1, <2>2, <2>3
  <1>5. step'[c] # "replacing" \/ (step[c] = "replacing" /\ kind'[c] = kind[c])
    BY DEF CallTypeOK
  <1>6. outcome'[c] # "ok" \/ (step[c] = "returned" /\ outcome[c] = "ok" /\ kind'[c] = kind[c])
    BY <1>2 DEF CallTypeOK, CallInv, Failures
  <1> QED BY <1>1, <1>3, <1>4, <1>5, <1>6, ChangesTyped, ChangesInv

LEMMA CheckPublicationInv ==
    ASSUME CallTypeOK, CallsInv, NEW c \in Callers, CheckPublication(c)
    PROVE  CallTypeOK' /\ CallsInv' /\ Changes(c)
  <1> USE DEF CheckPublication, Goto, At, Raise, files
  <1>1. Changes(c) /\ UNCHANGED output
    BY DEF CallTypeOK, Changes
  <1>2. CallerTypeOK(c) /\ OutputTypeOK /\ CallInv(c)
    BY CallerTypes DEF CallsInv
  <1>3. CallerTypeOK(c)' /\ OutputTypeOK'
    <2>1. CallerTypeOK(c)'
      BY <1>2 DEF CallTypeOK, CallerTypeOK, Steps
    <2>2. raced' \in BOOLEAN
      <3>1. CASE UNCHANGED raced
        BY <1>2, <3>1 DEF OutputTypeOK
      <3>2. CASE raced' = (raced \/ \E d \in Callers \ {c} :
                                       At(d, "replacing") /\ Path(d) = Path(c))
        BY <3>2, Zenon
      <3> QED BY <3>1, <3>2
    <2> QED BY <1>1, <1>2, <2>1, <2>2 DEF OutputTypeOK
  <1>4. CallInv(c)'
    BY <1>2, WritingIndex
       DEF CallTypeOK, CallerTypeOK, CallInv, Watched, Cancelled, Decided
  <1>5. CASE step'[c] = "raising"
    <2>1. UNCHANGED raced /\ outcome'[c] # "ok"
      BY <1>5 DEF CallTypeOK
    <2> QED BY <1>1, <1>3, <1>4, <1>5, <2>1, ChangesTyped, ChangesInv
  <1>6. CASE step'[c] = "replacing"
    <2>1. /\ raced' = (raced \/ \E d \in Callers \ {c} : At(d, "replacing") /\ Path(d) = Path(c))
          /\ UNCHANGED outcome
          /\ UNCHANGED kind
          /\ ~Refused(c)
          /\ step[c] = "publishing"
      BY <1>6 DEF CallTypeOK
    <2>2. ASSUME NEW d \in Callers PROVE CallInv(d)'
      BY <1>1, <1>4, OthersSame, SameInv DEF CallsInv
    <2>3. OutputWhole'
      BY <1>1 DEF CallsInv, OutputInv, OutputWhole, Occupied
    <2>4. ASSUME ~raced', NEW d \in Callers, step'[d] = "returned", outcome'[d] = "ok"
          PROVE  output'[Path(d)'].by = d
      <3>1. d # c /\ ~raced
        BY <1>6, <2>1, <2>4
      <3>2. step[d] = "returned" /\ outcome[d] = "ok" /\ kind'[d] = kind[d]
        BY <1>1, <2>4, <3>1, OthersSame DEF Same
      <3> QED BY <1>1, <3>1, <3>2 DEF CallsInv, OutputInv, OutputKept, Path
    <2>5. ASSUME ~raced', NEW d \in Callers, step'[d] = "replacing", kind'[d] \in Finalizations
          PROVE  /\ ~Occupied("final")
                 /\ \A e \in Callers : step'[e] = "replacing" /\ kind'[e] \in Finalizations => e = d
      <3>1. ~raced
        BY <2>1, <2>5
      <3>2. ASSUME NEW e \in Callers, e # c, step'[e] = "replacing", kind'[e] \in Finalizations
            PROVE  kind[c] \notin Finalizations /\ step[e] = "replacing" /\ kind[e] \in Finalizations
        <4>1. step[e] = "replacing" /\ kind[e] \in Finalizations
          BY <1>1, <3>2, OthersSame DEF Same
        <4> QED BY <2>1, <2>5, <3>2, <4>1 DEF Path
      <3>3. CASE d = c
        BY <2>1, <2>5, <3>2, <3>3 DEF Refused, Path
      <3>4. CASE d # c
        BY <2>1, <2>5, <3>1, <3>2, <3>4 DEF CallsInv, OutputInv
      <3> QED BY <3>3, <3>4
    <2>6. OutputInv'
      BY <1>1, <2>3, <2>4, <2>5 DEF OutputInv, OutputKept, Occupied
    <2> QED BY <1>1, <1>3, <2>2, <2>6, ChangesTyped DEF CallsInv
  <1>7. step'[c] \in {"raising", "replacing"}
    BY DEF CallTypeOK
  <1> QED BY <1>5, <1>6, <1>7

LEMMA ReplaceInv ==
    ASSUME CallerAssumption, CallTypeOK, CallsInv, NEW c \in Callers, Replace(c)
    PROVE  CallTypeOK' /\ CallsInv' /\ Changes(c)
  <1> USE DEF Replace, Goto, At, files
  <1>1. Changes(c) /\ UNCHANGED raced
    BY DEF CallTypeOK, Changes
  <1>2. CallerTypeOK(c) /\ OutputTypeOK /\ CallInv(c)
    BY CallerTypes DEF CallsInv
  <1> DEFINE file == [by |-> c, whole |-> partial[c] = "whole"]
  <1>3. file.by = c /\ file.whole /\ file \in [by : Callers \cup {NoCaller}, whole : BOOLEAN]
    BY <1>2 DEF CallInv
  <1>4. output' = [output EXCEPT ![Path(c)] = file] /\ Path(c) \in Callers \cup {"final"}
    BY DEF Path
  <1> HIDE DEF file
  <1>5. OutputTypeOK'
    BY <1>1, <1>2, <1>3, <1>4 DEF OutputTypeOK
  <1>6. CallerTypeOK(c)'
    BY <1>2 DEF CallTypeOK, CallerTypeOK, Steps
  <1>7. CallInv(c)'
    BY <1>2, WritingIndex DEF CallTypeOK, CallerTypeOK, CallInv, Watched, Decided
  <1>8. ASSUME NEW d \in Callers PROVE CallInv(d)'
    BY <1>1, <1>7, OthersSame, SameInv DEF CallsInv
  <1>9. OutputWhole'
    <2> SUFFICES ASSUME NEW path \in Callers \cup {"final"}, output'[path].by # NoCaller
                 PROVE  output'[path].whole
      BY <1>5 DEF OutputWhole, Occupied, OutputTypeOK
    <2> QED BY <1>2, <1>3, <1>4 DEF OutputTypeOK, CallsInv, OutputInv, OutputWhole, Occupied
  <1>10. ASSUME ~raced', NEW d \in Callers, step'[d] = "returned", outcome'[d] = "ok"
         PROVE  output'[Path(d)'].by = d
    <2>1. CASE d = c
      <3>1. Path(c)' = Path(c)
        BY DEF Path
      <3> QED BY <1>2, <1>3, <1>4, <2>1, <3>1 DEF OutputTypeOK
    <2>2. CASE d # c
      <3>1. Same(d)
        BY <1>1, <2>2, OthersSame
      <3>2. Path(d)' = Path(d) /\ Path(d) \in Callers \cup {"final"} /\ output[Path(d)].by = d
        BY <1>1, <1>10, <3>1 DEF Same, Path, CallsInv, OutputInv, OutputKept
      <3>3. Path(d) # Path(c)
        BY <1>1, <1>10, <2>2, <3>2 DEF Path, CallsInv, OutputInv, Occupied, CallerAssumption
      <3> QED BY <1>2, <1>4, <3>2, <3>3 DEF OutputTypeOK
    <2> QED BY <2>1, <2>2
  <1>11. ASSUME ~raced', NEW d \in Callers, step'[d] = "replacing", kind'[d] \in Finalizations
         PROVE  /\ output'["final"].by = NoCaller
                /\ \A e \in Callers : step'[e] = "replacing" /\ kind'[e] \in Finalizations => e = d
    <2>1. d # c /\ step[d] = "replacing" /\ kind[d] \in Finalizations
      BY <1>1, <1>11, OthersSame DEF Same, CallTypeOK
    <2>2. ASSUME NEW e \in Callers, step'[e] = "replacing", kind'[e] \in Finalizations
          PROVE  step[e] = "replacing" /\ kind[e] \in Finalizations
      BY <1>1, <2>2, OthersSame DEF Same, CallTypeOK
    <2>3. kind[c] \notin Finalizations /\ ~Occupied("final")
      BY <1>1, <1>11, <2>1 DEF CallsInv, OutputInv
    <2>4. output'["final"] = output["final"]
      BY <1>2, <1>4, <2>3 DEF Path, OutputTypeOK, CallerAssumption
    <2> QED BY <1>1, <1>11, <2>1, <2>2, <2>3, <2>4 DEF CallsInv, OutputInv, Occupied
  <1>12. OutputInv'
    BY <1>9, <1>10, <1>11 DEF OutputInv, OutputKept, Occupied
  <1> QED BY <1>1, <1>5, <1>6, <1>8, <1>12, ChangesTyped DEF CallsInv

LEMMA CallStepInv ==
    ASSUME CallerAssumption, CallTypeOK, CallsInv, NEW c \in Callers, CallStep(c)
    PROVE  CallTypeOK' /\ CallsInv' /\ Changes(c)
  BY QuietInv, CheckPublicationInv, ReplaceInv DEF CallStep, Progress, Quiet

LEMMA BeginInv ==
    ASSUME CallTypeOK, CallsInv, NEW c \in Callers, NEW k \in Kinds, Begin(c, k)
    PROVE  CallTypeOK' /\ CallsInv' /\ Changes(c)
  <1> USE DEF Begin, Goto, At, Raise
  <1>1. Changes(c) /\ UNCHANGED <<output, raced>>
    BY DEF CallTypeOK, Changes
  <1>2. CallerTypeOK(c) /\ OutputTypeOK /\ CallInv(c)
    BY CallerTypes DEF CallsInv
  <1>3. WriteIndex[k] \in 1 .. Len(Commands[k]) /\ Len(Commands[k]) \in Nat
    BY CommandFacts
  <1>4. kind'[c] = k /\ command'[c] = 1 /\ step'[c] \in {"raising", "starting"}
    BY DEF CallTypeOK
  <1>5. CallerTypeOK(c)' /\ OutputTypeOK'
    BY <1>1, <1>2, <1>3, <1>4 DEF CallTypeOK, CallerTypeOK, OutputTypeOK, Steps
  <1>6. CallInv(c)'
    BY <1>2, <1>3, <1>4 DEF CallTypeOK, CallerTypeOK, CallInv, Watched, Decided
  <1>7. step'[c] # "replacing" /\ outcome'[c] # "ok"
    <2>1. outcome' = [outcome EXCEPT ![c] = "failed"] \/ outcome' = [outcome EXCEPT ![c] = "none"]
      OBVIOUS
    <2>2. outcome'[c] \in {"failed", "none"}
      BY <2>1 DEF CallTypeOK
    <2> QED BY <1>4, <2>2
  <1>8. CallTypeOK'
    BY <1>1, <1>5, ChangesTyped
  <1> HIDE DEF Begin, Goto, At, Raise
  <1>9. /\ step'[c] # "replacing" \/ (step[c] = "replacing" /\ kind'[c] = kind[c])
        /\ outcome'[c] # "ok" \/ (step[c] = "returned" /\ outcome[c] = "ok" /\ kind'[c] = kind[c])
    BY <1>7
  <1>10. CallsInv'
    BY <1>1, <1>6, <1>9, ChangesInv
  <1> QED BY <1>1, <1>8, <1>10

\* Any change of asked that respects the decision of the call.
LEMMA AskedInv ==
    ASSUME CallTypeOK, CallsInv, NEW c \in Callers, NEW a \in {"no", "early", "late"},
           asked' = [asked EXCEPT ![c] = a],
           UNCHANGED <<kind, command, step, child, files, outcome, output, raced>>,
           a = "early" => asked[c] = "early" \/ ~Decided(c)
    PROVE  CallTypeOK' /\ CallsInv' /\ Changes(c)
  <1>1. Changes(c) /\ UNCHANGED <<output, raced>>
    BY DEF CallTypeOK, Changes, files
  <1>2. CallerTypeOK(c) /\ OutputTypeOK /\ CallInv(c)
    BY CallerTypes DEF CallsInv
  <1>3. CallerTypeOK(c)' /\ OutputTypeOK'
    BY <1>2 DEF CallTypeOK, CallerTypeOK, OutputTypeOK, files
  <1>4. CallInv(c)'
    BY <1>2 DEF CallTypeOK, CallInv, Watched, Decided, At, files
  <1>5. /\ step'[c] # "replacing" \/ (step[c] = "replacing" /\ kind'[c] = kind[c])
        /\ outcome'[c] # "ok" \/ (step[c] = "returned" /\ outcome[c] = "ok" /\ kind'[c] = kind[c])
    BY <1>2 DEF CallInv
  <1> QED BY <1>1, <1>3, <1>4, <1>5, ChangesTyped, ChangesInv

LEMMA AskInv ==
    ASSUME CallTypeOK, CallsInv, NEW c \in Callers, Ask(c),
           UNCHANGED <<kind, command, step, child, files, outcome, output, raced>>
    PROVE  CallTypeOK' /\ CallsInv' /\ Changes(c)
  <1> DEFINE a == IF asked[c] # "no" THEN asked[c] ELSE IF Decided(c) THEN "late" ELSE "early"
  <1>1. a \in {"no", "early", "late"} /\ asked' = [asked EXCEPT ![c] = a]
    BY DEF CallTypeOK, Ask
  <1>2. a = "early" => asked[c] = "early" \/ ~Decided(c)
    OBVIOUS
  <1> HIDE DEF a
  <1> QED BY <1>1, <1>2, AskedInv

LEMMA DismissInv ==
    ASSUME CallerAssumption, CallTypeOK, CallsInv, NEW c \in Callers, Dismiss(c),
           child' = [child EXCEPT ![c] = "none"], captions' = [captions EXCEPT ![c] = FALSE]
    PROVE  /\ CallTypeOK' /\ CallsInv' /\ Changes(c)
           /\ step'[c] = "idle" /\ outcome'[c] = "none"
  <1> USE DEF Dismiss, Goto, At
  <1>1. Changes(c) /\ UNCHANGED raced
    BY DEF CallTypeOK, Changes
  <1>2. /\ kind'[c] = "video" /\ command'[c] = 1 /\ step'[c] = "idle" /\ child'[c] = "none"
        /\ partial'[c] = "absent" /\ captions'[c] = FALSE /\ asked'[c] = "no"
        /\ outcome'[c] = "none"
    BY DEF CallTypeOK
  <1>3. "video" \in Kinds \ Finalizations /\ Len(Commands["video"]) = 1
        /\ WriteIndex["video"] = 1
    BY KindNames DEF Commands, MockVideo, WriteIndex
  <1>4. CallerTypeOK(c)'
    <2>1. kind'[c] \in Kinds /\ command'[c] \in 1 .. Len(Commands[kind'[c]])
      <3>1. kind'[c] = "video" /\ command'[c] = 1
        BY <1>2
      <3>2. "video" \in Kinds /\ 1 \in 1 .. Len(Commands["video"])
        BY <1>3
      <3> HIDE DEF Dismiss
      <3> QED BY <3>1, <3>2, Zenon
    <2> QED BY <1>2, <2>1 DEF CallerTypeOK, Steps
  <1>5. CallInv(c)'
    BY <1>2, <1>3 DEF CallInv, Watched, Decided
  <1>6. NoFile.by = NoCaller /\ NoFile \in [by : Callers \cup {NoCaller}, whole : BOOLEAN]
    BY DEF NoFile
  <1>7. OutputTypeOK /\ OutputTypeOK'
    BY <1>1, <1>6 DEF CallTypeOK, OutputTypeOK
  <1>8. ASSUME NEW d \in Callers PROVE CallInv(d)'
    BY <1>1, <1>5, OthersSame, SameInv DEF CallsInv
  <1>9. \A path \in Callers \cup {"final"} :
           path # c => output'[path] = output[path]
    BY <1>7 DEF OutputTypeOK
  <1>10. output'[c].by = NoCaller
    BY <1>6, <1>7 DEF OutputTypeOK
  <1>11. OutputWhole'
    BY <1>7, <1>9, <1>10 DEF OutputTypeOK, OutputWhole, Occupied, CallsInv, OutputInv
  <1>12. ASSUME ~raced', NEW d \in Callers, step'[d] = "returned", outcome'[d] = "ok"
         PROVE  output'[Path(d)'].by = d
    <2>1. d # c
      BY <1>2, <1>12
    <2>2. Path(d)' = Path(d) /\ Path(d) \in Callers \cup {"final"} /\ output[Path(d)].by = d
      BY <1>1, <1>12, <2>1, OthersSame DEF Same, Path, CallsInv, OutputInv, OutputKept
    <2>3. Path(d) # c
      BY <2>1 DEF Path, CallerAssumption
    <2> QED BY <1>9, <2>2, <2>3
  <1>13. ASSUME ~raced', NEW d \in Callers, step'[d] = "replacing", kind'[d] \in Finalizations
         PROVE  /\ output'["final"].by = NoCaller
                /\ \A e \in Callers : step'[e] = "replacing" /\ kind'[e] \in Finalizations => e = d
    <2>1. ASSUME NEW e \in Callers, step'[e] = "replacing", kind'[e] \in Finalizations
          PROVE  step[e] = "replacing" /\ kind[e] \in Finalizations
      BY <1>1, <1>2, <2>1, OthersSame DEF Same
    <2>2. output'["final"] = output["final"]
      BY <1>9 DEF CallerAssumption
    <2> QED BY <1>1, <1>13, <2>1, <2>2 DEF CallsInv, OutputInv, Occupied
  <1>14. OutputInv'
    BY <1>11, <1>12, <1>13 DEF OutputInv, OutputKept, Occupied
  <1> QED BY <1>1, <1>2, <1>4, <1>7, <1>8, <1>14, ChangesTyped DEF CallsInv

LEMMA KeepCallInv ==
    ASSUME CallTypeOK, CallsInv, UNCHANGED callVars
    PROVE  CallTypeOK' /\ CallsInv' /\ \A c \in Callers : Same(c)
  <1> USE DEF callVars, files
  <1>1. CallTypeOK'
    BY DEF CallTypeOK
  <1>2. \A c \in Callers : Same(c)
    BY DEF Same
  <1>3. \A c \in Callers : CallInv(c)'
    BY <1>2, SameInv DEF CallsInv
  <1>4. OutputInv'
    BY DEF CallsInv, OutputInv, OutputWhole, OutputKept, Occupied, Path, At
  <1> QED BY <1>1, <1>2, <1>3, <1>4 DEF CallsInv

\* A call that stands still makes no step, and no step ends or begins one.
LEMMA CallStepBusy ==
    ASSUME CallTypeOK, CallsInv, NEW c \in Callers, CallStep(c)
    PROVE  step[c] \notin {"idle", "returned"} /\ step'[c] # "idle" /\ kind'[c] = kind[c]
  <1> USE DEF CallStep, Progress, ChildStep, Start, ChildWrites, ChildSucceeds, ChildFails,
              SeeCancel, GiveUp, Kill, Reap, Collect, CleanUp, CheckPublication, Replace,
              Goto, Child, At, Raise, files
  <1>1. step[c] \notin {"idle", "returned"}
    BY DEF CallsInv, CallInv, Alive
  <1>2. step'[c] # "idle"
    BY <1>1 DEF CallTypeOK
  <1>3. kind' = kind
    OBVIOUS
  <1> QED BY <1>1, <1>2, <1>3

\* A call makes finitely many steps: every one brings it nearer to its end, those of
\* its children included.
LEMMA CallStepDescends ==
    ASSUME CallTypeOK, CallsInv, NEW c \in Callers, CallStep(c)
    PROVE  CallLeft(c) \in Nat /\ CallLeft(c)' < CallLeft(c)
  <1> DEFINE length == Len(Commands[kind[c]])
  <1>1. length \in Nat /\ command[c] \in 1 .. length
    BY WritingIndex
  <1>2. kind' = kind /\ CallInv(c) /\ step[c] \in Steps
        /\ child[c] \in {"none", "started", "writing", "good", "bad"}
    BY CallStepBusy DEF CallsInv, CallTypeOK, CallStep, Progress, ChildStep, Start, ChildWrites,
       ChildSucceeds, ChildFails, SeeCancel, GiveUp, Kill, Reap, Collect, CleanUp,
       CheckPublication, Replace
  <1> DEFINE left    == length - command[c]
             before  == 4 * (left + StepsLeft[step[c]]) + ChildLeft[child[c]]
             after   == 4 * (length - command'[c] + StepsLeft[step'[c]]) + ChildLeft[child'[c]]
  <1>3. CallLeft(c) = before /\ CallLeft(c)' = after
    BY <1>2 DEF CallLeft
  <1>4. StepsLeft[step[c]] \in Nat /\ ChildLeft[child[c]] \in Nat /\ left \in Nat
    BY <1>1, <1>2 DEF StepsLeft, ChildLeft, Steps
  <1>5. CASE command'[c] = command[c]
    <2>1. /\ StepsLeft[step'[c]] \in Nat /\ ChildLeft[child'[c]] \in Nat
          /\ 4 * StepsLeft[step'[c]] + ChildLeft[child'[c]]
               < 4 * StepsLeft[step[c]] + ChildLeft[child[c]]
      <3> USE DEF StepsLeft, ChildLeft, Goto, Child, At, Raise, CallTypeOK
      <3>1. CASE Start(c) \/ SeeCancel(c) \/ GiveUp(c) \/ Kill(c) \/ Reap(c)
        BY <1>2, <3>1 DEF Start, SeeCancel, GiveUp, Kill, Reap, CallInv, Exited
      <3>2. CASE Collect(c)
        <4>1. step'[c] \in {"raising", "publishing"} /\ child'[c] = "none"
          BY <1>1, <1>5, <3>2 DEF Collect
        <4>2. step[c] = "polling"
          BY <3>2 DEF Collect
        <4> QED BY <1>2, <4>1, <4>2
      <3>3. CASE CheckPublication(c) \/ Replace(c) \/ CleanUp(c)
        BY <1>2, <3>3 DEF CheckPublication, Replace, CleanUp
      <3>4. CASE ChildStep(c)
        BY <1>2, <3>4 DEF ChildStep, ChildWrites, ChildSucceeds, ChildFails, Alive, Steps
      <3> QED BY <3>1, <3>2, <3>3, <3>4 DEF CallStep, Progress
    <2>2. \A l, s, t, k, m \in Nat : 4 * t + m < 4 * s + k
             => 4 * (l + s) + k \in Nat /\ 4 * (l + t) + m < 4 * (l + s) + k
      OBVIOUS
    <2>3. after = 4 * (left + StepsLeft[step'[c]]) + ChildLeft[child'[c]]
      BY <1>5
    <2> HIDE DEF left, after
    <2> QED BY <1>3, <1>4, <2>1, <2>2, <2>3
  <1>6. CASE command'[c] # command[c]
    <2>1. Collect(c)
      BY <1>6 DEF CallStep, Progress, ChildStep, Start, ChildWrites, ChildSucceeds, ChildFails,
         SeeCancel, GiveUp, Kill, Reap, CleanUp, CheckPublication, Replace
    <2>2. /\ step[c] = "polling" /\ child[c] \in {"good", "bad"} /\ child'[c] = "none"
          /\ command' = [command EXCEPT ![c] = @ + 1] /\ step' = [step EXCEPT ![c] = "starting"]
      BY <1>6, <2>1 DEF Collect, CallTypeOK, Goto, Child, At, Exited
    <2>3. /\ StepsLeft[step[c]] = 5 /\ StepsLeft[step'[c]] = 6
          /\ ChildLeft[child[c]] = 1 /\ ChildLeft[child'[c]] = 0
      BY <2>2 DEF StepsLeft, ChildLeft, CallTypeOK
    <2>4. command'[c] = command[c] + 1
      BY <2>2 DEF CallTypeOK
    <2>5. before = 4 * (length - command[c] + 5) + 1 /\ after = 4 * (length - (command[c] + 1) + 6) + 0
      BY <2>3, <2>4
    <2> HIDE DEF before, after, length
    <2> QED BY <1>1, <1>3, <2>5
  <1> QED BY <1>5, <1>6

\* The properties of MediaCalls follow from the invariant.
LEMMA CallsProperties ==
    ASSUME CallTypeOK, CallsInv
    PROVE  NothingLeft /\ OutputWhole /\ OutputKept /\ CancelledUnpublished
  BY DEF CallTypeOK, CallsInv, CallInv, OutputInv, NothingLeft, CancelledUnpublished, Decided
=============================================================================

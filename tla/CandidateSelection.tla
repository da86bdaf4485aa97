------------------------- MODULE CandidateSelection -------------------------
(***************************************************************************)
(* Which candidate of one shot is selected: the requests select_candidate  *)
(* and reject_candidate, with their separate reads, and what a project     *)
(* render does to the same rows.  A SELECT opens no transaction, so a      *)
(* request works on rows loaded at different moments; its commit writes    *)
(* only the columns that differ from the copy it loaded.  A candidate      *)
(* stands for its last frame as well.                                      *)
(***************************************************************************)

EXTENDS Naturals

CONSTANTS Candidates,  \* identities of the candidate rows of the shot
          Clients,     \* concurrent HTTP requests that select or reject
          MaxEdits,    \* bound: how many such requests there are in all
          NoCandidate

ASSUME SelectionAssumption == NoCandidate \notin Candidates /\ MaxEdits \in Nat

VARIABLES shot,        \* its row: chosen (selected_candidate_id), ending (of the actual
                       \* frames) and rejected (rejected_candidate_ids)
          disposition, \* disposition[k]: of the candidate rows, "absent" before INSERT
          source,      \* continuity_source_frame_id of the shots connected to this one
          request,     \* request[c]: what the request has loaded, and what it does next
          edits,       \* requests begun so far
          stale        \* a selection was written from outdated copies, and none from
                       \* current ones since (history)

selectionVars == <<shot, disposition, source, request, edits, stale>>

Dispositions == {"pending", "selected", "superseded", "rejected"}

NewShot   == [chosen |-> NoCandidate, ending |-> NoCandidate, rejected |-> {}]
Unread    == [k \in Candidates |-> "absent"]
NoRequest == [at |-> "idle", candidate |-> NoCandidate, row |-> NewShot, seen |-> Unread]

Present  == {k \in Candidates : disposition[k] # "absent"}
Selected == {k \in Candidates : disposition[k] = "selected"}

SelectionInit ==
    /\ shot = NewShot
    /\ disposition = Unread
    /\ source = NoCandidate
    /\ request = [c \in Clients |-> NoRequest]
    /\ edits = 0
    /\ stale = FALSE

At(c, label)  == request[c].at = label
BeginEdit(c) == At(c, "idle") /\ edits < MaxEdits /\ edits' = edits + 1
Answered(c)  == request' = [request EXCEPT ![c] = NoRequest] /\ UNCHANGED edits
KeepRows     == UNCHANGED <<shot, disposition, source, stale>>

-----------------------------------------------------------------------------
(* select_candidate *)

\* require(db, Shot, shot_id)
BeginSelect(c, k) ==
    /\ BeginEdit(c)
    /\ k \in Present
    /\ request' = [request EXCEPT
           ![c] = [at |-> "candidate", candidate |-> k, row |-> shot, seen |-> Unread]]
    /\ KeepRows

\* require(db, Candidate, candidate_id)
LoadCandidate(c) ==
    /\ At(c, "candidate")
    /\ LET k == request[c].candidate IN
       request' = [request EXCEPT ![c].at = "siblings", ![c].seen[k] = disposition[k]]
    /\ KeepRows /\ UNCHANGED edits

\* shot.candidates; the candidate itself is in the session already.
LoadSiblings(c) ==
    /\ At(c, "siblings")
    /\ LET k == request[c].candidate IN
       request' = [request EXCEPT
           ![c].at = "selecting", ![c].seen = [disposition EXCEPT ![k] = request[c].seen[k]]]
    /\ KeepRows /\ UNCHANGED edits

\* The shot is no longer what the session loaded, or a candidate it loaded is not.
Outdated(c) ==
    \/ request[c].row.chosen # shot.chosen
    \/ request[c].row.ending # shot.ending
    \/ \E k \in Candidates : request[c].seen[k] \notin {"absent", disposition[k]}

\* Another candidate was selected that the session does not know.
Unseen(c) == \E k \in Selected : request[c].seen[k] = "absent"

\* A column keeps its value where the copy already has the new one.
Written(current, copy, new) == IF copy = new THEN current ELSE new

\* Faulty variant: the other candidates keep their dispositions.
DispositionsAfterSelect_Alone(c) ==
    [disposition EXCEPT ![request[c].candidate] = "selected"]

DispositionsAfterSelect(c) ==
    [k \in Candidates |->
        IF request[c].seen[k] = "absent" THEN disposition[k]
        ELSE Written(disposition[k], request[c].seen[k],
                     IF k = request[c].candidate THEN "selected" ELSE "rejected")]

\* Faulty variant: the connected shots are left alone.
CommitSelect_Unconnected(c) ==
    /\ At(c, "selecting")
    /\ LET k == request[c].candidate
           row == request[c].row IN
       /\ disposition' = DispositionsAfterSelect(c)
       /\ shot' = [shot EXCEPT !.chosen = Written(@, row.chosen, k),
                               !.ending = Written(@, row.ending, k)]
       /\ UNCHANGED source
    /\ stale' = (Outdated(c) \/ Unseen(c))
    /\ Answered(c)

\* The query for the connected shots flushes and so begins the transaction:
\* these rows are read in it, and written with the others by the commit.
CommitSelect(c) ==
    /\ At(c, "selecting")
    /\ LET k == request[c].candidate
           row == request[c].row IN
       /\ disposition' = DispositionsAfterSelect(c)
       /\ shot' = [shot EXCEPT !.chosen = Written(@, row.chosen, k),
                               !.ending = Written(@, row.ending, k)]
       /\ source' = k
    /\ stale' = (Outdated(c) \/ Unseen(c))
    /\ Answered(c)

-----------------------------------------------------------------------------
(* reject_candidate *)

\* require(db, Candidate, candidate_id)
BeginReject(c, k) ==
    /\ BeginEdit(c)
    /\ k \in Present
    /\ request' = [request EXCEPT
           ![c] = [NoRequest EXCEPT !.at = "shot", !.candidate = k, !.seen[k] = disposition[k]]]
    /\ KeepRows

\* Faulty variant: the list holds the last rejection only.
RejectedRow_ForgetsOthers(row, k) ==
    [shot EXCEPT !.rejected = {k},
                 !.chosen = IF row.chosen = k THEN NoCandidate ELSE @]

\* The shot after the handler worked on the copy row of it.
RejectedRow(row, k) ==
    [shot EXCEPT !.rejected = IF k \in row.rejected THEN @ ELSE row.rejected \cup {k},
                 !.chosen = IF row.chosen = k THEN NoCandidate ELSE @]

\* The changed disposition is flushed before the shot is loaded, which happens
\* in the transaction that is then committed.
RejectAtOnce(c) ==
    /\ At(c, "shot")
    /\ LET k == request[c].candidate IN
       /\ request[c].seen[k] # "rejected"
       /\ disposition' = [disposition EXCEPT ![k] = "rejected"]
       /\ shot' = RejectedRow(shot, k)
    /\ Answered(c)
    /\ UNCHANGED <<source, stale>>

\* A candidate that was rejected already changes nothing to flush.
LoadShot(c) ==
    /\ At(c, "shot")
    /\ request[c].seen[request[c].candidate] = "rejected"
    /\ request' = [request EXCEPT ![c].at = "rejecting", ![c].row = shot]
    /\ KeepRows /\ UNCHANGED edits

CommitReject(c) ==
    /\ At(c, "rejecting")
    /\ shot' = RejectedRow(request[c].row, request[c].candidate)
    /\ stale' = (stale \/ Outdated(c))
    /\ Answered(c)
    /\ UNCHANGED <<disposition, source>>

Select(c) == \/ \E k \in Candidates : BeginSelect(c, k)
             \/ LoadCandidate(c) \/ LoadSiblings(c) \/ CommitSelect(c)
Reject(c) == \/ \E k \in Candidates : BeginReject(c, k)
             \/ RejectAtOnce(c) \/ LoadShot(c) \/ CommitReject(c)

-----------------------------------------------------------------------------
(* The other writers of these rows *)

\* A project render commits its clip: the candidates to supersede were read in
\* the transaction.
SelectClip(k) ==
    /\ disposition' = [j \in Candidates |-> IF j = k THEN "selected"
                                            ELSE IF j \in Selected THEN "superseded"
                                            ELSE disposition[j]]
    /\ shot' = [shot EXCEPT !.chosen = k, !.ending = k]
    /\ stale' = FALSE
    /\ UNCHANGED <<source, request, edits>>

\* It reaches the connected shot, whose source becomes the frame of its own clip,
\* whichever candidate is selected by then.
ConnectClip(k) ==
    /\ source' = k
    /\ UNCHANGED <<shot, disposition, request, edits, stale>>

\* A regeneration adds an unselected candidate.
AddPending(k) ==
    /\ disposition' = [disposition EXCEPT ![k] = "pending"]
    /\ UNCHANGED <<shot, source, request, edits, stale>>

-----------------------------------------------------------------------------
(* Properties *)

SelectionTypeOK ==
    /\ shot \in [chosen : Candidates \cup {NoCandidate},
                 ending : Candidates \cup {NoCandidate},
                 rejected : SUBSET Candidates]
    /\ disposition \in [Candidates -> Dispositions \cup {"absent"}]
    /\ source \in Candidates \cup {NoCandidate}
    /\ request \in [Clients ->
           [at : {"idle", "candidate", "siblings", "selecting", "shot", "rejecting"},
            candidate : Candidates \cup {NoCandidate},
            row : [chosen : Candidates \cup {NoCandidate},
                   ending : Candidates \cup {NoCandidate},
                   rejected : SUBSET Candidates],
            seen : [Candidates -> Dispositions \cup {"absent"}]]]
    /\ edits \in 0 .. MaxEdits
    /\ stale \in BOOLEAN

\* The shot names the one candidate that is selected and shows its frames,
\* unless a selection was written from outdated copies; one selection that is
\* not disturbed, or a render, repairs what such a race left
\* (select_candidate, reject_candidate).
SelectionAgrees ==
    ~stale => /\ Selected = {shot.chosen} \ {NoCandidate}
              /\ shot.chosen # NoCandidate => shot.ending = shot.chosen

\* No rejection is forgotten but by a request that read the list before it
\* (rejected_candidate_ids is rewritten as a whole).
RejectionsKept ==
    [][\/ shot.rejected \subseteq shot'.rejected
       \/ \E c \in Clients : /\ At(c, "rejecting")
                             /\ request[c].row.rejected # shot.rejected
                             /\ request'[c] = NoRequest]_selectionVars
=============================================================================

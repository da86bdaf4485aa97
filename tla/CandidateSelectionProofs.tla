---------------------- MODULE CandidateSelectionProofs ----------------------
(***************************************************************************)
(* Lemmas about CandidateSelection: what the steps of a request, and the   *)
(* other writers of its rows, preserve, for any number of candidates and   *)
(* clients.  ShotRegenerationProofs puts them together.                    *)
(***************************************************************************)
EXTENDS CandidateSelection, TLAPS

\* Rows a request has seen exist, and so does the candidate it is about.
RequestInv(c) ==
    /\ \A k \in Candidates : request[c].seen[k] # "absent" => k \in Present
    /\ request[c].at # "idle" => request[c].candidate \in Present
    /\ request[c].at \in {"siblings", "selecting", "shot", "rejecting"}
           => request[c].seen[request[c].candidate] # "absent"
    /\ request[c].at = "rejecting" => request[c].seen[request[c].candidate] = "rejected"

RequestsInv == \A c \in Clients : RequestInv(c)

RequestType ==
    [at : {"idle", "candidate", "siblings", "selecting", "shot", "rejecting"},
     candidate : Candidates \cup {NoCandidate},
     row : [chosen : Candidates \cup {NoCandidate},
            ending : Candidates \cup {NoCandidate},
            rejected : SUBSET Candidates],
     seen : [Candidates -> Dispositions \cup {"absent"}]]

LEMMA SelectionInitType ==
    ASSUME SelectionAssumption, SelectionInit
    PROVE  SelectionTypeOK /\ RequestsInv
  <1> USE DEF SelectionInit, NewShot, Unread, NoRequest, Dispositions
  <1>1. SelectionTypeOK
    <2>1. edits \in 0 .. MaxEdits
      BY DEF SelectionAssumption
    <2>2. request \in [Clients -> RequestType]
      BY DEF RequestType
    <2>3. /\ shot \in [chosen : Candidates \cup {NoCandidate},
                       ending : Candidates \cup {NoCandidate},
                       rejected : SUBSET Candidates]
          /\ disposition \in [Candidates -> Dispositions \cup {"absent"}]
          /\ source \in Candidates \cup {NoCandidate}
          /\ stale \in BOOLEAN
      OBVIOUS
    <2> QED BY <2>1, <2>2, <2>3 DEF SelectionTypeOK, RequestType
  <1>2. RequestsInv
    BY DEF RequestsInv, RequestInv
  <1> QED BY <1>1, <1>2

-----------------------------------------------------------------------------
(* The dispositions and the shot a commit writes *)

LEMMA SelectDispositions ==
    ASSUME SelectionTypeOK, RequestsInv, NEW c \in Clients
    PROVE  /\ DispositionsAfterSelect(c) \in [Candidates -> Dispositions \cup {"absent"}]
           /\ \A k \in Candidates : DispositionsAfterSelect(c)[k] = "absent" <=> disposition[k] = "absent"
  BY DEF SelectionTypeOK, RequestsInv, RequestInv, Present, DispositionsAfterSelect, Written,
         Dispositions

LEMMA RejectedRowType ==
    ASSUME SelectionTypeOK, NEW k \in Candidates,
           NEW row \in [chosen : Candidates \cup {NoCandidate},
                        ending : Candidates \cup {NoCandidate},
                        rejected : SUBSET Candidates]
    PROVE  RejectedRow(row, k) \in [chosen : Candidates \cup {NoCandidate},
                                    ending : Candidates \cup {NoCandidate},
                                    rejected : SUBSET Candidates]
  BY DEF SelectionTypeOK, RejectedRow

-----------------------------------------------------------------------------
(* The steps of a request *)

\* A step of a request changes its own record only: to one of the right type
\* that has seen present rows, or to the empty one after a commit.
LEMMA EditRequest ==
    ASSUME SelectionTypeOK, RequestsInv, NEW c \in Clients, Select(c) \/ Reject(c)
    PROVE  \E q \in RequestType :
               /\ request' = [request EXCEPT ![c] = q]
               /\ \A k \in Candidates : q.seen[k] # "absent" => k \in Present
               /\ q.at # "idle" => q.candidate \in Present
               /\ q.at \in {"siblings", "selecting", "shot", "rejecting"}
                      => q.seen[q.candidate] # "absent"
               /\ q.at = "rejecting" => q.seen[q.candidate] = "rejected"
  <1> DEFINE Good(q) ==
                 /\ \A k \in Candidates : q.seen[k] # "absent" => k \in Present
                 /\ q.at # "idle" => q.candidate \in Present
                 /\ q.at \in {"siblings", "selecting", "shot", "rejecting"}
                        => q.seen[q.candidate] # "absent"
                 /\ q.at = "rejecting" => q.seen[q.candidate] = "rejected"
             old == request[c]
  <1> USE DEF RequestType, Present, Dispositions, Unread, NoRequest, NewShot, At
  <1>1. ASSUME NEW k \in Candidates, BeginSelect(c, k) \/ BeginReject(c, k)
        PROVE  \E q \in RequestType : request' = [request EXCEPT ![c] = q] /\ Good(q)
    <2> DEFINE q1 == [at |-> "candidate", candidate |-> k, row |-> shot, seen |-> Unread]
               q2 == [NoRequest EXCEPT !.at = "shot", !.candidate = k, !.seen[k] = disposition[k]]
    <2>1. q1 \in RequestType /\ (k \in Present => Good(q1))
      BY DEF SelectionTypeOK
    <2>2. q2 \in RequestType /\ (k \in Present => Good(q2))
      BY DEF SelectionTypeOK
    <2>3. \/ request' = [request EXCEPT ![c] = q1]
          \/ request' = [request EXCEPT ![c] = q2]
      BY <1>1 DEF BeginSelect, BeginReject
    <2>4. k \in Present
      BY <1>1 DEF BeginSelect, BeginReject
    <2> HIDE DEF q1, q2, Good
    <2> QED BY <2>1, <2>2, <2>3, <2>4
  <1>2. old \in RequestType /\ Good(old)
    BY DEF SelectionTypeOK, RequestsInv, RequestInv
  <1>3. ASSUME LoadCandidate(c)
        PROVE  \E q \in RequestType : request' = [request EXCEPT ![c] = q] /\ Good(q)
    <2> DEFINE k == old.candidate
               q == [old EXCEPT !.at = "siblings", !.seen[k] = disposition[k]]
    <2>1. k \in Present /\ k \in Candidates
      BY <1>2, <1>3 DEF LoadCandidate
    <2>2. q \in RequestType /\ Good(q)
      BY <1>2, <2>1 DEF SelectionTypeOK
    <2>3. request' = [request EXCEPT ![c] = q]
      BY <1>2, <1>3 DEF LoadCandidate, SelectionTypeOK
    <2> HIDE DEF q, Good
    <2> QED BY <2>2, <2>3
  <1>4. ASSUME LoadSiblings(c)
        PROVE  \E q \in RequestType : request' = [request EXCEPT ![c] = q] /\ Good(q)
    <2> DEFINE k == old.candidate
               q == [old EXCEPT !.at = "selecting",
                                !.seen = [disposition EXCEPT ![k] = old.seen[k]]]
    <2>1. k \in Present /\ k \in Candidates
      BY <1>2, <1>4 DEF LoadSiblings
    <2>2. q \in RequestType /\ Good(q)
      BY <1>2, <1>4, <2>1 DEF SelectionTypeOK, LoadSiblings
    <2>3. request' = [request EXCEPT ![c] = q]
      BY <1>2, <1>4 DEF LoadSiblings, SelectionTypeOK
    <2> HIDE DEF q, Good
    <2> QED BY <2>2, <2>3
  <1>5. ASSUME LoadShot(c)
        PROVE  \E q \in RequestType : request' = [request EXCEPT ![c] = q] /\ Good(q)
    <2> DEFINE q == [old EXCEPT !.at = "rejecting", !.row = shot]
    <2>1. q \in RequestType /\ Good(q)
      BY <1>2, <1>5 DEF SelectionTypeOK, LoadShot
    <2>2. request' = [request EXCEPT ![c] = q]
      BY <1>2, <1>5 DEF LoadShot, SelectionTypeOK
    <2> HIDE DEF q, Good
    <2> QED BY <2>1, <2>2
  <1>6. ASSUME CommitSelect(c) \/ RejectAtOnce(c) \/ CommitReject(c)
        PROVE  \E q \in RequestType : request' = [request EXCEPT ![c] = q] /\ Good(q)
    <2>1. request' = [request EXCEPT ![c] = NoRequest]
      BY <1>6 DEF CommitSelect, RejectAtOnce, CommitReject, Answered
    <2>2. NoRequest \in RequestType /\ Good(NoRequest)
      OBVIOUS
    <2> HIDE DEF Good
    <2> QED BY <2>1, <2>2
  <1> HIDE DEF Good
  <1>7. \E q \in RequestType : request' = [request EXCEPT ![c] = q] /\ Good(q)
    BY <1>1, <1>3, <1>4, <1>5, <1>6 DEF Select, Reject
  <1> QED BY <1>7 DEF Good

\* The rows after the step of a request: no candidate appears or disappears.
LEMMA EditRows ==
    ASSUME SelectionAssumption, SelectionTypeOK, RequestsInv, NEW c \in Clients,
           Select(c) \/ Reject(c)
    PROVE  /\ shot' \in [chosen : Candidates \cup {NoCandidate},
                         ending : Candidates \cup {NoCandidate},
                         rejected : SUBSET Candidates]
           /\ disposition' \in [Candidates -> Dispositions \cup {"absent"}]
           /\ Present' = Present
           /\ source' \in Candidates \cup {NoCandidate}
           /\ edits' \in 0 .. MaxEdits
           /\ stale' \in BOOLEAN
  <1> DEFINE k == request[c].candidate
             ShotType == [chosen : Candidates \cup {NoCandidate},
                          ending : Candidates \cup {NoCandidate},
                          rejected : SUBSET Candidates]
  <1>1. CASE KeepRows
    <2>1. BeginEdit(c) \/ UNCHANGED edits
      BY DEF Select, Reject, BeginSelect, BeginReject, LoadCandidate, LoadSiblings, LoadShot,
             CommitSelect, RejectAtOnce, CommitReject, Answered
    <2>2. edits' \in 0 .. MaxEdits
      BY <2>1 DEF SelectionAssumption, SelectionTypeOK, BeginEdit
    <2> QED BY <1>1, <2>2 DEF KeepRows, SelectionTypeOK, Present
  <1>2. CASE CommitSelect(c)
    <2>1. k \in Candidates /\ request[c].row \in ShotType
      BY <1>2 DEF SelectionTypeOK, RequestsInv, RequestInv, CommitSelect, At, Present
    <2>2. shot' \in ShotType /\ source' \in Candidates \cup {NoCandidate}
      BY <1>2, <2>1 DEF SelectionTypeOK, CommitSelect, Written
    <2>3. disposition' = DispositionsAfterSelect(c)
      BY <1>2 DEF CommitSelect
    <2>4. disposition' \in [Candidates -> Dispositions \cup {"absent"}] /\ Present' = Present
      BY <2>3, SelectDispositions DEF Present
    <2>5. edits' = edits
      BY <1>2 DEF CommitSelect, Answered
    <2>6. stale' \in BOOLEAN
      BY <1>2, Zenon DEF CommitSelect, Outdated, Unseen
    <2> QED BY <2>2, <2>4, <2>5, <2>6 DEF SelectionTypeOK
  <1>3. CASE RejectAtOnce(c)
    <2>1. k \in Present /\ k \in Candidates
      BY <1>3 DEF SelectionTypeOK, RequestsInv, RequestInv, RejectAtOnce, At, Present
    <2>2. shot' = RejectedRow(shot, k) /\ shot \in ShotType
      BY <1>3 DEF RejectAtOnce, SelectionTypeOK
    <2>3. shot' \in ShotType
      BY <2>1, <2>2, RejectedRowType
    <2>4. disposition' = [disposition EXCEPT ![k] = "rejected"]
      BY <1>3 DEF RejectAtOnce
    <2>5. disposition' \in [Candidates -> Dispositions \cup {"absent"}] /\ Present' = Present
      BY <2>1, <2>4 DEF SelectionTypeOK, Present, Dispositions
    <2> QED BY <1>3, <2>3, <2>5 DEF SelectionTypeOK, RejectAtOnce, Answered
  <1>4. CASE CommitReject(c)
    <2>1. k \in Candidates /\ request[c].row \in ShotType
      BY <1>4 DEF SelectionTypeOK, RequestsInv, RequestInv, CommitReject, At, Present
    <2>2. shot' = RejectedRow(request[c].row, k)
      BY <1>4 DEF CommitReject
    <2>3. shot' \in ShotType
      BY <2>1, <2>2, RejectedRowType
    <2>4. stale' \in BOOLEAN
      BY <1>4, Zenon DEF CommitReject, Outdated, SelectionTypeOK
    <2> QED BY <1>4, <2>3, <2>4 DEF SelectionTypeOK, CommitReject, Answered, Present
  <1> QED
    BY <1>1, <1>2, <1>3, <1>4 DEF Select, Reject, BeginSelect, BeginReject, LoadCandidate,
       LoadSiblings, LoadShot

LEMMA EditType ==
    ASSUME SelectionAssumption, SelectionTypeOK, RequestsInv, NEW c \in Clients,
           Select(c) \/ Reject(c)
    PROVE  SelectionTypeOK' /\ RequestsInv'
  <1>1. PICK q \in RequestType :
            /\ request' = [request EXCEPT ![c] = q]
            /\ \A k \in Candidates : q.seen[k] # "absent" => k \in Present
            /\ q.at # "idle" => q.candidate \in Present
            /\ q.at \in {"siblings", "selecting", "shot", "rejecting"}
                   => q.seen[q.candidate] # "absent"
            /\ q.at = "rejecting" => q.seen[q.candidate] = "rejected"
    BY EditRequest
  <1>2. request \in [Clients -> RequestType]
    BY DEF SelectionTypeOK, RequestType
  <1>3. request' \in [Clients -> RequestType]
    BY <1>1, <1>2
  <1>4. SelectionTypeOK'
    BY <1>3, EditRows DEF SelectionTypeOK, RequestType
  <1>5. ASSUME NEW d \in Clients PROVE RequestInv(d)'
    <2>1. Present' = Present
      BY EditRows
    <2> HIDE DEF Present
    <2>2. CASE d = c
      BY <1>1, <1>2, <2>1, <2>2 DEF RequestInv
    <2>3. CASE d # c
      BY <1>1, <1>2, <2>1, <2>3 DEF RequestsInv, RequestInv
    <2> QED BY <2>2, <2>3
  <1> QED BY <1>4, <1>5 DEF RequestsInv

-----------------------------------------------------------------------------
(* What the steps of a request keep true of the rows *)

\* A selection from current copies selects its candidate and no other; the
\* rejection of a candidate takes it off the shot as well.
LEMMA EditAgrees ==
    ASSUME SelectionAssumption, SelectionTypeOK, RequestsInv, SelectionAgrees,
           NEW c \in Clients, Select(c) \/ Reject(c)
    PROVE  SelectionAgrees'
  <1> DEFINE k == request[c].candidate
  <1>1. CASE KeepRows
    BY <1>1 DEF KeepRows, SelectionAgrees, Selected
  <1>2. CASE CommitSelect(c)
    <2>1. SUFFICES ASSUME ~stale' PROVE Selected' = {k} /\ shot'.chosen = k /\ shot'.ending = k
                                        /\ k # NoCandidate
      BY DEF SelectionAgrees
    <2>2. ~Outdated(c) /\ ~Unseen(c)
      BY <1>2, <2>1 DEF CommitSelect
    <2>3. k \in Candidates /\ k # NoCandidate /\ request[c].seen[k] # "absent"
      BY <1>2 DEF SelectionAssumption, SelectionTypeOK, RequestsInv, RequestInv, CommitSelect, At, Present
    <2>4. shot'.chosen = k /\ shot'.ending = k
      BY <1>2, <2>2 DEF CommitSelect, Outdated, Written, SelectionTypeOK
    <2>5. disposition' = DispositionsAfterSelect(c)
      BY <1>2 DEF CommitSelect
    <2>6. ASSUME NEW j \in Candidates
          PROVE  DispositionsAfterSelect(c)[j] = "selected" <=> j = k
      <3>1. CASE request[c].seen[j] = "absent"
        BY <2>2, <2>3, <3>1 DEF DispositionsAfterSelect, Unseen, Selected
      <3>2. CASE request[c].seen[j] # "absent"
        BY <2>2, <3>2 DEF DispositionsAfterSelect, Outdated, Written
      <3> QED BY <3>1, <3>2
    <2> QED BY <2>3, <2>4, <2>5, <2>6 DEF Selected
  <1>3. CASE RejectAtOnce(c)
    <2>1. k \in Candidates
      BY <1>3 DEF SelectionTypeOK, RequestsInv, RequestInv, RejectAtOnce, At, Present
    <2>2. /\ shot' = [shot EXCEPT !.rejected = shot'.rejected,
                                  !.chosen = IF shot.chosen = k THEN NoCandidate ELSE @]
          /\ disposition' = [disposition EXCEPT ![k] = "rejected"]
          /\ stale' = stale
      BY <1>3 DEF RejectAtOnce, RejectedRow, SelectionTypeOK
    <2>3. Selected' = Selected \ {k}
      BY <2>1, <2>2 DEF Selected, SelectionTypeOK
    <2>4. shot'.chosen = (IF shot.chosen = k THEN NoCandidate ELSE shot.chosen) /\ shot'.ending = shot.ending
      BY <2>2 DEF SelectionTypeOK
    <2> HIDE DEF Selected
    <2> QED BY <2>1, <2>2, <2>3, <2>4 DEF SelectionAgrees, SelectionAssumption
  <1>4. CASE CommitReject(c)
    <2>1. SUFFICES ASSUME ~stale' PROVE Selected' = Selected /\ shot'.chosen = shot.chosen
                                        /\ shot'.ending = shot.ending /\ ~stale
      BY DEF SelectionAgrees
    <2>2. ~stale /\ ~Outdated(c) /\ UNCHANGED disposition
      BY <1>4, <2>1 DEF CommitReject
    <2>3. k \in Candidates /\ request[c].seen[k] = "rejected"
      BY <1>4 DEF SelectionTypeOK, RequestsInv, RequestInv, CommitReject, At, Present
    <2>4. disposition[k] = "rejected" /\ request[c].row.chosen = shot.chosen
      BY <2>2, <2>3 DEF Outdated
    <2>5. shot.chosen # k
      BY <2>2, <2>3, <2>4 DEF SelectionAgrees, SelectionAssumption, Selected
    <2> QED BY <1>4, <2>2, <2>4, <2>5 DEF CommitReject, RejectedRow, SelectionTypeOK, Selected
  <1> QED
    BY <1>1, <1>2, <1>3, <1>4 DEF Select, Reject, BeginSelect, BeginReject, LoadCandidate,
       LoadSiblings, LoadShot

\* A selection from current copies makes the connected shots follow; other
\* steps leave them alone and change the selection only to none.
LEMMA EditFollow ==
    ASSUME SelectionTypeOK, NEW c \in Clients, Select(c) \/ Reject(c), ~stale'
    PROVE  \/ At(c, "selecting") /\ shot'.chosen = source'
           \/ /\ ~At(c, "selecting") /\ source' = source /\ ~stale
              /\ shot'.chosen \in {shot.chosen, NoCandidate}
  <1> USE DEF At
  <1>1. CASE \/ \E k \in Candidates : BeginSelect(c, k) \/ BeginReject(c, k)
             \/ LoadCandidate(c) \/ LoadSiblings(c) \/ LoadShot(c)
    <2>1. KeepRows /\ request[c].at # "selecting"
      BY <1>1 DEF BeginSelect, BeginReject, BeginEdit, LoadCandidate, LoadSiblings, LoadShot
    <2> QED BY <2>1 DEF KeepRows
  <1>2. CASE CommitSelect(c)
    BY <1>2 DEF CommitSelect, Outdated, Written, SelectionTypeOK
  <1>3. CASE RejectAtOnce(c)
    BY <1>3 DEF RejectAtOnce, RejectedRow, SelectionTypeOK
  <1>4. CASE CommitReject(c)
    BY <1>4 DEF CommitReject, Outdated, RejectedRow, SelectionTypeOK
  <1> QED
    BY <1>1, <1>2, <1>3, <1>4 DEF Select, Reject

\* The step of RejectionsKept.
KeepsRejections ==
    \/ shot.rejected \subseteq shot'.rejected
    \/ \E c \in Clients : /\ At(c, "rejecting")
                          /\ request[c].row.rejected # shot.rejected
                          /\ request'[c] = NoRequest

LEMMA EditRejections ==
    ASSUME SelectionTypeOK, NEW c \in Clients, Select(c) \/ Reject(c)
    PROVE  KeepsRejections
  <1>1. CASE KeepRows
    BY <1>1 DEF KeepRows, KeepsRejections
  <1>2. CASE CommitSelect(c)
    BY <1>2 DEF CommitSelect, SelectionTypeOK, KeepsRejections
  <1>3. CASE RejectAtOnce(c)
    BY <1>3 DEF RejectAtOnce, RejectedRow, SelectionTypeOK, KeepsRejections
  <1>4. CASE CommitReject(c)
    <2>1. At(c, "rejecting") /\ request'[c] = NoRequest
      BY <1>4 DEF CommitReject, Answered, SelectionTypeOK
    <2>2. request[c].row.rejected = shot.rejected => shot.rejected \subseteq shot'.rejected
      BY <1>4 DEF CommitReject, RejectedRow, SelectionTypeOK
    <2> QED BY <2>1, <2>2 DEF KeepsRejections
  <1> QED
    BY <1>1, <1>2, <1>3, <1>4 DEF Select, Reject, BeginSelect, BeginReject, LoadCandidate,
       LoadSiblings, LoadShot

-----------------------------------------------------------------------------
(* The other writers *)

\* Project renders and regenerations add their own candidate and lose none.
LEMMA WriterType ==
    ASSUME SelectionTypeOK, RequestsInv, NEW k \in Candidates,
           SelectClip(k) \/ AddPending(k)
    PROVE  SelectionTypeOK' /\ RequestsInv' /\ Present' = Present \cup {k}
  <1>1. disposition' \in [Candidates -> Dispositions \cup {"absent"}]
    BY DEF SelectionTypeOK, SelectClip, AddPending, Dispositions
  <1>2. Present' = Present \cup {k}
    BY DEF SelectionTypeOK, SelectClip, AddPending, Present, Selected
  <1>3. request' = request /\ edits' = edits /\ source' = source
    BY DEF SelectClip, AddPending
  <1>4. SelectionTypeOK'
    BY <1>1, <1>3 DEF SelectionTypeOK, SelectClip, AddPending
  <1> HIDE DEF Present
  <1>5. RequestsInv'
    BY <1>2, <1>3 DEF RequestsInv, RequestInv
  <1> QED BY <1>2, <1>4, <1>5

LEMMA WriterAgrees ==
    ASSUME SelectionTypeOK, SelectionAgrees, SelectionAssumption, NEW k \in Candidates,
           SelectClip(k) \/ (AddPending(k) /\ k \notin Present)
    PROVE  SelectionAgrees'
  <1>1. CASE SelectClip(k)
    <2>1. Selected' = {k}
      BY <1>1 DEF SelectionTypeOK, SelectClip, Selected
    <2> QED BY <1>1, <2>1 DEF SelectionTypeOK, SelectClip, SelectionAgrees, SelectionAssumption
  <1>2. CASE AddPending(k) /\ k \notin Present
    <2>1. Selected' = Selected
      BY <1>2 DEF SelectionTypeOK, AddPending, Selected, Present
    <2> QED BY <1>2, <2>1 DEF AddPending, SelectionAgrees
  <1> QED BY <1>1, <1>2

LEMMA ConnectType ==
    ASSUME SelectionTypeOK, RequestsInv, SelectionAgrees, NEW k \in Candidates, ConnectClip(k)
    PROVE  SelectionTypeOK' /\ RequestsInv' /\ SelectionAgrees' /\ Present' = Present
  BY DEF SelectionTypeOK, ConnectClip, RequestsInv, RequestInv, Present, SelectionAgrees, Selected
=============================================================================

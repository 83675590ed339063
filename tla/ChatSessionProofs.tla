-------------------------- MODULE ChatSessionProofs --------------------------
(***************************************************************************)
(* Proofs about ChatSession, for any number of operations on a session and *)
(* any thresholds of its compaction.  Every step that writes the file is   *)
(* first shown to extend it; what is promised follows from extensions.     *)
(* The second half is about a file that can be written: nothing posted is  *)
(* lost or doubled, and approved plans are what is executed.               *)
(***************************************************************************)
EXTENDS ChatSession, FiniteSetTheorems, TLAPS

\* What a block under the lock hands to save_brainstorm: the session it read
\* with at most one more message and one more round, the next one, and the
\* index no further back, over messages that a compaction took or passed over.
Extension(s) ==
    /\ s \in Sessions
    /\ s.revision = session.revision
    /\ \/ s.messages = session.messages
       \/ \E m \in MessageSet : s.messages = Append(session.messages, m)
    /\ \/ s.rounds = session.rounds
       \/ \E a \in Ops :
             s.rounds = Append(session.rounds, [by |-> a, number |-> Len(session.rounds) + 1])
    /\ s.compacted \in session.compacted .. Len(session.messages)
    /\ session.covered \subseteq s.covered /\ session.omitted \subseteq s.omitted
    /\ \A i \in session.compacted + 1 .. s.compacted :
          Eligible(session.messages[i]) => i \in s.covered \cup s.omitted
    /\ IsFiniteSet(session.covered) =>
          /\ IsFiniteSet(s.covered)
          /\ \A i \in s.omitted \ session.omitted :
                Cardinality({j \in s.covered : j > i}) >= Fits

\* Each operation keeps what it read, reads the file anew, or forgets it.
ReadsOf(o) ==
    \/ snap'[o] = snap[o]
    \/ snap'[o] = session
    \/ snap'[o] = NewSession

-----------------------------------------------------------------------------
(* The inductive invariant                                                 *)

\* A revision never written again stands for one content.
Fresh ==
    /\ session.revision >= 1
    /\ session.revision = 1 => session = NewSession
    /\ \A o \in Ops :
          /\ snap[o].revision <= session.revision
          /\ snap[o].revision = session.revision => snap[o] = session

\* The index stays inside the session.
Indexed == session.compacted <= Len(session.messages)

\* Rounds are never taken back.
Growing == \A o \in Ops : Len(snap[o].rounds) <= Len(session.rounds)

\* A compaction under way was asked for by the snapshot it summarises.
Summarising == \A o \in Ops : At(o, "summarising") => Compactable(snap[o])

\* What went through a compaction can be counted.
Countable == IsFiniteSet(session.covered)

SessionInv ==
    /\ SessionTypeOK /\ Fresh /\ Indexed /\ Growing
    /\ Summarising /\ Countable /\ SummaryCovers

-----------------------------------------------------------------------------

LEMMA NewSessionType == NewSession \in Sessions
<1>1. <<[by |-> None, kind |-> "system"]>> \in Seq(MessageSet)
  BY DEF MessageSet, Kinds
<1>2. <<>> \in Seq(RoundSet)
  OBVIOUS
<1> QED BY <1>1, <1>2 DEF NewSession, Sessions, SessionStatuses, NoPlan

LEMMA SayingType ==
  ASSUME NEW s \in Sessions, NEW o \in Ops, NEW kind \in Kinds
  PROVE  /\ Saying(s, o, kind) \in Sessions
         /\ [by |-> o, kind |-> kind] \in MessageSet
<1>1. [by |-> o, kind |-> kind] \in MessageSet
  BY DEF MessageSet
<1>2. Append(s.messages, [by |-> o, kind |-> kind]) \in Seq(MessageSet)
  BY <1>1 DEF Sessions
<1> QED BY <1>1, <1>2 DEF Saying, Sessions

\* The session itself, and the session with a message, extend it.
LEMMA SameExtends ==
  ASSUME SessionTypeOK, Indexed
  PROVE  Extension(session)
  BY DEF Extension, SessionTypeOK, Sessions, Indexed

LEMMA SayingExtends ==
  ASSUME NEW s, Extension(s), s.messages = session.messages, NEW o \in Ops, NEW kind \in Kinds
  PROVE  Extension(Saying(s, o, kind))
<1>1. s \in Sessions
  BY DEF Extension
<1>2. Saying(s, o, kind) \in Sessions /\ [by |-> o, kind |-> kind] \in MessageSet
  BY <1>1, SayingType
<1>3. /\ Saying(s, o, kind).revision = s.revision
      /\ Saying(s, o, kind).messages = Append(session.messages, [by |-> o, kind |-> kind])
      /\ Saying(s, o, kind).rounds = s.rounds
      /\ Saying(s, o, kind).compacted = s.compacted
      /\ Saying(s, o, kind).covered = s.covered
      /\ Saying(s, o, kind).omitted = s.omitted
  BY <1>1 DEF Saying, Sessions
<1> QED BY <1>2, <1>3 DEF Extension

LEMMA MergingExtends ==
  ASSUME SessionTypeOK, Indexed, NEW o \in Ops, NEW kind \in Kinds
  PROVE  Extension(Merging(session, o, kind))
  BY SameExtends, SayingExtends DEF Merging

\* A session that differs in its status or plan extends it.
LEMMA StatusExtends ==
  ASSUME SessionTypeOK, Indexed, NEW status \in SessionStatuses
  PROVE  LET s == [session EXCEPT !.status = status]
         IN  Extension(s) /\ s.messages = session.messages
<1> DEFINE s == [session EXCEPT !.status = status]
<1>1. session \in Sessions
  BY DEF SessionTypeOK
<1>2. s \in Sessions
  BY <1>1 DEF Sessions
<1>3. /\ s.revision = session.revision /\ s.messages = session.messages
      /\ s.rounds = session.rounds /\ s.compacted = session.compacted
      /\ s.covered = session.covered /\ s.omitted = session.omitted
  BY <1>1 DEF Sessions
<1>4. session.compacted \in session.compacted .. Len(session.messages)
  BY <1>1 DEF Sessions, Indexed
<1>5. session.compacted + 1 .. session.compacted = {}
  BY <1>1 DEF Sessions
<1> QED BY <1>2, <1>3, <1>4, <1>5 DEF Extension

LEMMA PlanExtends ==
  ASSUME SessionTypeOK, Indexed
  PROVE  LET s == [session EXCEPT !.status = "approved", !.plan = Len(session.rounds)]
         IN  Extension(s) /\ s.messages = session.messages
<1> DEFINE s == [session EXCEPT !.status = "approved", !.plan = Len(session.rounds)]
<1>1. session \in Sessions
  BY DEF SessionTypeOK
<1>2. s \in Sessions
  <2>1. Len(session.rounds) \in Nat \cup {NoPlan} /\ "approved" \in SessionStatuses
    BY <1>1 DEF Sessions, SessionStatuses
  <2> HIDE DEF SessionStatuses
  <2> QED BY <1>1, <2>1 DEF Sessions
<1>3. /\ s.revision = session.revision /\ s.messages = session.messages
      /\ s.rounds = session.rounds /\ s.compacted = session.compacted
      /\ s.covered = session.covered /\ s.omitted = session.omitted
  BY <1>1 DEF Sessions
<1>4. session.compacted \in session.compacted .. Len(session.messages)
  BY <1>1 DEF Sessions, Indexed
<1>5. session.compacted + 1 .. session.compacted = {}
  BY <1>1 DEF Sessions
<1> QED BY <1>2, <1>3, <1>4, <1>5 DEF Extension

\* A round is recorded under the number it was started with.
LEMMA RoundExtends ==
  ASSUME SessionTypeOK, Indexed, NEW o \in Ops,
         NEW n \in Nat, n = Len(session.rounds) + 1
  PROVE  LET s == [session EXCEPT !.rounds = Append(@, [by |-> o, number |-> n])]
         IN  Extension(s) /\ s.messages = session.messages
<1> DEFINE s == [session EXCEPT !.rounds = Append(@, [by |-> o, number |-> n])]
<1>1. session \in Sessions
  BY DEF SessionTypeOK
<1>2. [by |-> o, number |-> n] \in RoundSet
  BY <1>1 DEF RoundSet, Sessions
<1>3. Append(session.rounds, [by |-> o, number |-> n]) \in Seq(RoundSet)
  BY <1>1, <1>2 DEF Sessions
<1>4. s \in Sessions
  BY <1>1, <1>3 DEF Sessions
<1>5. /\ s.revision = session.revision /\ s.messages = session.messages
      /\ s.rounds = Append(session.rounds, [by |-> o, number |-> Len(session.rounds) + 1])
      /\ s.compacted = session.compacted /\ s.covered = session.covered
      /\ s.omitted = session.omitted
  BY <1>1 DEF Sessions
<1>6. session.compacted \in session.compacted .. Len(session.messages)
  BY <1>1 DEF Sessions, Indexed
<1>7. session.compacted + 1 .. session.compacted = {}
  BY <1>1 DEF Sessions
<1> QED BY <1>4, <1>5, <1>6, <1>7 DEF Extension

\* The text of a compaction is a part of the batch, and if it is not all of it,
\* what it leaves out is older than Fits messages that it holds.
LEMMA TextOfBatch ==
  ASSUME NEW s \in Sessions, NEW text \in Texts(s)
  PROVE  /\ text \subseteq Batch(s) /\ IsFiniteSet(text)
         /\ \A i \in Batch(s) \ text :
               Cardinality(text) >= Fits /\ \A j \in text : j > i
<1>1. Len(s.messages) \in Nat /\ s.compacted \in Nat
  BY DEF Sessions
<1>2. Batch(s) \subseteq 1 .. Len(s.messages)
  BY <1>1, ChatSessionAssumption DEF Batch
<1>3. text \subseteq Batch(s)
  BY DEF Texts
<1>4. IsFiniteSet(1 .. Len(s.messages))
  BY <1>1, FS_Interval
<1>5. IsFiniteSet(text)
  BY <1>2, <1>3, <1>4, FS_Subset
<1>6. ASSUME NEW i \in Batch(s) \ text
      PROVE  Cardinality(text) >= Fits /\ \A j \in text : j > i
  <2>1. PICK first \in Batch(s) : text = {j \in Batch(s) : j >= first}
    BY <1>6 DEF Texts
  <2>2. Cardinality(text) >= Fits
    BY <1>6 DEF Texts
  <2>3. first \in Nat /\ Batch(s) \subseteq Nat /\ ~(i >= first)
    BY <1>2, <1>6, <2>1
  <2> QED BY <1>2, <2>1, <2>2, <2>3
<1> QED BY <1>3, <1>5, <1>6

\* The file as a compaction of what o read hands it to save_brainstorm.
CompactedBy(o, text) ==
    [session EXCEPT !.compacted = Len(snap[o].messages) - KeepRecent,
                    !.covered = @ \cup text,
                    !.omitted = @ \cup (Batch(snap[o]) \ text)]

\* The comparison of revisions makes the batch of the snapshot the batch of
\* the file.
LEMMA CompactionExtends ==
  ASSUME SessionTypeOK, Fresh, Indexed, NEW o \in Ops, NEW text \in Texts(snap[o]),
         Compactable(snap[o]), session.revision = snap[o].revision
  PROVE  /\ Extension(CompactedBy(o, text))
         /\ CompactedBy(o, text).messages = session.messages
<1> DEFINE s == CompactedBy(o, text)
           out == Batch(session) \ text
<1>1. snap[o] = session /\ session \in Sessions
  BY DEF Fresh, SessionTypeOK
<1>2. Len(session.messages) \in Nat /\ session.compacted \in Nat
  BY <1>1 DEF Sessions
<1>3. /\ Len(session.messages) - KeepRecent \in Nat
      /\ Len(session.messages) - KeepRecent >= session.compacted
      /\ Len(session.messages) - KeepRecent <= Len(session.messages)
  BY <1>1, <1>2, ChatSessionAssumption DEF Compactable
<1>4. Batch(session) \in SUBSET Nat
  BY <1>2, ChatSessionAssumption DEF Batch
<1>5. /\ text \subseteq Batch(session) /\ IsFiniteSet(text)
      /\ \A i \in out : Cardinality(text) >= Fits /\ \A j \in text : j > i
  BY <1>1, TextOfBatch
<1>6. session.covered \cup text \in SUBSET Nat /\ session.omitted \cup out \in SUBSET Nat
  BY <1>1, <1>4, <1>5 DEF Sessions
<1>7. /\ s.compacted = Len(session.messages) - KeepRecent
      /\ s.covered = session.covered \cup text
      /\ s.omitted = session.omitted \cup out
      /\ s.revision = session.revision /\ s.messages = session.messages
      /\ s.rounds = session.rounds
  BY <1>1 DEF Sessions, CompactedBy
<1>8. s \in Sessions
  <2> HIDE DEF out
  <2> QED BY <1>1, <1>3, <1>6 DEF Sessions, CompactedBy, out
<1>9. \A i \in session.compacted + 1 .. s.compacted :
        Eligible(session.messages[i]) => i \in s.covered \cup s.omitted
  BY <1>7 DEF Batch
<1>10. IsFiniteSet(session.covered) => IsFiniteSet(s.covered)
  BY <1>5, <1>7, FS_Union
<1>11. ASSUME IsFiniteSet(session.covered), NEW i \in s.omitted \ session.omitted
       PROVE  Cardinality({j \in s.covered : j > i}) >= Fits
  <2>1. i \in out /\ text \subseteq {j \in s.covered : j > i}
    BY <1>5, <1>7, <1>11
  <2>2. IsFiniteSet({j \in s.covered : j > i})
    BY <1>10, <1>11, FS_Subset
  <2>3. Cardinality(text) <= Cardinality({j \in s.covered : j > i})
    BY <2>1, <2>2, FS_Subset
  <2>4. Cardinality(text) \in Nat /\ Cardinality({j \in s.covered : j > i}) \in Nat
    BY <1>5, <2>2, FS_CardinalityType
  <2> QED BY <1>5, <2>1, <2>3, <2>4, ChatSessionAssumption
<1> HIDE DEF s
<1> QED BY <1>1, <1>2, <1>3, <1>7, <1>8, <1>9, <1>10, <1>11 DEF Extension, s

-----------------------------------------------------------------------------
(* The steps                                                               *)

\* The file after a step: as before, or an extension saved.
Writes ==
    \/ session' = session
    \/ \E s \in Sessions : Extension(s) /\ session' = [s EXCEPT !.revision = @ + 1]

LEMMA SaveWrites ==
  ASSUME NEW s, Extension(s), Save(s)
  PROVE  Writes
  BY DEF Save, Writes, Extension

LEMMA CallWrites ==
  ASSUME SessionInv, NEW o \in Ops, Calls(o)
  PROVE  Writes
<1> USE DEF SessionInv
<1>1. CASE PostMessage(o)
  <2>1. Extension(Saying(session, o, "user"))
    BY SameExtends, SayingExtends DEF Kinds
  <2> QED BY <1>1, <2>1, SaveWrites DEF PostMessage
<1>2. CASE StartRound(o)
  <2>1. Extension(Saying(session, o, "user"))
    BY SameExtends, SayingExtends DEF Kinds
  <2> QED BY <1>2, <2>1, SaveWrites DEF StartRound, Writes
<1>3. CASE Approve(o)
  <2> DEFINE s == [session EXCEPT !.status = "approved", !.plan = Len(session.rounds)]
  <2>1. Extension(s) /\ s.messages = session.messages
    BY PlanExtends
  <2>2. Extension(Saying(s, o, "system"))
    BY <2>1, SayingExtends DEF Kinds
  <2> QED BY <1>3, <2>2, SaveWrites DEF Approve
<1>4. CASE Reject(o)
  <2> DEFINE s == [session EXCEPT !.status = "rejected"]
  <2>1. Extension(s) /\ s.messages = session.messages
    BY StatusExtends DEF SessionStatuses
  <2>2. Extension(Saying(s, o, "system"))
    BY <2>1, SayingExtends DEF Kinds
  <2> QED BY <1>4, <2>2, SaveWrites DEF Reject
<1>5. CASE Archive(o)
  <2>1. Extension([session EXCEPT !.status = "archived"])
    BY StatusExtends DEF SessionStatuses
  <2> QED BY <1>5, <2>1, SaveWrites DEF Archive
<1> QED BY <1>1, <1>2, <1>3, <1>4, <1>5 DEF Calls

LEMMA ProceedingWrites ==
  ASSUME SessionInv, NEW o \in Ops, Proceeds(o)
  PROVE  Writes
<1> USE DEF SessionInv
<1>1. CASE SnapshotChat(o) \/ SummaryInvalid(o) \/ CompactionStale(o) \/ ConflictingRound(o)
           \/ TakeTask(o) \/ WorkflowReturns(o) \/ WorkflowRaises(o)
  BY <1>1 DEF SnapshotChat, SummaryInvalid, CompactionStale, ConflictingRound, TakeTask,
              WorkflowReturns, WorkflowRaises, Writes
<1>2. CASE CommitCompaction(o)
  <2>1. Compactable(snap[o]) /\ session.revision = snap[o].revision
    BY <1>2 DEF CommitCompaction, Summarising
  <2>2. PICK text \in Texts(snap[o]) : Save(Saying(CompactedBy(o, text), o, "notice"))
    BY <1>2 DEF CommitCompaction, CompactedBy
  <2>3. Extension(CompactedBy(o, text)) /\ CompactedBy(o, text).messages = session.messages
    BY <2>1, CompactionExtends
  <2>4. Extension(Saying(CompactedBy(o, text), o, "notice"))
    BY <2>3, SayingExtends DEF Kinds
  <2> QED BY <2>2, <2>4, SaveWrites
<1>3. CASE Route(o) \/ SwitchAndAsk(o)
  BY <1>3, SameExtends, SaveWrites DEF Route, SwitchAndAsk
<1>4. CASE Command(o)
  <2>1. Extension(Merging(session, o, "reply"))
    BY MergingExtends DEF Kinds
  <2> QED BY <1>4, <2>1, SaveWrites DEF Command
<1>5. CASE Answer(o)
  <2>1. PICK kind \in {"reply", "error"} : Save(Merging(session, o, kind))
    BY <1>5 DEF Answer
  <2>2. Extension(Merging(session, o, kind))
    BY MergingExtends DEF Kinds
  <2> QED BY <2>1, <2>2, SaveWrites
<1>6. CASE CommitRound(o)
  <2> DEFINE s == [session EXCEPT
                      !.rounds = Append(@, [by |-> o, number |-> RoundNumber(o)])]
  <2>1. RoundNumber(o) \in Nat
    BY DEF RoundNumber, SessionTypeOK, Sessions
  <2>2. RoundNumber(o) = Len(session.rounds) + 1
    BY <1>6 DEF CommitRound, RoundNumber, Growing, SessionTypeOK, Sessions
  <2>3. Extension(s) /\ s.messages = session.messages
    BY <2>1, <2>2, RoundExtends
  <2>4. Extension(Saying(s, o, "synthesis"))
    BY <2>3, SayingExtends DEF Kinds
  <2> QED BY <1>6, <2>4, SaveWrites DEF CommitRound
<1>7. CASE MarkExecuted(o)
  <2>1. Extension([session EXCEPT !.status = "executed"])
    BY StatusExtends DEF SessionStatuses
  <2> QED BY <1>7, <2>1, SaveWrites DEF MarkExecuted
<1> QED BY <1>1, <1>2, <1>3, <1>4, <1>5, <1>6, <1>7 DEF Proceeds

LEMMA NextWrites == SessionInv /\ [Next]_vars => Writes
<1> SUFFICES ASSUME SessionInv, [Next]_vars PROVE Writes
  OBVIOUS
<1>1. ASSUME NEW o \in Ops, Crash(o) PROVE Writes
  BY <1>1 DEF Crash, Writes
<1>2. CASE UNCHANGED vars
  BY <1>2 DEF vars, Writes
<1> QED BY <1>1, <1>2, CallWrites, ProceedingWrites DEF Next

\* What the operations hold after a step.
Held ==
    /\ pc' \in [Ops -> Places]
    /\ snap' \in [Ops -> Sessions]
    /\ task' \in [Ops -> Nat \cup {NoPlan}]
    /\ \A o \in Ops :
          /\ ReadsOf(o)
          /\ pc'[o] = "summarising" => Compactable(snap'[o])

LEMMA NextHeld == SessionInv /\ [Next]_vars => Held
<1> SUFFICES ASSUME SessionInv, [Next]_vars PROVE Held
  OBVIOUS
<1> USE DEF SessionInv, SessionTypeOK, Held, ReadsOf, Summarising, Goes, At
<1>1. ASSUME NEW o \in Ops, PostMessage(o) \/ Reject(o) \/ Archive(o) PROVE Held
  BY <1>1 DEF PostMessage, Reject, Archive, Places
<1>2. ASSUME NEW o \in Ops, StartRound(o) \/ SnapshotChat(o) \/ Route(o) PROVE Held
  BY <1>2 DEF StartRound, SnapshotChat, Route, Places
<1>3. ASSUME NEW o \in Ops, Approve(o) PROVE Held
  BY <1>3, NewSessionType DEF Approve, Ends, Places
<1>4. ASSUME NEW o \in Ops,
             SummaryInvalid(o) \/ CommitCompaction(o) \/ CompactionStale(o) \/ SwitchAndAsk(o)
      PROVE  Held
  BY <1>4 DEF SummaryInvalid, CommitCompaction, CompactionStale, SwitchAndAsk, Places
<1>5. ASSUME NEW o \in Ops, Command(o) \/ Answer(o) PROVE Held
  BY <1>5, NewSessionType DEF Command, Answer, Ends, Places
<1>6. ASSUME NEW o \in Ops, CommitRound(o) \/ ConflictingRound(o) PROVE Held
  BY <1>6, NewSessionType DEF CommitRound, ConflictingRound, Ends, Places
<1>7. ASSUME NEW o \in Ops, TakeTask(o) \/ WorkflowReturns(o) PROVE Held
  BY <1>7 DEF TakeTask, WorkflowReturns, Sessions, Places
<1>8. ASSUME NEW o \in Ops, WorkflowRaises(o) \/ MarkExecuted(o) \/ Crash(o) PROVE Held
  BY <1>8, NewSessionType DEF WorkflowRaises, MarkExecuted, Crash, Ends, Places
<1>9. CASE UNCHANGED vars
  BY <1>9 DEF vars
<1> QED
  BY <1>1, <1>2, <1>3, <1>4, <1>5, <1>6, <1>7, <1>8, <1>9 DEF Next, Calls, Proceeds

LEMMA SessionInit == Init => SessionInv
<1> SUFFICES ASSUME Init PROVE SessionInv
  OBVIOUS
<1> USE NewSessionType DEF Init
<1>1. SessionTypeOK
  BY DEF SessionTypeOK, Places
<1>2. Fresh /\ Indexed /\ Growing
  BY DEF Fresh, Indexed, Growing, NewSession
<1>3. Summarising
  BY DEF Summarising, At
<1>4. SummaryCovers
  BY DEF SummaryCovers, NewSession
<1>5. Countable
  BY FS_EmptySet DEF Countable, NewSession
<1> QED BY <1>1, <1>2, <1>3, <1>4, <1>5 DEF SessionInv

\* An extension, once saved, is the session with the next revision.
LEMMA SavedExtension ==
  ASSUME NEW s \in Sessions, session' = [s EXCEPT !.revision = @ + 1]
  PROVE  /\ session' \in Sessions
         /\ session'.revision = s.revision + 1
         /\ session'.messages = s.messages
         /\ session'.rounds = s.rounds
         /\ session'.compacted = s.compacted
         /\ session'.covered = s.covered
         /\ session'.omitted = s.omitted
  BY DEF Sessions

LEMMA NewSessionFields == NewSession.revision = 1 /\ Len(NewSession.rounds) = 0
  BY DEF NewSession

\* What an operation holds after a step is no newer than the file before it.
LEMMA ReadsKept ==
  ASSUME SessionInv, Held, NEW o \in Ops
  PROVE  /\ snap'[o].revision <= session.revision
         /\ snap'[o].revision = session.revision => snap'[o] = session
         /\ Len(snap'[o].rounds) <= Len(session.rounds)
<1>1. session \in Sessions /\ session.revision \in Nat /\ Len(session.rounds) \in Nat
  BY DEF SessionInv, SessionTypeOK, Sessions
<1>2. CASE snap'[o] = snap[o]
  BY <1>2 DEF SessionInv, Fresh, Growing
<1>3. CASE snap'[o] = session
  BY <1>1, <1>3
<1>4. CASE snap'[o] = NewSession
  BY <1>1, <1>4, NewSessionFields DEF SessionInv, Fresh
<1> QED BY <1>2, <1>3, <1>4 DEF Held, ReadsOf

LEMMA SessionNext == SessionInv /\ [Next]_vars => SessionInv'
<1> SUFFICES ASSUME SessionInv, [Next]_vars PROVE SessionInv'
  OBVIOUS
<1>1. Held
  BY NextHeld
<1>2. CASE session' = session
  <2>1. SessionTypeOK' /\ Indexed' /\ Countable' /\ SummaryCovers'
    BY <1>1, <1>2 DEF SessionInv, SessionTypeOK, Held, Indexed, Countable, SummaryCovers
  <2>2. Summarising'
    BY <1>1 DEF Held, Summarising, At
  <2>3. Fresh'
    BY <1>1, <1>2, ReadsKept, NewSessionFields DEF SessionInv, SessionTypeOK, Sessions, Fresh
  <2>4. Growing'
    BY <1>1, <1>2, ReadsKept DEF Growing
  <2> QED BY <2>1, <2>2, <2>3, <2>4 DEF SessionInv
<1>3. ASSUME NEW s \in Sessions, Extension(s), session' = [s EXCEPT !.revision = @ + 1]
      PROVE  SessionInv'
  <2>1. /\ session' \in Sessions
        /\ session'.revision = session.revision + 1
        /\ session'.messages = s.messages
        /\ session'.rounds = s.rounds
        /\ session'.compacted = s.compacted
        /\ session'.covered = s.covered
        /\ session'.omitted = s.omitted
    BY <1>3, SavedExtension DEF Extension
  <2>2. SessionTypeOK'
    BY <1>1, <2>1 DEF Held, SessionTypeOK
  <2>3. Len(session'.messages) >= Len(session.messages)
    BY <1>3, <2>1 DEF Extension, SessionInv, SessionTypeOK, Sessions
  <2>4. Len(session'.rounds) >= Len(session.rounds)
    <3>1. session.rounds \in Seq(RoundSet)
      BY DEF SessionInv, SessionTypeOK, Sessions
    <3>2. ASSUME NEW a \in Ops
          PROVE  [by |-> a, number |-> Len(session.rounds) + 1] \in RoundSet
      <4>1. Len(session.rounds) + 1 \in Nat \ {0}
        BY <3>1
      <4> QED BY <4>1 DEF RoundSet
    <3>3. \A r \in RoundSet : Len(Append(session.rounds, r)) >= Len(session.rounds)
      BY <3>1
    <3>4. CASE s.rounds = session.rounds
      BY <2>1, <3>1, <3>4
    <3>5. ASSUME NEW a \in Ops,
                 s.rounds = Append(session.rounds,
                                   [by |-> a, number |-> Len(session.rounds) + 1])
          PROVE  Len(session'.rounds) >= Len(session.rounds)
      BY <2>1, <3>2, <3>3, <3>5
    <3> QED BY <1>3, <3>4, <3>5 DEF Extension
  <2>5. Indexed'
    BY <1>3, <2>1, <2>3 DEF Extension, SessionInv, SessionTypeOK, Sessions, Indexed
  <2>6. Summarising'
    BY <1>1 DEF Held, Summarising, At
  <2>7. Fresh'
    <3>1. session.revision \in Nat /\ session'.revision \in Nat /\ session'.revision > 1
      BY <2>1 DEF SessionInv, SessionTypeOK, Sessions, Fresh
    <3>2. ASSUME NEW o \in Ops
          PROVE  snap'[o].revision \in Nat /\ snap'[o].revision < session'.revision
      <4>1. snap'[o].revision \in Nat
        BY <2>2 DEF SessionTypeOK, Sessions
      <4>2. snap'[o].revision <= session.revision
        BY <1>1, ReadsKept
      <4> QED BY <2>1, <3>1, <4>1, <4>2
    <3> QED BY <3>1, <3>2 DEF Fresh
  <2>8. Growing'
    <3>1. \A o \in Ops : Len(snap'[o].rounds) \in Nat /\ Len(session'.rounds) \in Nat
      BY <2>2 DEF SessionTypeOK, Sessions
    <3>2. Len(session.rounds) \in Nat
      BY DEF SessionInv, SessionTypeOK, Sessions
    <3> QED BY <1>1, <2>4, <3>1, <3>2, ReadsKept DEF Growing
  <2>9. Countable'
    BY <1>3, <2>1 DEF Extension, SessionInv, Countable
  <2>10. SummaryCovers'
    <3>1. ASSUME NEW i \in 1..session'.compacted, Eligible(session'.messages[i])
          PROVE  i \in session'.covered \cup session'.omitted
      <4>1. i \in 1..Len(session.messages) /\ session'.messages[i] = session.messages[i]
        BY <1>3, <2>1 DEF Extension, SessionInv, SessionTypeOK, Sessions
      <4>2. CASE i <= session.compacted
        BY <1>3, <2>1, <3>1, <4>1, <4>2 DEF Extension, SessionInv, SummaryCovers
      <4>3. CASE i > session.compacted
        BY <1>3, <2>1, <3>1, <4>1, <4>3
        DEF Extension, SessionInv, SessionTypeOK, Sessions
      <4> QED BY <4>1, <4>2, <4>3 DEF SessionInv, SessionTypeOK, Sessions
    <3>2. ASSUME NEW i \in session'.omitted
          PROVE  Cardinality({j \in session'.covered : j > i}) >= Fits
      <4>1. CASE i \notin session.omitted
        BY <1>3, <2>1, <3>2, <4>1 DEF Extension, SessionInv, Countable
      <4>2. CASE i \in session.omitted
        <5> DEFINE before == {j \in session.covered : j > i}
                   after == {j \in session'.covered : j > i}
        <5>1. before \subseteq after
          BY <1>3, <2>1 DEF Extension
        <5>2. IsFiniteSet(after)
          BY <2>9, FS_Subset DEF Countable
        <5>3. /\ IsFiniteSet(before)
              /\ Cardinality(before) <= Cardinality(after)
          BY <5>1, <5>2, FS_Subset
        <5>4. Cardinality(before) \in Nat /\ Cardinality(after) \in Nat
          BY <5>2, <5>3, FS_CardinalityType
        <5>5. Cardinality(before) >= Fits
          BY <4>2 DEF SessionInv, SummaryCovers
        <5> HIDE DEF before, after
        <5>6. Cardinality(after) >= Fits
          BY <5>3, <5>4, <5>5, ChatSessionAssumption
        <5> QED BY <5>6 DEF after
      <4> QED BY <4>1, <4>2
    <3> QED BY <3>1, <3>2 DEF SummaryCovers
  <2> QED BY <2>2, <2>5, <2>6, <2>7, <2>8, <2>9, <2>10 DEF SessionInv
<1> QED BY <1>2, <1>3, NextWrites DEF Writes

THEOREM SessionInvariance == Spec => []SessionInv
  BY SessionInit, SessionNext, PTL DEF Spec

-----------------------------------------------------------------------------
(* What follows                                                            *)

\* The file and what operations hold of it keep their types.
THEOREM SessionTypes == Spec => []SessionTypeOK
<1>1. SessionInv => SessionTypeOK
  BY DEF SessionInv
<1> QED BY <1>1, SessionInvariance, PTL

\* Equal revisions mean equal sessions, whatever fails and dies: comparing
\* them before a compaction is written misses no change.
THEOREM RevisionsIdentify == Spec => []RevisionIdentifiesContent
<1>1. SessionInv => RevisionIdentifiesContent
  BY DEF SessionInv, Fresh, RevisionIdentifiesContent
<1> QED BY <1>1, SessionInvariance, PTL

\* Messages leave the context of the agents through a compaction, or passed over
\* by one that took at least Fits newer ones: none is skipped by a race.
THEOREM SummaryIsComplete == Spec => []SummaryCovers
<1>1. SessionInv => SummaryCovers
  BY DEF SessionInv
<1> QED BY <1>1, SessionInvariance, PTL

LEMMA HistoryInit == Init => History!Init
<1> SUFFICES ASSUME Init PROVE History!Init
  OBVIOUS
<1>1. <<[by |-> None, kind |-> "system"]>> \in [1..1 -> MessageSet]
  BY DEF MessageSet, Kinds
<1> QED BY <1>1 DEF Init, NewSession, History!Init

LEMMA HistoryStep == SessionInv /\ [Next]_vars => [History!Change]_(History!vars)
<1> SUFFICES ASSUME SessionInv, [Next]_vars PROVE [History!Change]_(History!vars)
  OBVIOUS
<1>1. CASE session' = session
  BY <1>1 DEF History!vars
<1>2. ASSUME NEW s \in Sessions, Extension(s), session' = [s EXCEPT !.revision = @ + 1]
      PROVE  History!Change
  BY <1>2, SavedExtension DEF Extension, History!Change
<1> QED BY <1>1, <1>2, NextWrites DEF Writes

\* The session implements its abstract specification: what was recorded stays,
\* in order, whatever the operations, their interleaving and their failures.
THEOREM SessionImplementsHistory == Spec => ImplementsHistory
  BY HistoryInit, HistoryStep, SessionInvariance, PTL DEF Spec, ImplementsHistory, History!Spec

-----------------------------------------------------------------------------
(* When writing the file does not fail: what a step adds                   *)

\* What a step of o does to the messages: nothing, or one more of o.
Says(o, kind) ==
    session'.messages = Append(session.messages, [by |-> o, kind |-> kind])

Silent == session'.messages = session.messages

\* The plan after a step: as before, or made from the last round.
PlanStep == session'.plan \in {session.plan, Len(session.rounds)}

-----------------------------------------------------------------------------
(* Exact effects of saves that do not fail                                 *)

LEMMA SavedFields ==
  ASSUME ~SaveFaults, NEW s \in Sessions, Save(s)
  PROVE  session'.messages = s.messages /\ session'.plan = s.plan
  BY DEF Save, Sessions

LEMMA SavedSaying ==
  ASSUME ~SaveFaults, NEW s \in Sessions, s.messages = session.messages,
         NEW o \in Ops, NEW kind \in Kinds, Save(Saying(s, o, kind))
  PROVE  Says(o, kind) /\ session'.plan = s.plan
<1>1. Saying(s, o, kind) \in Sessions
  BY SayingType
<1>2. /\ Saying(s, o, kind).messages = Append(s.messages, [by |-> o, kind |-> kind])
      /\ Saying(s, o, kind).plan = s.plan
  BY DEF Saying, Sessions
<1> QED BY <1>1, <1>2, SavedFields DEF Says

LEMMA SessionIsSession == SessionInv => session \in Sessions
  BY DEF SessionInv, SessionTypeOK

LEMMA PostEffect ==
  ASSUME ~SaveFaults, SessionInv, NEW o \in Ops, PostMessage(o)
  PROVE  Says(o, "user") /\ session'.plan = session.plan
  BY SessionIsSession, SavedSaying DEF PostMessage, Kinds

LEMMA StartEffect ==
  ASSUME ~SaveFaults, SessionInv, NEW o \in Ops, StartRound(o)
  PROVE  (Silent \/ Says(o, "user")) /\ session'.plan = session.plan
<1>1. CASE UNCHANGED session
  BY <1>1 DEF Silent
<1>2. CASE Save(Saying(session, o, "user"))
  BY <1>2, SessionIsSession, SavedSaying DEF Kinds
<1> QED BY <1>1, <1>2 DEF StartRound

LEMMA ApproveEffect ==
  ASSUME ~SaveFaults, SessionInv, NEW o \in Ops, Approve(o)
  PROVE  Says(o, "system") /\ session'.plan = Len(session.rounds)
<1> DEFINE s == [session EXCEPT !.status = "approved", !.plan = Len(session.rounds)]
<1>1. s \in Sessions /\ s.messages = session.messages
  BY PlanExtends DEF SessionInv, Extension
<1>2. s.plan = Len(session.rounds)
  BY SessionIsSession DEF Sessions
<1>3. Save(Saying(s, o, "system"))
  BY DEF Approve
<1> HIDE DEF s
<1> QED BY <1>1, <1>2, <1>3, SavedSaying DEF Kinds

LEMMA RejectEffect ==
  ASSUME ~SaveFaults, SessionInv, NEW o \in Ops, Reject(o)
  PROVE  Says(o, "system") /\ session'.plan = session.plan
<1> DEFINE s == [session EXCEPT !.status = "rejected"]
<1>1. s \in Sessions /\ s.messages = session.messages
  BY StatusExtends DEF SessionInv, Extension, SessionStatuses
<1>2. s.plan = session.plan
  BY SessionIsSession DEF Sessions
<1>3. Save(Saying(s, o, "system"))
  BY DEF Reject
<1> HIDE DEF s
<1> QED BY <1>1, <1>2, <1>3, SavedSaying DEF Kinds

LEMMA StatusEffect ==
  ASSUME ~SaveFaults, SessionInv, NEW o \in Ops, Archive(o) \/ MarkExecuted(o)
  PROVE  Silent /\ session'.plan = session.plan
<1>1. PICK status \in {"archived", "executed"} : Save([session EXCEPT !.status = status])
  BY DEF Archive, MarkExecuted
<1> DEFINE s == [session EXCEPT !.status = status]
<1>2. s \in Sessions /\ s.messages = session.messages
  BY StatusExtends DEF SessionInv, Extension, SessionStatuses
<1>3. s.plan = session.plan
  BY SessionIsSession DEF Sessions
<1>4. Save(s)
  BY <1>1
<1> HIDE DEF s
<1> QED BY <1>2, <1>3, <1>4, SavedFields DEF Silent

LEMMA CommitEffect ==
  ASSUME ~SaveFaults, SessionInv, NEW o \in Ops, CommitCompaction(o)
  PROVE  Says(o, "notice") /\ session'.plan = session.plan
<1>1. Compactable(snap[o]) /\ session.revision = snap[o].revision
  BY DEF CommitCompaction, SessionInv, Summarising
<1>2. PICK text \in Texts(snap[o]) : Save(Saying(CompactedBy(o, text), o, "notice"))
  BY DEF CommitCompaction, CompactedBy
<1>3. /\ CompactedBy(o, text) \in Sessions
      /\ CompactedBy(o, text).messages = session.messages
  BY <1>1, CompactionExtends DEF SessionInv, Extension
<1>4. CompactedBy(o, text).plan = session.plan
  BY SessionIsSession DEF Sessions, CompactedBy
<1> QED BY <1>2, <1>3, <1>4, SavedSaying DEF Kinds

LEMMA RoundEffect ==
  ASSUME ~SaveFaults, SessionInv, NEW o \in Ops, CommitRound(o)
  PROVE  Says(o, "synthesis") /\ session'.plan = session.plan
<1> DEFINE s == [session EXCEPT
                    !.rounds = Append(@, [by |-> o, number |-> RoundNumber(o)])]
<1>1. RoundNumber(o) \in Nat /\ RoundNumber(o) = Len(session.rounds) + 1
  BY DEF CommitRound, RoundNumber, SessionInv, Growing, SessionTypeOK, Sessions
<1>2. s \in Sessions /\ s.messages = session.messages
  BY <1>1, RoundExtends DEF SessionInv, Extension
<1>3. s.plan = session.plan
  BY SessionIsSession DEF Sessions
<1>4. Save(Saying(s, o, "synthesis"))
  BY DEF CommitRound
<1> HIDE DEF s
<1> QED BY <1>2, <1>3, <1>4, SavedSaying DEF Kinds

LEMMA SameEffect ==
  ASSUME ~SaveFaults, SessionInv, NEW o \in Ops, Route(o) \/ SwitchAndAsk(o)
  PROVE  Silent /\ session'.plan = session.plan
  BY SessionIsSession, SavedFields DEF Route, SwitchAndAsk, Silent

\* A reply is appended unless it is there.
LEMMA ReplyEffect ==
  ASSUME ~SaveFaults, SessionInv, NEW o \in Ops, Command(o) \/ Answer(o)
  PROVE  \E kind \in {"reply", "error"} :
            /\ IF [by |-> o, kind |-> kind] \in ToSet(session.messages)
               THEN Silent ELSE Says(o, kind)
            /\ session'.plan = session.plan
<1>1. PICK kind \in {"reply", "error"} : Save(Merging(session, o, kind))
  BY DEF Command, Answer
<1>2. CASE [by |-> o, kind |-> kind] \in ToSet(session.messages)
  BY <1>1, <1>2, SessionIsSession, SavedFields DEF Merging, Silent
<1>3. CASE [by |-> o, kind |-> kind] \notin ToSet(session.messages)
  BY <1>1, <1>3, SessionIsSession, SavedSaying DEF Merging, Kinds
<1> QED BY <1>2, <1>3

\* The steps of o that leave the file alone.
Reads(o) ==
    \/ SnapshotChat(o) \/ SummaryInvalid(o) \/ CompactionStale(o) \/ ConflictingRound(o)
    \/ TakeTask(o) \/ WorkflowReturns(o) \/ WorkflowRaises(o) \/ Crash(o)

LEMMA ReadsEffect ==
  ASSUME NEW o \in Ops, Reads(o)
  PROVE  session' = session
  BY DEF Reads, SnapshotChat, SummaryInvalid, CompactionStale, ConflictingRound, TakeTask,
         WorkflowReturns, WorkflowRaises, Crash

Steps(o) == Calls(o) \/ Proceeds(o) \/ Crash(o)

\* A step of an operation adds at most one message, its own, and touches
\* nothing the other operations hold.
LEMMA StepEffect ==
  ASSUME ~SaveFaults, SessionInv, NEW o \in Ops, Steps(o)
  PROVE  /\ Silent \/ \E kind \in Kinds : Says(o, kind)
         /\ PlanStep
<1>1. CASE Reads(o)
  BY <1>1, ReadsEffect DEF Silent, PlanStep
<1>2. CASE Calls(o)
  BY <1>2, PostEffect, StartEffect, ApproveEffect, RejectEffect, StatusEffect
  DEF Calls, PlanStep, Kinds
<1>3. CASE CommitCompaction(o) \/ CommitRound(o)
  BY <1>3, CommitEffect, RoundEffect DEF PlanStep, Kinds
<1>4. CASE Route(o) \/ SwitchAndAsk(o) \/ MarkExecuted(o)
  BY <1>4, SameEffect, StatusEffect DEF PlanStep
<1>5. CASE Command(o) \/ Answer(o)
  BY <1>5, ReplyEffect DEF PlanStep, Kinds
<1> QED BY <1>1, <1>2, <1>3, <1>4, <1>5 DEF Steps, Proceeds, Reads

LEMMA StepFrame ==
  ASSUME SessionInv, NEW o \in Ops, Steps(o), NEW q \in Ops, q # o
  PROVE  pc'[q] = pc[q] /\ snap'[q] = snap[q] /\ task'[q] = task[q]
<1> USE DEF SessionInv, SessionTypeOK, Goes, Ends
<1>1. CASE Calls(o)
  BY <1>1 DEF Calls, PostMessage, StartRound, Approve, Reject, Archive
<1>2. CASE Reads(o)
  BY <1>2 DEF Reads, SnapshotChat, SummaryInvalid, CompactionStale, ConflictingRound, TakeTask,
              WorkflowReturns, WorkflowRaises, Crash
<1>3. CASE CommitCompaction(o) \/ CommitRound(o) \/ Route(o) \/ SwitchAndAsk(o)
  BY <1>3 DEF CommitCompaction, CommitRound, Route, SwitchAndAsk
<1>4. CASE MarkExecuted(o) \/ Command(o) \/ Answer(o)
  BY <1>4 DEF MarkExecuted, Command, Answer
<1> QED BY <1>1, <1>2, <1>3, <1>4 DEF Steps, Proceeds, Reads

-----------------------------------------------------------------------------
(* Approved plans                                                          *)

\* Until its process has taken the task, the file keeps a plan at least as
\* recent as what the approver saw.
Planned ==
    /\ \A o \in Ops : At(o, "approved") => session.plan >= Len(snap[o].rounds)
    /\ ExecutesWhatWasApproved

LEMMA PlannedNext == ~SaveFaults /\ SessionInv /\ Planned /\ [Next]_vars => Planned'
<1> SUFFICES ASSUME ~SaveFaults, SessionInv, Planned, [Next]_vars PROVE Planned'
  OBVIOUS
<1>1. CASE UNCHANGED vars
  BY <1>1 DEF vars, Planned, ExecutesWhatWasApproved, At
<1>2. ASSUME NEW o \in Ops, Steps(o) PROVE Planned'
  <2>1. ASSUME NEW q \in Ops, q # o
        PROVE  /\ At(q, "approved")' => session'.plan >= Len(snap'[q].rounds)
               /\ pc'[q] \in {"executing", "worked"} => task'[q] >= Len(snap'[q].rounds)
    <3>1. pc'[q] = pc[q] /\ snap'[q] = snap[q] /\ task'[q] = task[q]
      BY <1>2, <2>1, StepFrame
    <3>2. Len(snap[q].rounds) <= Len(session.rounds) /\ PlanStep
      BY <1>2, StepEffect DEF SessionInv, Growing
    <3> QED BY <3>1, <3>2 DEF Planned, ExecutesWhatWasApproved, At, PlanStep
  <2>2. /\ At(o, "approved")' => session'.plan >= Len(snap'[o].rounds)
        /\ pc'[o] \in {"executing", "worked"} => task'[o] >= Len(snap'[o].rounds)
    <3> USE DEF SessionInv, SessionTypeOK, Goes, Ends, At
    <3>1. CASE Approve(o)
      <4>1. session'.plan = Len(session.rounds) /\ Len(session.rounds) \in Nat
        BY <3>1, ApproveEffect DEF Sessions
      <4> QED BY <3>1, <4>1 DEF Approve
    <3>2. CASE TakeTask(o)
      BY <3>2 DEF TakeTask, Planned
    <3>3. CASE WorkflowReturns(o)
      BY <3>3 DEF WorkflowReturns, Planned, ExecutesWhatWasApproved
    <3>4. CASE PostMessage(o) \/ StartRound(o) \/ Reject(o) \/ Archive(o)
      BY <3>4 DEF PostMessage, StartRound, Reject, Archive
    <3>5. CASE SnapshotChat(o) \/ SummaryInvalid(o) \/ CompactionStale(o) \/ ConflictingRound(o)
               \/ WorkflowRaises(o) \/ Crash(o)
      BY <3>5 DEF SnapshotChat, SummaryInvalid, CompactionStale, ConflictingRound,
                  WorkflowRaises, Crash
    <3>6. CASE CommitCompaction(o) \/ CommitRound(o) \/ Route(o) \/ SwitchAndAsk(o)
               \/ MarkExecuted(o) \/ Command(o) \/ Answer(o)
      BY <3>6 DEF CommitCompaction, CommitRound, Route, SwitchAndAsk, MarkExecuted, Command, Answer
    <3> QED BY <1>2, <3>1, <3>2, <3>3, <3>4, <3>5, <3>6 DEF Steps, Calls, Proceeds
  <2> QED BY <2>1, <2>2 DEF Planned, ExecutesWhatWasApproved, At
<1> QED BY <1>1, <1>2 DEF Next, Steps

\* When saves succeed, the plan a process executes is never older than the
\* rounds its approver saw, whoever deliberates, approves or rejects meanwhile.
THEOREM ApprovedPlanIsExecuted ==
  ASSUME ~SaveFaults
  PROVE  Spec => []ExecutesWhatWasApproved
<1>1. Init => Planned
  BY DEF Init, Planned, ExecutesWhatWasApproved, At
<1>2. SessionInv /\ Planned /\ [Next]_vars => Planned'
  BY PlannedNext
<1>3. Planned => ExecutesWhatWasApproved
  BY DEF Planned
<1> QED BY <1>1, <1>2, <1>3, SessionInvariance, PTL DEF Spec

-----------------------------------------------------------------------------
(* Messages kept once                                                      *)

Waiting == {"posted", "summarising", "compacted", "routed", "asking"}

AllOf(o) == PositionsOf(o, Kinds)
Asked(o) == PositionsOf(o, {"user"})
Told(o) == PositionsOf(o, {"reply", "error"})

\* What the file has of an operation, by where the operation is.
KeptOf(o) ==
    /\ At(o, "idle") => AllOf(o) = {}
    /\ pc[o] \in Waiting => (\E i \in Nat : Asked(o) = {i}) /\ Told(o) = {}
    /\ At(o, "answered") => \E i, j \in Nat : Asked(o) = {i} /\ Told(o) = {j} /\ i < j

Kept == \A o \in Ops : KeptOf(o)

LEMMA PositionsSilent ==
  ASSUME Silent, NEW o, NEW kinds
  PROVE  PositionsOf(o, kinds)' = PositionsOf(o, kinds)
  BY DEF Silent, PositionsOf

LEMMA PositionsOfOthers ==
  ASSUME SessionInv, NEW o \in Ops, NEW kind \in Kinds, Says(o, kind),
         NEW q \in Ops, NEW kinds, q # o \/ kind \notin kinds
  PROVE  PositionsOf(q, kinds)' = PositionsOf(q, kinds)
<1>1. session.messages \in Seq(MessageSet) /\ [by |-> o, kind |-> kind] \in MessageSet
  BY DEF SessionInv, SessionTypeOK, Sessions, MessageSet
<1> QED BY <1>1 DEF Says, PositionsOf

LEMMA PositionsOfSpeaker ==
  ASSUME SessionInv, NEW o \in Ops, NEW kind \in Kinds, Says(o, kind),
         NEW kinds, kind \in kinds
  PROVE  PositionsOf(o, kinds)' = PositionsOf(o, kinds) \cup {Len(session.messages) + 1}
<1>1. session.messages \in Seq(MessageSet) /\ [by |-> o, kind |-> kind] \in MessageSet
  BY DEF SessionInv, SessionTypeOK, Sessions, MessageSet
<1> QED BY <1>1 DEF Says, PositionsOf

LEMMA PositionsType ==
  ASSUME SessionInv, NEW o, NEW kinds
  PROVE  /\ Len(session.messages) \in Nat
         /\ PositionsOf(o, kinds) \subseteq 1..Len(session.messages)
  BY DEF SessionInv, SessionTypeOK, Sessions, PositionsOf

LEMMA KeptOfOthers ==
  ASSUME ~SaveFaults, SessionInv, NEW o \in Ops, Steps(o), NEW q \in Ops, q # o, KeptOf(q)
  PROVE  KeptOf(q)'
<1>1. pc'[q] = pc[q]
  BY StepFrame
<1>2. ASSUME NEW kinds PROVE PositionsOf(q, kinds)' = PositionsOf(q, kinds)
  BY StepEffect, PositionsSilent, PositionsOfOthers
<1>3. AllOf(q)' = AllOf(q) /\ Asked(q)' = Asked(q) /\ Told(q)' = Told(q)
  BY <1>2 DEF AllOf, Asked, Told
<1> QED BY <1>1, <1>3 DEF KeptOf, At

LEMMA KeptOfItself ==
  ASSUME ~SaveFaults, SessionInv, NEW o \in Ops, Steps(o), KeptOf(o)
  PROVE  KeptOf(o)'
<1> USE DEF Goes, Ends, At
<1>0. pc \in [Ops -> Places]
  BY DEF SessionInv, SessionTypeOK
<1>1. CASE PostMessage(o)
  <2>1. Says(o, "user")
    BY <1>1, PostEffect
  <2>2. Asked(o) = {} /\ Told(o) = {}
    BY <1>1 DEF PostMessage, KeptOf, AllOf, Asked, Told, PositionsOf, Kinds
  <2>3. Asked(o)' = {Len(session.messages) + 1}
    BY <2>1, <2>2, PositionsOfSpeaker DEF Asked, Kinds
  <2>4. Told(o)' = {}
    <3>1. "user" \in Kinds /\ "user" \notin {"reply", "error"}
      BY DEF Kinds
    <3>2. PositionsOf(o, {"reply", "error"})' = PositionsOf(o, {"reply", "error"})
      BY <2>1, <3>1, PositionsOfOthers
    <3> QED BY <2>2, <3>2 DEF Told
  <2>5. pc'[o] = "posted"
    BY <1>0, <1>1 DEF PostMessage
  <2>6. Len(session.messages) + 1 \in Nat
    BY DEF SessionInv, SessionTypeOK, Sessions
  <2> QED BY <2>3, <2>4, <2>5, <2>6 DEF KeptOf
<1>2. CASE Command(o) \/ Answer(o)
  <2>1. PICK i \in Nat : Asked(o) = {i} /\ Told(o) = {}
    BY <1>2 DEF Command, Answer, KeptOf, Waiting
  <2>2. PICK kind \in {"reply", "error"} :
          IF [by |-> o, kind |-> kind] \in ToSet(session.messages) THEN Silent ELSE Says(o, kind)
    BY <1>2, ReplyEffect
  <2>3. [by |-> o, kind |-> kind] \notin ToSet(session.messages)
    <3>1. ASSUME NEW j \in DOMAIN session.messages,
                 session.messages[j] = [by |-> o, kind |-> kind]
          PROVE  FALSE
      BY <2>1, <3>1 DEF Told, PositionsOf
    <3>2. session.messages \in Seq(MessageSet)
      BY DEF SessionInv, SessionTypeOK, Sessions
    <3> QED BY <3>1, <3>2 DEF ToSet
  <2>4. Says(o, kind)
    BY <2>2, <2>3
  <2>5. Told(o)' = {Len(session.messages) + 1}
    BY <2>1, <2>4, PositionsOfSpeaker DEF Told, Kinds
  <2>6. Asked(o)' = {i}
    BY <2>1, <2>4, PositionsOfOthers DEF Asked, Kinds
  <2>7. i < Len(session.messages) + 1
    BY <2>1, PositionsType DEF Asked
  <2>8. pc'[o] = "answered"
    BY <1>0, <1>2 DEF Command, Answer
  <2>9. Len(session.messages) + 1 \in Nat
    BY PositionsType
  <2> QED BY <2>5, <2>6, <2>7, <2>8, <2>9 DEF KeptOf, Waiting
<1>3. CASE SnapshotChat(o) \/ SummaryInvalid(o) \/ CompactionStale(o)
  <2>1. Silent
    BY <1>3, ReadsEffect DEF Reads, Silent
  <2>2. pc[o] \in Waiting /\ pc'[o] \in Waiting
    BY <1>0, <1>3 DEF SnapshotChat, SummaryInvalid, CompactionStale, Waiting
  <2> QED BY <2>1, <2>2, PositionsSilent DEF KeptOf, Waiting, Asked, Told
<1>4. CASE Route(o) \/ SwitchAndAsk(o)
  <2>1. Silent
    BY <1>4, SameEffect
  <2>2. pc[o] \in Waiting /\ pc'[o] \in Waiting
    BY <1>0, <1>4 DEF Route, SwitchAndAsk, Waiting
  <2> QED BY <2>1, <2>2, PositionsSilent DEF KeptOf, Waiting, Asked, Told
<1>5. CASE CommitCompaction(o)
  <2>1. Says(o, "notice")
    BY <1>5, CommitEffect
  <2>2. pc[o] \in Waiting /\ pc'[o] \in Waiting
    BY <1>0, <1>5 DEF CommitCompaction, Waiting
  <2>3. Asked(o)' = Asked(o) /\ Told(o)' = Told(o)
    BY <2>1, PositionsOfOthers DEF Asked, Told, Kinds
  <2> QED BY <2>2, <2>3 DEF KeptOf, Waiting
<1>6. CASE StartRound(o) \/ Approve(o) \/ Reject(o) \/ Archive(o) \/ CommitRound(o)
           \/ ConflictingRound(o) \/ TakeTask(o) \/ WorkflowReturns(o) \/ WorkflowRaises(o)
           \/ MarkExecuted(o) \/ Crash(o)
  <2>1. pc'[o] \in {"deliberating", "approved", "executing", "worked", "done", "dead"}
    BY <1>0, <1>6 DEF StartRound, Approve, Reject, Archive, CommitRound, ConflictingRound,
                      TakeTask, WorkflowReturns, WorkflowRaises, MarkExecuted, Crash
  <2> QED BY <2>1 DEF KeptOf, Waiting
<1> QED BY <1>1, <1>2, <1>3, <1>4, <1>5, <1>6 DEF Steps, Calls, Proceeds

LEMMA KeptNext == ~SaveFaults /\ SessionInv /\ Kept /\ [Next]_vars => Kept'
<1> SUFFICES ASSUME ~SaveFaults, SessionInv, Kept, [Next]_vars, NEW q \in Ops PROVE KeptOf(q)'
  BY DEF Kept
<1>1. CASE UNCHANGED vars
  BY <1>1 DEF vars, Kept, KeptOf, At, AllOf, Asked, Told, PositionsOf
<1>2. ASSUME NEW o \in Ops, Steps(o) PROVE KeptOf(q)'
  BY <1>2, KeptOfOthers, KeptOfItself DEF Kept
<1> QED BY <1>1, <1>2 DEF Next, Steps

\* When saves succeed, what a user posts and the answer to it are in the file
\* exactly once and in order, for any number of processes that save meanwhile.
THEOREM NothingIsLost ==
  ASSUME ~SaveFaults
  PROVE  Spec => []KeptOnce
<1>1. Init => Kept
  <2> SUFFICES ASSUME Init, NEW o \in Ops PROVE KeptOf(o)
    BY DEF Kept
  <2>1. session.messages = <<[by |-> None, kind |-> "system"]>> /\ pc[o] = "idle"
    BY DEF Init, NewSession
  <2>2. AllOf(o) = {}
    BY <2>1, ChatSessionAssumption DEF AllOf, PositionsOf
  <2> QED BY <2>1, <2>2 DEF KeptOf, At, Waiting
<1>2. SessionInv /\ Kept /\ [Next]_vars => Kept'
  BY KeptNext
<1>3. Kept => KeptOnce
  <2> SUFFICES ASSUME Kept, NEW o \in Ops
      PROVE  /\ pc[o] \in Waiting => Cardinality(Asked(o)) = 1 /\ Told(o) = {}
             /\ At(o, "answered")
                  => /\ Cardinality(Asked(o)) = 1 /\ Cardinality(Told(o)) = 1
                     /\ \A i \in Asked(o), j \in Told(o) : i < j
    BY DEF KeptOnce, Waiting, Asked, Told
  <2>1. \A i \in Nat : Cardinality({i}) = 1
    BY FS_Singleton
  <2> QED BY <2>1 DEF Kept, KeptOf
<1> QED BY <1>1, <1>2, <1>3, SessionInvariance, PTL DEF Spec
=============================================================================

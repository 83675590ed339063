----------------------------- MODULE ChatSession -----------------------------
(***************************************************************************)
(* One brainstorming session (server/brainstorm_manager.py): a JSON file   *)
(* that the dashboard and processes of the command line read and write.    *)
(* A block under lock_session is one step here, as SessionLock justifies;  *)
(* a call of a model, and every read without the lock, stands between two  *)
(* steps, and anything may happen to the file meanwhile.                   *)
(***************************************************************************)
EXTENDS Integers, Sequences, FiniteSets, SequencesExt

CONSTANTS
    Ops,            \* the operations, each called once
    None,           \* the author of the first message
    CompactAfter,   \* uncompacted messages that start a compaction (10)
    KeepRecent,     \* last messages a compaction leaves alone (3)
    Fits,           \* messages of any length its prompt has room for (7)
    SaveFaults,     \* whether writing the file may fail
    Crashes         \* whether the process of an operation may die

ASSUME ChatSessionAssumption ==
    /\ None \notin Ops
    /\ CompactAfter \in Nat /\ KeepRecent \in Nat
    /\ 0 < KeepRecent /\ KeepRecent < CompactAfter
    /\ Fits \in Nat \ {0}
    /\ SaveFaults \in BOOLEAN /\ Crashes \in BOOLEAN

NoPlan == -1

Kinds == {"user", "reply", "error", "notice", "synthesis", "system"}
MessageSet == [by : Ops \cup {None}, kind : Kinds]
RoundSet == [by : Ops, number : Nat \ {0}]

SessionStatuses == {"active", "approved", "rejected", "executed", "archived"}

Sessions ==
    [revision : Nat, messages : Seq(MessageSet), rounds : Seq(RoundSet),
     status : SessionStatuses,
     plan : Nat \cup {NoPlan},      \* the round the final plan was made from
     compacted : Nat,               \* compacted_up_to_index
     covered : SUBSET Nat,          \* the messages that went through a compaction
     omitted : SUBSET Nat]          \* those a compaction passed over for want of room

VARIABLES
    session,    \* the file
    pc,         \* where each operation is
    snap,       \* the session as each operation read it last
    task        \* the plan a process of the command line executes

vars == <<session, pc, snap, task>>

Places ==
    {"idle", "posted", "summarising", "compacted", "routed", "asking", "answered",
     "deliberating", "approved", "executing", "worked", "done", "dead"}

SessionTypeOK ==
    /\ session \in Sessions
    /\ pc \in [Ops -> Places]
    /\ snap \in [Ops -> Sessions]
    /\ task \in [Ops -> Nat \cup {NoPlan}]

-----------------------------------------------------------------------------
\* create_brainstorm: the file after its first save.
NewSession ==
    [revision |-> 1, messages |-> <<[by |-> None, kind |-> "system"]>>, rounds |-> <<>>,
     status |-> "active", plan |-> NoPlan, compacted |-> 0,
     covered |-> {}, omitted |-> {}]

Init ==
    /\ session = NewSession
    /\ pc = [o \in Ops |-> "idle"]
    /\ snap = [o \in Ops |-> NewSession]
    /\ task = [o \in Ops |-> NoPlan]

Goes(o, place) == pc' = [pc EXCEPT ![o] = place]

At(o, place) == pc[o] = place

\* The call returns: what it read is forgotten.
Ends(o, place) ==
    /\ Goes(o, place)
    /\ snap' = [snap EXCEPT ![o] = NewSession]

\* Mutant of Save: the revision counts messages.
SaveCounting(s) ==
    session' = [s EXCEPT !.revision = IF Len(s.messages) > Len(session.messages)
                                      THEN @ + 1 ELSE @]

\* save_brainstorm.  A write that fails leaves the file as it was, and no
\* caller looks at the result.
Save(s) ==
    \/ session' = [s EXCEPT !.revision = @ + 1]
    \/ SaveFaults /\ session' = session

\* A session with one more message.
Saying(s, o, kind) == [s EXCEPT !.messages = Append(@, [by |-> o, kind |-> kind])]

\* Replies are merged by the ids of messages.
Merging(s, o, kind) ==
    IF [by |-> o, kind |-> kind] \in ToSet(s.messages) THEN s ELSE Saying(s, o, kind)

-----------------------------------------------------------------------------
(* post_chat_message                                                       *)

PostMessage(o) ==
    /\ At(o, "idle")
    /\ Save(Saying(session, o, "user"))
    /\ Goes(o, "posted")
    /\ UNCHANGED <<snap, task>>

\* is_context_eligible
Eligible(m) == m.kind \notin {"notice", "error"}

\* The positions a compaction of s is about: it moves the index past them.
Batch(s) == {i \in s.compacted + 1 .. Len(s.messages) - KeepRecent : Eligible(s.messages[i])}

Compactable(s) == Len(s.messages) - s.compacted >= CompactAfter /\ Batch(s) # {}

\* What the prompt may hold of a batch: all of it, or, when the texts are
\* longer than MAX_COMPACTION_INPUT_CHARS, the newest messages under a mark
\* that says that older ones are left out.
Texts(s) ==
    LET suffixes == {{i \in Batch(s) : i >= first} : first \in Batch(s)}
    IN  {Batch(s)} \cup {text \in suffixes : Cardinality(text) >= Fits}

SnapshotChat(o) ==
    /\ At(o, "posted")
    /\ snap' = [snap EXCEPT ![o] = session]
    /\ Goes(o, IF Compactable(session) THEN "summarising" ELSE "compacted")
    /\ UNCHANGED <<session, task>>

\* The summary of the model is refused.
SummaryInvalid(o) ==
    /\ At(o, "summarising")
    /\ Goes(o, "compacted")
    /\ UNCHANGED <<session, snap, task>>

\* Mutant of CommitCompaction: no comparison of revisions, fresh index.
CommitOnFresh(o) ==
    /\ At(o, "summarising")
    /\ \E text \in Texts(snap[o]) :
          Save(Saying([session EXCEPT
                          !.compacted = Len(session.messages) - KeepRecent,
                          !.covered = @ \cup text,
                          !.omitted = @ \cup (Batch(snap[o]) \ text)], o, "notice"))
    /\ Goes(o, "compacted")
    /\ UNCHANGED <<snap, task>>

CommitCompaction(o) ==
    /\ At(o, "summarising")
    /\ session.revision = snap[o].revision
    /\ \E text \in Texts(snap[o]) :
          Save(Saying([session EXCEPT
                          !.compacted = Len(snap[o].messages) - KeepRecent,
                          !.covered = @ \cup text,
                          !.omitted = @ \cup (Batch(snap[o]) \ text)], o, "notice"))
    /\ Goes(o, "compacted")
    /\ UNCHANGED <<snap, task>>

CompactionStale(o) ==
    /\ At(o, "summarising")
    /\ session.revision # snap[o].revision
    /\ Goes(o, "compacted")
    /\ UNCHANGED <<session, snap, task>>

\* Mentions are looked up and the agent that follows them saved.
Route(o) ==
    /\ At(o, "compacted")
    /\ Save(session)
    /\ snap' = [snap EXCEPT ![o] = session]
    /\ Goes(o, "routed")
    /\ UNCHANGED task

\* A command is answered without a model, with the settings it changes.
Command(o) ==
    /\ At(o, "routed")
    /\ Save(Merging(session, o, "reply"))
    /\ Ends(o, "answered")
    /\ UNCHANGED task

\* The project is switched before the agents are asked.
SwitchAndAsk(o) ==
    /\ At(o, "routed")
    /\ Save(session)
    /\ Goes(o, "asking")
    /\ UNCHANGED <<snap, task>>

\* Mutant of Answer: the replies are added to the session as it was routed.
AnswerOnSnapshot(o) ==
    /\ pc[o] \in {"routed", "asking"}
    /\ \E kind \in {"reply", "error"} : Save(Merging(snap[o], o, kind))
    /\ Ends(o, "answered")
    /\ UNCHANGED task

\* The agents have answered, or failed.  The replies are saved together: one
\* message stands for them.
Answer(o) ==
    /\ pc[o] \in {"routed", "asking"}
    /\ \E kind \in {"reply", "error"} : Save(Merging(session, o, kind))
    /\ Ends(o, "answered")
    /\ UNCHANGED task

-----------------------------------------------------------------------------
(* run_round                                                               *)

StartRound(o) ==
    /\ At(o, "idle")
    /\ UNCHANGED session \/ Save(Saying(session, o, "user"))
    /\ snap' = [snap EXCEPT ![o] = session]
    /\ Goes(o, "deliberating")
    /\ UNCHANGED task

RoundNumber(o) == Len(snap[o].rounds) + 1

\* Mutant of CommitRound: rounds recorded meanwhile are not looked at.
CommitUnseen(o) ==
    /\ At(o, "deliberating")
    /\ Save(Saying([session EXCEPT
                       !.rounds = Append(@, [by |-> o, number |-> RoundNumber(o)])],
                   o, "synthesis"))
    /\ Ends(o, "done")
    /\ UNCHANGED task

CommitRound(o) ==
    /\ At(o, "deliberating")
    /\ Len(session.rounds) < RoundNumber(o)
    /\ Save(Saying([session EXCEPT
                       !.rounds = Append(@, [by |-> o, number |-> RoundNumber(o)])],
                   o, "synthesis"))
    /\ Ends(o, "done")
    /\ UNCHANGED task

ConflictingRound(o) ==
    /\ At(o, "deliberating")
    /\ Len(session.rounds) >= RoundNumber(o)
    /\ Ends(o, "done")
    /\ UNCHANGED <<session, task>>

-----------------------------------------------------------------------------
(* approve, then the execution of the plan by the command line             *)

\* Mutant of Approve: the plan of an earlier approval stays.
ApproveOnce(o) ==
    /\ At(o, "idle")
    /\ Save(Saying([session EXCEPT
                       !.status = "approved",
                       !.plan = IF @ = NoPlan THEN Len(session.rounds) ELSE @], o, "system"))
    /\ \/ snap' = [snap EXCEPT ![o] = session] /\ Goes(o, "approved")
       \/ Ends(o, "done")
    /\ UNCHANGED task

\* From the command line, which goes on, or from the dashboard, which does not.
Approve(o) ==
    /\ At(o, "idle")
    /\ Save(Saying([session EXCEPT
                       !.status = "approved",
                       !.plan = Len(session.rounds)], o, "system"))
    /\ \/ snap' = [snap EXCEPT ![o] = session] /\ Goes(o, "approved")
       \/ Ends(o, "done")
    /\ UNCHANGED task

\* to_execution_task, without the lock.
TakeTask(o) ==
    /\ At(o, "approved")
    /\ task' = [task EXCEPT ![o] = session.plan]
    /\ Goes(o, "executing")
    /\ UNCHANGED <<session, snap>>

\* run_full_workflow returns a success, a failure or a partial result.
WorkflowReturns(o) ==
    /\ At(o, "executing")
    /\ Goes(o, "worked")
    /\ UNCHANGED <<session, snap, task>>

WorkflowRaises(o) ==
    /\ At(o, "executing")
    /\ Ends(o, "done")
    /\ UNCHANGED <<session, task>>

\* mark_executed, whatever was returned.
MarkExecuted(o) ==
    /\ At(o, "worked")
    /\ Save([session EXCEPT !.status = "executed"])
    /\ Ends(o, "done")
    /\ UNCHANGED task

-----------------------------------------------------------------------------

Reject(o) ==
    /\ At(o, "idle")
    /\ Save(Saying([session EXCEPT !.status = "rejected"], o, "system"))
    /\ Goes(o, "done")
    /\ UNCHANGED <<snap, task>>

\* clear_active_session, for the session it leaves.
Archive(o) ==
    /\ At(o, "idle")
    /\ Save([session EXCEPT !.status = "archived"])
    /\ Goes(o, "done")
    /\ UNCHANGED <<snap, task>>

\* The process dies between two steps; a save is one os.replace.
Crash(o) ==
    /\ Crashes
    /\ pc[o] \notin {"idle", "answered", "done", "dead"}
    /\ Ends(o, "dead")
    /\ UNCHANGED <<session, task>>

Calls(o) == PostMessage(o) \/ StartRound(o) \/ Approve(o) \/ Reject(o) \/ Archive(o)

Proceeds(o) ==
    \/ SnapshotChat(o) \/ SummaryInvalid(o) \/ CommitCompaction(o) \/ CompactionStale(o)
    \/ Route(o) \/ Command(o) \/ SwitchAndAsk(o) \/ Answer(o)
    \/ CommitRound(o) \/ ConflictingRound(o)
    \/ TakeTask(o) \/ WorkflowReturns(o) \/ WorkflowRaises(o) \/ MarkExecuted(o)

Next == \E o \in Ops : Calls(o) \/ Proceeds(o) \/ Crash(o)

Spec == Init /\ [][Next]_vars

-----------------------------------------------------------------------------
\* Where a message of an operation with one of these kinds stands.
PositionsOf(o, kinds) ==
    {i \in DOMAIN session.messages :
        session.messages[i].by = o /\ session.messages[i].kind \in kinds}

\* What a user writes in the chat, and what it is answered, are in the file
\* exactly once and in this order, whatever other processes save while models
\* are asked.
KeptOnce ==
    \A o \in Ops :
        LET asked == PositionsOf(o, {"user"})
            told == PositionsOf(o, {"reply", "error"})
        IN  /\ pc[o] \in {"posted", "summarising", "compacted", "routed", "asking"}
                  => Cardinality(asked) = 1 /\ told = {}
            /\ At(o, "answered")
                  => /\ Cardinality(asked) = 1 /\ Cardinality(told) = 1
                     /\ \A i \in asked, j \in told : i < j

\* Two reads of the file that see the same revision see the same session: the
\* comparison that protects a compaction detects every change.
RevisionIdentifiesContent ==
    \A o \in Ops : snap[o].revision = session.revision => snap[o] = session

\* What prompts leave out as older than the index went through a compaction,
\* or was passed over by one that had no room for it and took at least Fits
\* newer messages: nothing is passed over because it was posted, answered or
\* compacted by somebody else while the model was asked.
SummaryCovers ==
    /\ {i \in 1..session.compacted : Eligible(session.messages[i])}
          \subseteq session.covered \cup session.omitted
    /\ \A i \in session.omitted : Cardinality({j \in session.covered : j > i}) >= Fits

\* What is executed is a plan, at least as recent as the rounds its approver
\* could see, even when others deliberate and approve in between.
ExecutesWhatWasApproved ==
    \A o \in Ops : pc[o] \in {"executing", "worked"} => task[o] >= Len(snap[o].rounds)

\* The session implements its abstract specification.
History == INSTANCE SessionHistory WITH
    Authors <- Ops, revision <- session.revision, messages <- session.messages,
    rounds <- session.rounds, compacted <- session.compacted

ImplementsHistory == History!Spec
=============================================================================

----------------------------- MODULE AgentSession -----------------------------
(***************************************************************************)
(* One task's durable agent session (src/src/agent.py): the conversation   *)
(* items of FileSession with the compaction of _CompactingSession, the two *)
(* runtimes that continue it over many runs, OpenAIAgentsBackend and       *)
(* SubscriptionCLIBackend, and IncidentAgent.run_session around them.      *)
(*                                                                         *)
(* Every store call is a transaction of its own on another thread, and a   *)
(* run may be cancelled, or its process die, between any two.  The CLI is  *)
(* a process: it survives the death of the one that started it.            *)
(***************************************************************************)
EXTENDS Integers, Sequences

CONSTANTS
  Threshold,   \* compaction_threshold
  Keep,        \* session_history_limit
  MaxItems,    \* bound on the items that a session is given
  MaxRuns,     \* bound on runs
  MaxCrashes,  \* bound on deaths of the process that runs the task
  MaxProgress  \* bound on saves of the record by others

\* Config's validator: the limit is below the threshold.
ASSUME SessionAssumption ==
  /\ Threshold \in Nat /\ Keep \in Nat \ {0} /\ Keep < Threshold
  /\ {MaxItems, MaxRuns, MaxCrashes, MaxProgress} \subseteq Nat

VARIABLES
  items,      \* sdk_items of the lead session and of a delegate's, by number;
              \* -n is a checkpoint of all up to item n
  added,      \* ghost: how many items each session was given, the last one's number
  memory,     \* of each session: the newest item that a checkpoint in memory.md covers
  record,     \* the task's record: backend_session_id, and how often others saved it
  run,        \* the run in progress
  calls,      \* whose tool calls the bridge is serving
  output,     \* session-output.json: whose last message it holds
  orphan,     \* has a CLI outlived the process that started it
  announced,  \* ghost: the thread that a CLI announced last
  spent       \* runs and crashes so far

store == <<items, added, memory>>
cli == <<calls, output, orphan>>
vars == <<store, record, run, cli, announced, spent>>

Sessions == {"lead", "delegate"}
None == 0
Empty == <<>>
NoRun ==
  [at |-> "idle", in |-> "lead", kept |-> Empty,
   task |-> [thread |-> None, progress |-> 0], exit |-> "none"]
Callers == {"own", "orphan"}

Init ==
  /\ items = [s \in Sessions |-> Empty]
  /\ added = [s \in Sessions |-> 0]
  /\ memory = [s \in Sessions |-> 0]
  /\ record = [thread |-> None, progress |-> 0]
  /\ run = NoRun
  /\ calls = {} /\ output = "none" /\ orphan = FALSE /\ announced = None
  /\ spent = [runs |-> 0, crashes |-> 0]

At(where) == run.at = where
To(where) == run' = [run EXCEPT !.at = where]
Ends == run' = NoRun

-----------------------------------------------------------------------------
(* A run: run_session() and _run()                                         *)

\* The pass loads the record before it refreshes the checkout, and the run
\* keeps that copy.
Begin ==
  /\ At("idle") /\ spent.runs < MaxRuns
  /\ run' = [NoRun EXCEPT !.at = "prepare", !.task = record]
  /\ spent' = [spent EXCEPT !.runs = @ + 1]
  /\ UNCHANGED <<store, record, cli, announced>>

\* No backend, a refresh that fails, a required skill that is missing, tools
\* that three attempts did not discover, or a registry that cannot be read.
Refuse ==
  /\ At("prepare") /\ Ends
  /\ UNCHANGED <<store, record, cli, announced, spent>>

\* reload_model() may have put the other runtime in between two runs.  The CLI
\* removes the output of an earlier run, replaces the socket of an earlier
\* bridge and writes a launcher with a token of its own.
Prepared ==
  /\ At("prepare")
  /\ \/ To("model") /\ UNCHANGED output
     \/ To("cli") /\ output' = "none"
  /\ UNCHANGED <<store, record, calls, orphan, announced, spent>>

-----------------------------------------------------------------------------
(* The SDK: turns append items, in the lead's session or a delegate's      *)

Here == run.in
\* Mutation: one item too few is kept.
RecentFewer(s) == SubSeq(items[s], Len(items[s]) - Keep + 2, Len(items[s]))
Recent(s) == SubSeq(items[s], Len(items[s]) - Keep + 1, Len(items[s]))
LastOld(s) == items[s][Len(items[s]) - Keep]

\* delegate_research and delegate_implementation run in stable child sessions.
Delegate ==
  /\ At("model") /\ Here = "lead"
  /\ run' = [run EXCEPT !.in = "delegate"]
  /\ UNCHANGED <<store, record, cli, announced, spent>>

Return ==
  /\ At("model") /\ Here = "delegate"
  /\ run' = [run EXCEPT !.in = "lead"]
  /\ UNCHANGED <<store, record, cli, announced, spent>>

Numbered(from, to) == [i \in 1 .. to - from |-> from + i]

AddItems(n) ==
  /\ At("model") /\ added[Here] + n <= MaxItems
  /\ items' = [items EXCEPT ![Here] = @ \o Numbered(added[Here], added[Here] + n)]
  /\ added' = [added EXCEPT ![Here] = @ + n]
  /\ To("measure")
  /\ UNCHANGED <<memory, record, cli, announced, spent>>

\* _compact_if_needed() reads the session again: it may be short enough, or
\* compaction is off.
Short ==
  /\ At("measure") /\ To("model")
  /\ UNCHANGED <<store, record, cli, announced, spent>>

\* The summary of what is about to go is in memory.md before anything goes.
Summarise ==
  /\ At("measure") /\ Len(items[Here]) > Threshold
  /\ run' = [run EXCEPT !.at = "summarised", !.kept = <<-LastOld(Here)>> \o Recent(Here)]
  /\ memory' = [memory EXCEPT ![Here] = LastOld(Here)]
  /\ UNCHANGED <<items, added, record, cli, announced, spent>>

Clear ==
  /\ At("summarised") /\ To("cleared")
  /\ items' = [items EXCEPT ![Here] = Empty]
  /\ UNCHANGED <<added, memory, record, cli, announced, spent>>

PutBack ==
  /\ At("cleared")
  /\ items' = [items EXCEPT ![Here] = @ \o run.kept]
  /\ run' = [run EXCEPT !.at = "model", !.kept = Empty]
  /\ UNCHANGED <<added, memory, record, cli, announced, spent>>

\* The turns are spent or the provider fails; cancellation takes effect
\* between two transactions, also in the middle of a compaction.
Interrupted ==
  /\ run.at \in {"model", "measure", "summarised", "cleared"} /\ Ends
  /\ UNCHANGED <<store, record, cli, announced, spent>>

Answered ==
  /\ At("model") /\ Here = "lead" /\ Ends
  /\ UNCHANGED <<store, record, cli, announced, spent>>

-----------------------------------------------------------------------------
(* The CLI: a process with a bridge to the tools of the run                *)

\* _communicate(): the identity is saved as soon as it is emitted, in the
\* record as it is now.  A fresh CLI makes a thread of its own.
Saved(thread) == [record EXCEPT !.thread = thread]

Announce ==
  /\ At("cli")
  /\ announced' = IF run.task.thread # None THEN run.task.thread ELSE spent.runs
  /\ record' = Saved(announced')
  /\ UNCHANGED <<store, run, cli, spent>>

\* The launcher that both find at the same path has the token of this bridge,
\* so a CLI that outlived an earlier run is served as well.
Call(who) ==
  /\ At("cli") /\ who \notin calls
  /\ who = "orphan" => orphan
  /\ calls' = calls \cup {who}
  /\ UNCHANGED <<store, record, run, output, orphan, announced, spent>>

\* A lifecycle tool saves the record that it has loaded; most tools save none,
\* and an error is the answer to the caller.  The caller may be gone by then.
Serve(who) ==
  /\ who \in calls
  /\ calls' = calls \ {who}
  /\ \/ UNCHANGED record
     \/ record.progress < MaxProgress /\ record' = [record EXCEPT !.progress = @ + 1]
  /\ UNCHANGED <<store, run, output, orphan, announced, spent>>

\* It exits with zero, with a last message in the file or without; else it
\* exits otherwise, or is killed when the time is over or the run is cancelled,
\* or could not even start.
Exit(how) ==
  /\ At("cli")
  /\ run' = [run EXCEPT !.at = "closing", !.exit = how]
  /\ \/ how = "zero" /\ output' \in {output, "own"}
     \/ how # "zero" /\ UNCHANGED output
  /\ UNCHANGED <<store, record, calls, orphan, announced, spent>>

\* The end of the bridge waits for the handlers that still run.  Whatever the
\* exit was, the output is removed.
Closed ==
  /\ At("closing") /\ calls = {}
  /\ IF run.exit = "zero" THEN To("decode") /\ UNCHANGED output ELSE Ends /\ output' = "none"
  /\ UNCHANGED <<store, record, calls, orphan, announced, spent>>

\* It does not wait when it is cancelled once more, and they go on.
Abandoned ==
  /\ At("closing") /\ Ends /\ output' = "none"
  /\ UNCHANGED <<store, record, calls, orphan, announced, spent>>

\* _decode_output(): the file, or else the last message on stdout; an answer
\* that is missing or does not fit the schema fails.  The file is removed.
Decoded ==
  /\ At("decode") /\ Ends
  /\ output' = "none"
  /\ UNCHANGED <<store, record, calls, orphan, announced, spent>>

-----------------------------------------------------------------------------
(* Others                                                                  *)

\* Webhooks save the record at any time, on the same event loop, and so do the
\* tools that an SDK turn calls: in the record as it is now.
Webhook ==
  /\ record.progress < MaxProgress
  /\ record' = [record EXCEPT !.progress = @ + 1]
  /\ UNCHANGED <<store, run, cli, announced, spent>>

\* The process dies.  A CLI that was running goes on by itself.
Crash ==
  /\ run # NoRun /\ spent.crashes < MaxCrashes
  /\ Ends /\ calls' = {}
  /\ orphan' = (orphan \/ At("cli"))
  /\ spent' = [spent EXCEPT !.crashes = @ + 1]
  /\ UNCHANGED <<store, record, output, announced>>

\* It ends at last, and may write its last message where every run of the
\* task looks for its own.
OrphanEnds ==
  /\ orphan /\ orphan' = FALSE
  /\ output' \in {output, "orphan"}
  /\ UNCHANGED <<store, record, run, calls, announced, spent>>

Next ==
  \/ Begin \/ Refuse \/ Prepared
  \/ Delegate \/ Return
  \/ \E n \in 1 .. 2 : AddItems(n)
  \/ Short \/ Summarise \/ Clear \/ PutBack \/ Interrupted \/ Answered
  \/ Announce
  \/ \E who \in Callers : Call(who) \/ Serve(who)
  \/ \E how \in {"zero", "failed"} : Exit(how)
  \/ Closed \/ Abandoned \/ Decoded \/ Webhook \/ Crash \/ OrphanEnds

Spec == Init /\ [][Next]_vars

-----------------------------------------------------------------------------
(* Properties                                                              *)

Items == Seq(Int)
Runs ==
  [at : {"idle", "prepare", "model", "measure", "summarised", "cleared",
         "cli", "closing", "decode"},
   in : Sessions, kept : Items,
   task : [thread : Nat, progress : Nat], exit : {"none", "zero", "failed"}]

\* Type correctness of the session, the record and the run.
TypeOK ==
  /\ items \in [Sessions -> Items]
  /\ added \in [Sessions -> Nat] /\ memory \in [Sessions -> Int]
  /\ record \in [thread : Nat, progress : Nat]
  /\ run \in Runs
  /\ calls \subseteq Callers /\ output \in {"none"} \cup Callers
  /\ orphan \in BOOLEAN /\ announced \in Nat
  /\ spent \in [runs : Nat, crashes : Nat]

\* Whatever is interrupted where, the items that a session holds are the newest
\* that it was given, without a gap and each once, after a checkpoint of all
\* those before them, if there is one; memory.md covers what it stands for.
Upto(n) == IF n < 0 THEN -n ELSE n
Gapless(q, top) ==
  \A i \in 1 .. Len(q) :
    /\ Upto(q[i]) = top - (Len(q) - i)
    /\ i > 1 => q[i] > 0
GaplessTail ==
  \A s \in Sessions :
    /\ Gapless(items[s], added[s])
    /\ items[s] # Empty => items[s][1] >= -memory[s]

\* Saving the thread, long after the run loaded its copy of the record, undoes
\* no save that webhooks and tools made since; and no run, whichever runtime it
\* has and whatever outlived an earlier one, replaces a thread by another.
RecordKept ==
  [][/\ record'.progress >= record.progress
     /\ record.thread # None => record'.thread = record.thread]_vars
=============================================================================

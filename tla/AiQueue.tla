------------------------------- MODULE AiQueue -------------------------------
(***************************************************************************)
(* The queue of AI jobs (src/backend/services/tagging_pipeline_service.py, *)
(* _tagging_pipeline_persistence.py, ai_job_queue_store.py) between the    *)
(* gallery tagging run, Smart Tag and the caption batch: a start request   *)
(* runs at once when all three are idle and waits in a persisted FIFO      *)
(* otherwise, from which one dispatcher thread starts it.                  *)
(*                                                                         *)
(* A section under gallery_job_transition() and _start_lock, or under      *)
(* _start_lock alone, is one action; the dispatcher's path check, the two  *)
(* halves of a cancel and the caption batch's resolution of its pictures   *)
(* happen between sections.  A crash loses everything but the queue file.  *)
(* Left out: probes that fail (a start is refused, the dispatcher waits)   *)
(* and a write of the file that fails (it is logged and the next one       *)
(* replaces it).                                                           *)
(***************************************************************************)
EXTENDS Naturals, FiniteSets, Sequences, SequencesExt, Subsequences

CONSTANTS
    Jobs,       \* the start requests of an instance, each made once
    Kinds,      \* the three kinds of job
    Gallery,    \* KIND_GALLERY: its queued head is path-checked without a lock
    Caption,    \* KIND_VLM: claims its slot before it knows its pictures
    Smart,      \* KIND_SMART: its runs can also be cancelled one by one
    KindOf,     \* the kind of each request
    PrintOf,    \* _fingerprint of each request
    MaxCrashes, \* bound: crashes of the process
    MaxCancels, \* bound: cancel requests between their halves at once
    None

ASSUME QueueAssumption ==
    /\ Kinds = {Gallery, Caption, Smart} /\ Cardinality(Kinds) = 3
    /\ KindOf \in [Jobs -> Kinds]
    /\ MaxCrashes \in Nat /\ MaxCancels \in Nat
    /\ None \notin Jobs
    /\ Jobs \cap Kinds = {}

VARIABLES
    queue,      \* _queue
    marker,     \* _running_entry
    file,       \* ai-job-queue.json: the marker, then the queue
    slot,       \* the job at work in each runtime
    resolving,  \* the caption batch holds its slot and still counts its pictures
    stop,       \* the runtimes whose job has been asked to stop
    cancels,    \* cancel requests between their two halves, of a kind or of one run
    disp,       \* where the dispatcher thread is
    checked,    \* the gallery head that its path check has passed or is about to
    clearing,   \* clear_gallery holds the transition lock and is deleting rows
    up,         \* the process runs
    crashes,
    fate,       \* what has become of each request
    forgotten   \* history: the jobs a finished cancel was about or has unmarked

memory == <<queue, marker, slot, resolving, stop, cancels, disp, checked, clearing>>
vars == <<memory, file, up, crashes, fate, forgotten>>

\* "live" started at once, "dispatched" from the queue; a crash turns these
\* into "lost" and "killed".
Fates == {"new", "waiting", "merged", "live", "dispatched", "over", "refused", "dropped",
          "lost", "killed"}

Idle == \A k \in Kinds : slot[k] = None
Queued == ToSet(queue)
\* _persist_state_locked.  (Fault: the running entry is left out.)
MutSaved(m, q) == q
Saved(m, q) == IF m = None THEN q ELSE <<m>> \o q
Free == up /\ ~clearing

Forget(kind, q) == Pick(q, {p \in DOMAIN q : KindOf[q[p]] # kind})
Fated(js, f) == [j \in Jobs |-> IF j \in js THEN f ELSE fate[j]]

Init ==
    /\ queue = <<>> /\ file = <<>> /\ marker = None
    /\ slot = [k \in Kinds |-> None]
    /\ resolving = FALSE
    /\ stop = {}
    /\ cancels = {}
    /\ disp = "off"
    /\ checked = None
    /\ clearing = FALSE
    /\ up = TRUE
    /\ crashes = 0
    /\ fate = [j \in Jobs |-> "new"]
    /\ forgotten = {}

-----------------------------------------------------------------------------
(* Requests *)

\* The runtime of j's kind takes it.
Occupy(j) ==
    /\ slot' = [slot EXCEPT ![KindOf[j]] = j]
    /\ resolving' = (resolving \/ KindOf[j] = Caption)
    /\ stop' = stop \ {KindOf[j]}

\* A start request that finds the three runtimes idle, whatever waits in the
\* queue.  (Fault: it only looks at its own runtime.)
MutStartNow(j) ==
    /\ Free
    /\ fate[j] = "new"
    /\ slot[KindOf[j]] = None
    /\ Occupy(j)
    /\ fate' = Fated({j}, "live")
    /\ UNCHANGED <<queue, marker, file, cancels, disp, checked, clearing, up, crashes, forgotten>>
StartNow(j) ==
    /\ Free
    /\ fate[j] = "new"
    /\ Idle
    /\ Occupy(j)
    /\ fate' = Fated({j}, "live")
    /\ UNCHANGED <<queue, marker, file, cancels, disp, checked, clearing, up, crashes, forgotten>>

\* _enqueue_locked: a request like the last one waiting is answered with that
\* one's place; otherwise it joins the queue, and a dispatcher exists.  (Fault:
\* none is started.)
MutEnqueue(j) ==
    /\ Free
    /\ fate[j] = "new"
    /\ ~Idle
    /\ IF queue # <<>> /\ PrintOf[Last(queue)] = PrintOf[j]
         THEN fate' = Fated({j}, "merged") /\ UNCHANGED <<queue, file, disp>>
         ELSE /\ queue' = Append(queue, j)
              /\ file' = Saved(marker, queue')
              /\ fate' = Fated({j}, "waiting")
              /\ UNCHANGED disp
    /\ UNCHANGED <<marker, slot, resolving, stop, cancels, checked, clearing, up, crashes, forgotten>>
Enqueue(j) ==
    /\ Free
    /\ fate[j] = "new"
    /\ ~Idle
    /\ IF queue # <<>> /\ PrintOf[Last(queue)] = PrintOf[j]
         THEN fate' = Fated({j}, "merged") /\ UNCHANGED <<queue, file, disp>>
         ELSE /\ queue' = Append(queue, j)
              /\ file' = Saved(marker, queue')
              /\ fate' = Fated({j}, "waiting")
              /\ disp' = IF disp = "off" THEN "poll" ELSE disp
    /\ UNCHANGED <<marker, slot, resolving, stop, cancels, checked, clearing, up, crashes, forgotten>>

Unmarked(kind) == IF marker # None /\ KindOf[marker] = kind THEN None ELSE marker
Touched(js) == forgotten' = forgotten \cup (js \ {None})

\* A cancel endpoint, first half: remove_queued_jobs.  (Fault: the entry of the
\* job at work stays.)
MutCancelQueued(kind) ==
    /\ up
    /\ kind \notin cancels /\ Cardinality(cancels) < MaxCancels
    /\ cancels' = cancels \cup {kind}
    /\ queue' = Forget(kind, queue)
    /\ file' = Saved(marker, queue')
    /\ fate' = Fated({j \in Queued : KindOf[j] = kind}, "dropped")
    /\ Touched({slot[kind]})
    /\ UNCHANGED <<marker, slot, resolving, stop, disp, checked, clearing, up, crashes>>
CancelQueued(kind) ==
    /\ up
    /\ kind \notin cancels /\ Cardinality(cancels) < MaxCancels
    /\ cancels' = cancels \cup {kind}
    /\ queue' = Forget(kind, queue)
    /\ marker' = Unmarked(kind)
    /\ file' = Saved(marker', queue')
    /\ fate' = Fated({j \in Queued : KindOf[j] = kind}, "dropped")
    /\ Touched({slot[kind]})
    /\ UNCHANGED <<slot, resolving, stop, disp, checked, clearing, up, crashes>>

\* Second half: the runtime's own cancel.
CancelLive(kind) ==
    /\ up
    /\ kind \in cancels
    /\ cancels' = cancels \ {kind}
    /\ stop' = IF slot[kind] = None THEN stop ELSE stop \cup {kind}
    /\ UNCHANGED <<queue, marker, file, slot, resolving, disp, checked, clearing, up, crashes, fate, forgotten>>

\* _cancel_one_smart_run: the entry if it waits, the job if it is at work.
CancelWaiting(j) ==
    /\ up
    /\ KindOf[j] = Smart /\ j \in Queued
    /\ queue' = Pick(queue, {p \in DOMAIN queue : queue[p] # j})
    /\ file' = Saved(marker, queue')
    /\ fate' = Fated({j}, "dropped")
    /\ UNCHANGED <<marker, slot, resolving, stop, cancels, disp, checked, clearing, up, crashes, forgotten>>

CancelRun(j) ==
    /\ up
    /\ slot[Smart] = j /\ j \notin cancels /\ Cardinality(cancels) < MaxCancels
    /\ stop' = stop \cup {Smart}
    /\ cancels' = cancels \cup {j}
    /\ UNCHANGED <<queue, marker, file, slot, resolving, disp, checked, clearing, up, crashes, fate, forgotten>>

\* Its last section takes the marker of whatever Smart Tag run holds it by then.
CancelRunForgets(j) ==
    /\ up
    /\ j \in cancels
    /\ cancels' = cancels \ {j}
    /\ marker' = Unmarked(Smart)
    /\ file' = Saved(marker', queue)
    /\ Touched({j} \cup ({marker} \ {marker'}))
    /\ UNCHANGED <<queue, slot, resolving, stop, disp, checked, clearing, up, crashes, fate>>

\* clear_gallery: refused while a job is at work or waits, or a dispatched one
\* is not known to have ended.  (Fault: the runtimes are not asked.)
MutClearStarts ==
    /\ Free
    /\ queue = <<>> /\ marker = None
    /\ clearing' = TRUE
    /\ UNCHANGED <<queue, marker, slot, resolving, stop, cancels, disp, checked, file, up, crashes, fate, forgotten>>
ClearStarts ==
    /\ Free
    /\ Idle /\ queue = <<>> /\ marker = None
    /\ clearing' = TRUE
    /\ UNCHANGED <<queue, marker, slot, resolving, stop, cancels, disp, checked, file, up, crashes, fate, forgotten>>

ClearEnds ==
    /\ clearing
    /\ clearing' = FALSE
    /\ UNCHANGED <<queue, marker, slot, resolving, stop, cancels, disp, checked, file, up, crashes, fate, forgotten>>

-----------------------------------------------------------------------------
(* Jobs at work *)

\* The caption batch knows its pictures and starts; whatever was asked of it
\* meanwhile is overwritten with a fresh progress record.
BatchResolves ==
    /\ resolving
    /\ resolving' = FALSE
    /\ stop' = stop \ {Caption}
    /\ UNCHANGED <<queue, marker, file, slot, cancels, disp, checked, clearing, up, crashes, fate, forgotten>>

\* The job ends: done, failed, stopped, or its pictures cannot be resolved.
JobEnds(kind) ==
    /\ slot[kind] # None
    /\ slot' = [slot EXCEPT ![kind] = None]
    /\ resolving' = (resolving /\ kind # Caption)
    /\ stop' = stop \ {kind}
    /\ fate' = Fated({slot[kind]}, "over")
    /\ UNCHANGED <<queue, marker, file, cancels, disp, checked, clearing, up, crashes, forgotten>>

-----------------------------------------------------------------------------
(* The dispatcher thread *)

\* Nothing waits.  The marker goes once the runtimes are idle, and without a
\* marker the thread ends.
PollEmpty ==
    /\ disp = "poll"
    /\ queue = <<>>
    /\ marker = None \/ Idle
    /\ marker' = None
    /\ file' = <<>>
    /\ disp' = "off"
    /\ UNCHANGED <<queue, slot, resolving, stop, cancels, checked, clearing, up, crashes, fate, forgotten>>

\* _check_head_outside_lock: only a gallery job over idle runtimes is checked.
PollHead ==
    /\ disp = "poll"
    /\ queue # <<>>
    /\ IF KindOf[Head(queue)] = Gallery /\ Idle
         THEN disp' = "check" /\ checked' = Head(queue)
         ELSE disp' = "go" /\ checked' = None
    /\ UNCHANGED <<queue, marker, file, slot, resolving, stop, cancels, clearing, up, crashes, fate, forgotten>>

CheckPasses ==
    /\ disp = "check"
    /\ disp' = "go"
    /\ UNCHANGED <<queue, marker, file, slot, resolving, stop, cancels, checked, clearing, up, crashes, fate, forgotten>>

\* Leave the queue for good: the job at the head could not be started.
DropHead(f) ==
    /\ queue' = Tail(queue)
    /\ marker' = None
    /\ file' = Saved(None, queue')
    /\ fate' = Fated({Head(queue)}, f)

\* The head may have been cancelled or replaced while the share answered.
CheckRefuses ==
    /\ disp = "check"
    /\ Free
    /\ checked' = None
    /\ IF queue # <<>> /\ Head(queue) = checked
         THEN disp' = "poll" /\ DropHead("refused")
         ELSE disp' = "go" /\ UNCHANGED <<queue, marker, file, fate>>
    /\ UNCHANGED <<slot, resolving, stop, cancels, clearing, up, crashes, forgotten>>

\* dispatch_pending_once under the locks: may the head start now?
HeadMayStart ==
    /\ queue # <<>>
    /\ KindOf[Head(queue)] = Gallery => Head(queue) = checked
    /\ Idle

DispatchWaits ==
    /\ disp = "go" /\ Free
    /\ ~HeadMayStart
    /\ disp' = "poll"
    /\ checked' = None
    /\ UNCHANGED <<queue, marker, file, slot, resolving, stop, cancels, clearing, up, crashes, fate, forgotten>>

\* The head starts and becomes the marker.  A crash between its start and the
\* write of the file leaves what a crash before the dispatch leaves.  (Fault:
\* it stays in the queue.)
MutDispatchStarts ==
    /\ disp = "go" /\ Free
    /\ HeadMayStart
    /\ disp' = "poll"
    /\ checked' = None
    /\ Occupy(Head(queue))
    /\ marker' = Head(queue)
    /\ file' = Saved(marker', queue)
    /\ fate' = Fated({Head(queue)}, "dispatched")
    /\ UNCHANGED <<queue, cancels, clearing, up, crashes, forgotten>>
DispatchStarts ==
    /\ disp = "go" /\ Free
    /\ HeadMayStart
    /\ disp' = "poll"
    /\ checked' = None
    /\ Occupy(Head(queue))
    /\ queue' = Tail(queue)
    /\ marker' = Head(queue)
    /\ file' = Saved(marker', queue')
    /\ fate' = Fated({Head(queue)}, "dispatched")
    /\ UNCHANGED <<cancels, clearing, up, crashes, forgotten>>

DispatchFails ==
    /\ disp = "go" /\ Free
    /\ HeadMayStart
    /\ disp' = "poll"
    /\ checked' = None
    /\ DropHead("refused")
    /\ UNCHANGED <<slot, resolving, stop, cancels, clearing, up, crashes, forgotten>>

-----------------------------------------------------------------------------
(* Crash and restart *)

Crash ==
    /\ up
    /\ crashes < MaxCrashes
    /\ crashes' = crashes + 1
    /\ up' = FALSE
    /\ queue' = <<>> /\ marker' = None
    /\ slot' = [k \in Kinds |-> None]
    /\ resolving' = FALSE /\ stop' = {} /\ cancels' = {}
    /\ disp' = "off" /\ checked' = None /\ clearing' = FALSE
    /\ fate' = [j \in Jobs |-> CASE fate[j] = "live" -> "lost"
                                [] fate[j] = "dispatched" -> "killed"
                                [] OTHER -> fate[j]]
    /\ UNCHANGED <<file, forgotten>>

\* Of equal neighbours the first stays.
Collapsed(q) == Pick(q, {p \in DOMAIN q : p = 1 \/ PrintOf[q[p - 1]] # PrintOf[q[p]]})

\* _restore_persisted_queue: the entry that was running waits again, first.
Restart ==
    /\ ~up
    /\ up' = TRUE
    /\ queue' = Collapsed(file)
    /\ file' = queue'
    /\ disp' = IF queue' = <<>> THEN "off" ELSE "poll"
    /\ fate' = [j \in Jobs |-> IF j \in ToSet(queue') THEN "waiting"
                               ELSE IF j \in ToSet(file) THEN "merged" ELSE fate[j]]
    /\ UNCHANGED <<marker, slot, resolving, stop, cancels, checked, clearing, crashes, forgotten>>

-----------------------------------------------------------------------------
Dispatcher ==
    \/ PollEmpty \/ PollHead \/ CheckPasses \/ CheckRefuses
    \/ DispatchWaits \/ DispatchStarts \/ DispatchFails

Next ==
    \/ \E j \in Jobs : StartNow(j) \/ Enqueue(j)
    \/ \E kind \in Kinds : CancelQueued(kind) \/ CancelLive(kind) \/ JobEnds(kind)
    \/ \E j \in Jobs : CancelWaiting(j) \/ CancelRun(j) \/ CancelRunForgets(j)
    \/ ClearStarts \/ ClearEnds \/ BatchResolves
    \/ Dispatcher \/ Crash \/ Restart

Spec == Init /\ [][Next]_vars

\* The dispatcher thread polls, jobs and deletions end, a program that crashed
\* is started again.
FairSpec ==
    /\ Spec
    /\ WF_vars(Dispatcher)
    /\ \A kind \in Kinds : WF_vars(JobEnds(kind))
    /\ WF_vars(ClearEnds)
    /\ WF_vars(Restart)

-----------------------------------------------------------------------------
(* Properties *)

\* Type invariant; a request stands once in what is saved, the running one and
\* those that wait, so that no restart runs it twice.
TypeOK ==
    /\ queue \in Seq(Jobs) /\ marker \in Jobs \cup {None}
    /\ \A i, j \in DOMAIN Saved(marker, queue) :
         Saved(marker, queue)[i] = Saved(marker, queue)[j] => i = j
    /\ file \in Seq(Jobs)
    /\ slot \in [Kinds -> Jobs \cup {None}]
    /\ \A k \in Kinds : slot[k] # None => KindOf[slot[k]] = k
    /\ resolving \in BOOLEAN
    /\ stop \subseteq Kinds
    /\ cancels \subseteq Kinds \cup Jobs
    /\ disp \in {"off", "poll", "check", "go"}
    /\ checked \in Jobs \cup {None}
    /\ clearing \in BOOLEAN /\ up \in BOOLEAN
    /\ crashes \in 0 .. MaxCrashes
    /\ fate \in [Jobs -> Fates]
    /\ forgotten \subseteq Jobs

\* Two jobs never share the machine: the start paths, the dispatcher and the
\* restart agree on which runtimes are idle.
AtMostOneJob ==
    \A j, k \in Kinds : slot[j] # None /\ slot[k] # None => j = k

\* A crash loses no request that waited or was started from the queue, unless a
\* cancel took it away: it is on file.
PromisedIsOnFile ==
    \A j \in Jobs :
        fate[j] \in {"waiting", "dispatched", "killed"} /\ j \notin forgotten =>
            j \in ToSet(file)

\* Neither does a restart bring back what a cancel has taken out of the queue or
\* stopped, or what could not be started.
AnsweredStaysDown ==
    \A j \in Jobs :
        fate[j] \in {"dropped", "refused"} \/ j \in forgotten => j \notin ToSet(file)

\* The jobs and the clearing of the gallery keep the promise of the gate.
Gate == INSTANCE GalleryGate WITH
    Jobs <- Kinds, live <- {k \in Kinds : slot[k] # None}
ImplementsGate == Gate!Spec

\* Every queued request is started or answered, whatever ends, crashes or is
\* cancelled around it, and the file forgets a job that has ended, so a later
\* restart does not repeat it.
QueueDrains ==
    \A j \in Jobs :
        /\ fate[j] = "waiting" ~> fate[j] # "waiting"
        /\ marker = j /\ fate[j] = "over" ~> marker # j
=============================================================================

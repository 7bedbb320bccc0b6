------------------------------ MODULE GpuModels ------------------------------
(* The threads that use the VRAM lease of AiRuntime and the models they leave *)
(* on the GPU between leases: the style encoder (csd_encoder.py) with its      *)
(* load lock, a tagger that Smart Tag drops before a caption model loads       *)
(* (tagger.py, tagger_inference.py), and the idle sweep (model_residency.py).  *)
(* A GPU model claims residency, which releases the other models               *)
(* (ai_runtime_guard.py:587-639).  One thing is done without the lease: when   *)
(* video memory runs low, Smart Tag rebuilds the tagger's session between two  *)
(* windows (smart_tag/tagging.py:206-208); it needs no lease for that, so a    *)
(* thread of its own does it.  Threads serve requests for ever; a lease that   *)
(* is refused (AiRuntimeBusyError) ends the request or the batch.              *)
EXTENDS AiRuntime, FiniteSets

CONSTANTS Kind,    \* [Threads -> {"style", "tag", "sweep", "refresh"}]
          Lanes    \* the priorities with which threads ask to tag
ASSUME KindAssumption ==
    /\ Lanes \subseteq Ranks
    /\ Kind \in [Threads -> {"style", "tag", "sweep", "refresh"}]
    /\ Timed = {t \in Threads : Kind[t] = "sweep"}

VARIABLES place,      \* where each model (the tagger: its session) is: "none", "gpu" or "cpu"
          residents,  \* _gpu_residents: the models the next claim releases
          hasLoaded,  \* the tagger's _loaded; "never" before load() has found its files
          loadLock,   \* CsdEncoder._load_lock: the thread that holds it, or NoThread
          pc,         \* what each thread is about to do
          lost        \* history: a refresh took the session of a loaded tagger

models == <<place, residents, hasLoaded, lost>>
gpuVars == <<lease, models, loadLock, pc>>

Models == {"tagger", "csd"}
StylePcs == {"idle", "lock", "load", "loaded", "failed", "ready", "batch", "reload",
             "build", "forward", "done", "between"}
TagPcs == {"idle", "tag", "infer", "free", "forget", "done"}
SweepPcs == {"idle", "sweep", "done"}
RefreshPcs == {"idle", "remake"}

Loaded(m) == place[m] # "none"
Inside(t) == stage[t] = "in"
GoesTo(t, p) == pc' = [pc EXCEPT ![t] = p]

\* A request is over; a job may go on with its next batch.
EndsRequest(t) ==
    \/ GoesTo(t, "idle")
    \/ Kind[t] = "style" /\ rank[t] = 100 /\ GoesTo(t, "between")

GpuInit ==
    /\ LeaseInit
    /\ place = [m \in Models |-> "none"] /\ residents = {}
    /\ hasLoaded = "never" /\ lost = FALSE
    /\ loadLock = NoThread
    /\ pc = [t \in Threads |-> "idle"]

------------------------------------------------------------------------------
(* Claiming and releasing the GPU                                             *)

\* claim_gpu_residency: every other registered model is released, `m` is
\* registered (and stays so, unless it forgets itself), and then lies on `where`.
Claim(m, where, listed) ==
    /\ place' = [n \in Models |-> IF n = m THEN where
                                  ELSE IF n \in residents THEN "none" ELSE place[n]]
    /\ residents' = listed

\* Loading on the CPU, without a claim.
OnCpu(m) == place' = [place EXCEPT ![m] = "cpu"]

\* release_session also clears _loaded: the next tag() loads.
TaggerLeaves(gone) ==
    /\ hasLoaded' = IF "tagger" \in gone /\ hasLoaded = "yes" THEN "no" ELSE hasLoaded
    /\ lost' = (lost /\ "tagger" \notin gone)

Unload(m) ==
    /\ place' = [place EXCEPT ![m] = "none"]
    /\ residents' = residents \ {m}
    /\ TaggerLeaves({m})

\* What building the encoder does: it is on the GPU, or on the CPU, or it
\* failed before or after the claim.
EncoderBuilt ==
    \/ Claim("csd", "gpu", {"csd"}) /\ TaggerLeaves(residents)
    \/ OnCpu("csd") /\ residents' = residents \ {"csd"} /\ UNCHANGED <<hasLoaded, lost>>
EncoderFails(listed) ==
    \/ Unload("csd")
    \/ Claim("csd", "none", listed) /\ TaggerLeaves(residents)

------------------------------------------------------------------------------
(* The style encoder: CsdEncoder.load, then batches                           *)

\* load() has a fast path outside every lock.
AskStyle(t) ==
    /\ pc[t] = "idle" /\ Kind[t] = "style"
    /\ GoesTo(t, IF Loaded("csd") THEN "ready" ELSE "lock")
    /\ UNCHANGED <<lease, models, loadLock>>

\* load() takes _load_lock, looks again, and asks for the lease inside it,
\* unless the model is not installed.
TakeLoadLock(t) ==
    /\ pc[t] = "lock" /\ loadLock = NoThread
    /\ \/ Loaded("csd") /\ GoesTo(t, "ready") /\ UNCHANGED <<lease, loadLock>>
       \/ ~Loaded("csd") /\ GoesTo(t, "load") /\ loadLock' = t /\ Enter(t, 50)
       \/ ~Loaded("csd") /\ GoesTo(t, "failed") /\ loadLock' = t /\ UNCHANGED lease
    /\ UNCHANGED models

BuildFirst(t) ==
    /\ pc[t] = "load" /\ Inside(t)
    /\ \/ EncoderBuilt /\ GoesTo(t, "loaded")
       \/ EncoderFails({"csd"}) /\ GoesTo(t, "failed")
    /\ UNCHANGED <<lease, loadLock>>

\* The lease is given back; then load() releases what a failed load left, and
\* in either case lets go of _load_lock.  (Fault: a failed load keeps the lock.)
MutEndLoad(t) ==
    /\ stage[t] = "out"
    /\ \/ /\ pc[t] = "loaded" /\ GoesTo(t, "ready")
          /\ UNCHANGED models /\ loadLock' = NoThread
       \/ pc[t] = "failed" /\ GoesTo(t, "idle") /\ Unload("csd") /\ UNCHANGED loadLock
    /\ UNCHANGED lease

EndLoad(t) ==
    /\ stage[t] = "out"
    /\ \/ pc[t] = "loaded" /\ GoesTo(t, "ready") /\ UNCHANGED models
       \/ pc[t] = "failed" /\ GoesTo(t, "idle") /\ Unload("csd")
    /\ loadLock' = NoThread
    /\ UNCHANGED lease

\* A batch of a job (priority 100), or the one batch of a query (0), asks for
\* the lease.
AskBatch(t, p) ==
    /\ pc[t] = "ready"
    /\ Enter(t, p)
    /\ GoesTo(t, "batch")
    /\ UNCHANGED <<models, loadLock>>

\* A job has more pictures.
NextBatch(t) ==
    /\ pc[t] = "between"
    /\ Enter(t, 100)
    /\ GoesTo(t, "batch")
    /\ UNCHANGED <<models, loadLock>>

\* Another model may have released the encoder since.  (Fault: nobody looks.)
MutLookAtModel(t) ==
    /\ pc[t] = "batch" /\ Inside(t)
    /\ GoesTo(t, "forward")
    /\ UNCHANGED <<lease, models, loadLock>>

LookAtModel(t) ==
    /\ pc[t] = "batch" /\ Inside(t)
    /\ GoesTo(t, IF Loaded("csd") THEN "forward" ELSE "reload")
    /\ UNCHANGED <<lease, models, loadLock>>

\* load() inside the lease: it waits for _load_lock with the lease in hand.
TakeReloadLock(t) ==
    /\ pc[t] = "reload" /\ loadLock = NoThread
    /\ loadLock' = t
    /\ Nest(t)
    /\ GoesTo(t, "build")
    /\ UNCHANGED models

Rebuild(t) ==
    /\ pc[t] = "build"
    /\ \/ EncoderBuilt /\ GoesTo(t, "forward")
       \/ EncoderFails({}) /\ GoesTo(t, "done")
    /\ Unnest(t)
    /\ loadLock' = NoThread

\* embed_batch: the model works on the batch until it is done or raises.
Forward(t) ==
    /\ pc[t] = "forward"
    /\ GoesTo(t, "done")
    /\ UNCHANGED <<lease, models, loadLock>>

------------------------------------------------------------------------------
(* The tagger, Smart Tag and the idle sweep                                   *)

AskTag(t, p) ==
    /\ pc[t] = "idle" /\ Kind[t] = "tag"
    /\ Enter(t, p)
    /\ GoesTo(t, "tag")
    /\ UNCHANGED <<models, loadLock>>

\* tag() loads the tagger inside its lease when _loaded says so: after a claim
\* on the GPU, or on the CPU (the GPU failed, or has no room and the claim is
\* forgotten), or on the CPU without a claim.  A load may fail at each point.
LoadTagger(t) ==
    /\ pc[t] = "tag" /\ Inside(t)
    /\ \/ hasLoaded = "yes" /\ UNCHANGED models /\ GoesTo(t, "infer")
       \/ /\ hasLoaded # "yes" /\ hasLoaded' = "yes" /\ lost' = FALSE /\ GoesTo(t, "infer")
          /\ \/ Claim("tagger", "gpu", {"tagger"})
             \/ \E listed \in {{}, {"tagger"}} : Claim("tagger", "cpu", listed)
             \/ OnCpu("tagger") /\ UNCHANGED residents
       \/ /\ hasLoaded # "yes" /\ hasLoaded' \in {hasLoaded, "no"} /\ GoesTo(t, "done")
          /\ \/ UNCHANGED <<place, residents>>
             \/ \E listed \in {{}, {"tagger"}} : Claim("tagger", place["tagger"], listed)
          /\ UNCHANGED lost
    /\ UNCHANGED <<lease, loadLock>>

\* The work fails at once without a session.  A GPU that fails in the middle is
\* given up for the CPU; a rebuild of the session (after many pictures, or out
\* of memory) may end on the CPU, or leave none and _loaded as it was.
Infer(t) ==
    /\ pc[t] = "infer"
    /\ \/ UNCHANGED place
       \/ Loaded("tagger") /\ \E where \in {"none", "cpu"} :
                                 place' = [place EXCEPT !["tagger"] = where]
    /\ lost' = (place'["tagger"] = "none")
    /\ GoesTo(t, "done")
    /\ UNCHANGED <<lease, residents, hasLoaded, loadLock>>

\* _recreate_session under memory pressure: without a lease, a lock or a claim
\* the session of a tagger whose files are known is dropped, ...
DropSession(t) ==
    /\ pc[t] = "idle" /\ Kind[t] = "refresh" /\ hasLoaded # "never"
    /\ place' = [place EXCEPT !["tagger"] = "none"]
    /\ lost' = (hasLoaded = "yes")
    /\ GoesTo(t, "remake")
    /\ UNCHANGED <<lease, residents, hasLoaded, loadLock>>

\* ... and made again on the GPU or the CPU (as use_gpu says, which the model
\* does not keep); or neither can be had.  _loaded is not looked at.
RemakeSession(t) ==
    /\ pc[t] = "remake"
    /\ \/ /\ \E where \in {"gpu", "cpu"} : place' = [place EXCEPT !["tagger"] = where]
          /\ lost' = FALSE
       \/ UNCHANGED <<place, lost>>
    /\ GoesTo(t, "idle")
    /\ UNCHANGED <<lease, residents, hasLoaded, loadLock>>

\* release_session: the session is dropped under the lease, the registry
\* forgets it after the lease.  (A thread that runs Smart Tag tags, then frees.)
AskFree(t) ==
    /\ pc[t] = "idle" /\ Kind[t] = "tag"
    /\ Enter(t, 50)
    /\ GoesTo(t, "free")
    /\ UNCHANGED <<models, loadLock>>

DropTagger(t) ==
    /\ pc[t] = "free" /\ Inside(t)
    /\ place' = [place EXCEPT !["tagger"] = "none"]
    /\ TaggerLeaves({"tagger"})
    /\ GoesTo(t, "forget")
    /\ UNCHANGED <<lease, residents, loadLock>>

ForgetTagger(t) ==
    /\ pc[t] = "forget" /\ stage[t] = "out"
    /\ residents' = residents \ {"tagger"}
    /\ GoesTo(t, "idle")
    /\ UNCHANGED <<lease, place, hasLoaded, lost, loadLock>>

\* A tagger whose _loaded and session disagree is not in use for the sweep.
InUse(m) == Loaded(m) /\ (m = "tagger" => hasLoaded = "yes")

\* The sweep releases an idle model under a lease it asks for with a timeout.
AskSweep(t) ==
    /\ pc[t] = "idle" /\ Kind[t] = "sweep"
    /\ \E m \in Models : InUse(m)
    /\ Enter(t, 50)
    /\ GoesTo(t, "sweep")
    /\ UNCHANGED <<models, loadLock>>

ReleaseIdle(t) ==
    /\ pc[t] = "sweep" /\ Inside(t)
    /\ \/ \E m \in Models : InUse(m) /\ Unload(m)
       \/ UNCHANGED models
    /\ GoesTo(t, "done")
    /\ UNCHANGED <<lease, loadLock>>

------------------------------------------------------------------------------
(* The lease around them                                                      *)

\* Waiting for the lease, and the first half of giving it back.
Lease(t) ==
    /\ \/ Wake(t) \/ LockFile(t)
       \/ pc[t] \in {"done", "loaded", "failed", "forget"} /\ UnlockFile(t)
    /\ UNCHANGED <<models, loadLock, pc>>

\* The second half.
EndLease(t) ==
    /\ Leave(t)
    /\ IF pc[t] = "done" THEN EndsRequest(t) ELSE UNCHANGED pc
    /\ UNCHANGED <<models, loadLock>>

\* The lease is refused; inside load() that is a failed load.
Refused(t) ==
    /\ FileBusy(t) \/ GiveUp(t)
    /\ IF pc[t] = "load" THEN GoesTo(t, "failed") ELSE EndsRequest(t)
    /\ UNCHANGED <<models, loadLock>>

OtherProcess == (ChildTakes \/ ChildLeaves) /\ UNCHANGED <<models, loadLock, pc>>

\* A request begins, or a job goes on with its next batch.
Request(t) ==
    \/ AskStyle(t) \/ NextBatch(t) \/ AskFree(t) \/ AskSweep(t) \/ DropSession(t)
    \/ \E p \in Lanes : AskTag(t, p)

\* What goes on without anybody asking.
Step(t) ==
    \/ TakeLoadLock(t) \/ BuildFirst(t) \/ EndLoad(t)
    \/ \E p \in {0, 100} : AskBatch(t, p)
    \/ LookAtModel(t) \/ TakeReloadLock(t) \/ Rebuild(t) \/ Forward(t)
    \/ LoadTagger(t) \/ Infer(t) \/ RemakeSession(t)
    \/ DropTagger(t) \/ ForgetTagger(t) \/ ReleaseIdle(t)
    \/ Lease(t) \/ EndLease(t) \/ Refused(t)

GpuNext == OtherProcess \/ \E t \in Threads : Request(t) \/ Step(t)

GpuSpec == GpuInit /\ [][GpuNext]_gpuVars

\* Threads go on while they can; a process that has the lock file lets go of it.
Fairness == WF_gpuVars(ChildLeaves /\ UNCHANGED <<models, loadLock, pc>>)
            /\ \A t \in Threads : WF_gpuVars(Step(t))

GpuFairSpec == GpuSpec /\ Fairness

------------------------------------------------------------------------------
(* Properties                                                                 *)

\* Leases, models, the registry and every thread's place keep their types.
GpuTypeOK ==
    /\ LeaseTypeOK
    /\ place \in [Models -> {"none", "gpu", "cpu"}]
    /\ residents \subseteq Models
    /\ hasLoaded \in {"never", "no", "yes"} /\ lost \in BOOLEAN
    /\ loadLock \in Threads \cup {NoThread}
    /\ pc \in [Threads -> StylePcs \cup TagPcs \cup SweepPcs \cup RefreshPcs]
    /\ \A t \in Threads : CASE Kind[t] = "style" -> pc[t] \in StylePcs
                            [] Kind[t] = "tag" -> pc[t] \in TagPcs
                            [] Kind[t] = "sweep" -> pc[t] \in SweepPcs
                            [] Kind[t] = "refresh" -> pc[t] \in RefreshPcs

\* A model that works on a batch is loaded until it is done: a claim, the sweep,
\* a failed load and Smart Tag's release take models of other threads, never one
\* in use (csd_encoder.py:244-250, ai_runtime_guard.py:616-618).  A thread that
\* tags has a tagger that nobody has released; its session is there unless a
\* refresh took it (tagger.py:786-855), and only a refresh or a rebuild that
\* failed leaves a tagger that says it is loaded and is not.
ForwardFindsItsModel ==
    /\ \A t \in Threads :
        /\ pc[t] = "forward" => Loaded("csd") /\ owner = t
        /\ pc[t] = "infer" => hasLoaded = "yes" /\ owner = t
    /\ hasLoaded = "yes" => Loaded("tagger") \/ lost

\* A model on the GPU that no claim can release is a tagger: the encoder is
\* always registered, and shares the GPU only with an unregistered tagger
\* (ai_runtime_guard.py:587-594).
UnlistedIsTheTagger ==
    /\ place["csd"] = "gpu" => "csd" \in residents
    /\ (\A m \in Models : place[m] = "gpu") => "tagger" \notin residents

\* A tagger on the GPU goes unregistered in three ways: a release forgets it
\* after another thread has loaded it again (tagger_inference.py:97), a refresh
\* puts it there without a claim (tagger.py:828), or a load that forgot itself
\* fails and leaves the session such a refresh had made (tagger.py:402, 515).
Unlisted == place["tagger"] = "gpu" /\ "tagger" \notin residents
UnlistedInThreeWays ==
    [][~Unlisted /\ Unlisted' =>
         \E t \in Threads : \/ ForgetTagger(t) \/ RemakeSession(t)
                            \/ LoadTagger(t) /\ GoesTo(t, "done")]_gpuVars

\* A job holds the lease and waits for _load_lock, which a query holds while it
\* waits for the lease.
Standoff ==
    \E s, t \in Threads : pc[s] = "reload" /\ loadLock = t /\ pc[t] = "load" /\ Waiting(t)

Quiet == \A t \in Threads : pc[t] \in {"idle", "between"}

\* Once nobody asks for more, every request and every batch ends, whoever timed
\* out, was refused, overtaken or evicted on the way, unless two threads stand
\* off: no wake-up, lock or file is lost (ai_runtime_guard.py:202-254,
\* csd_encoder.py:126-139).
BusyEnds ==
    <>[][\A t \in Threads : ~Request(t)]_gpuVars => <>[](Quiet \/ Standoff)

\* A job whose model was released between two batches loads it again and goes
\* on (csd_encoder.py:244-250, tests/test_csd_encoder.py:330).
JobKeepsGoing == \A t \in Threads : pc[t] = "reload" ~> pc[t] # "reload"
==============================================================================

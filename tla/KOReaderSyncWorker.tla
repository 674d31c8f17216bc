------------------------- MODULE KOReaderSyncWorker -------------------------
(***************************************************************************)
(* The background sync worker (src/activities/reader/                      *)
(* KOReaderSyncWorker.cpp) with what shares its slot and its radio: the    *)
(* reader that posts jobs and collects results, the network screens, and   *)
(* the way to deep sleep (main.cpp, SleepActivity.cpp, KOReaderAutoSync).  *)
(*                                                                         *)
(* The WORKER is a task that post() creates and that deletes itself when   *)
(* it has waited long enough with nothing to do.  One slot holds one job;  *)
(* slotMutex covers every access to it, so what runs under one SlotLock is *)
(* one action.  The rest of a job runs with nothing held.  The LOOP task   *)
(* is everything else.  cachedBusy always equals Busy outside the lock.    *)
(*                                                                         *)
(* A job's contents (book, page, position) are its tag: the sequence       *)
(* number post() gave it.  stored, reported and undercut are history: the  *)
(* pushes that reached the server, those the reader marked as synced, and  *)
(* that a screen turned the radio off behind the worker's look at it.      *)
(***************************************************************************)
EXTENDS Naturals

CONSTANTS
  MaxPosts,   \* bound: the jobs posted between two boots
  SleepPush   \* the "Send on sleep" setting

ASSUME PostsAssumption == MaxPosts \in Nat /\ SleepPush \in BOOLEAN

VARIABLES
  slot, slotBusy, jobDone, activeSeq, nextSeq,
  notified,       \* the worker's notification value is not zero
  workerAt, job,  \* where the worker is, and the job it runs
  startedRadio,
  radio, link,    \* WiFi.getMode(); WiFi.status() == WL_CONNECTED
  screen,         \* the network screen on the stack, or "none"
  screenAt,       \* "opened", "radio" (it brought the radio up), "used" (and needs a reboot)
  readerOpen, pushSeq, pullSeq,
  pendingSleepPush, sleepSeq,
  loopAt,         \* where the loop task is
  stored, reported,
  undercut        \* the radio went down after the worker found it up and before it used it

slotVars   == <<slot, slotBusy, jobDone, activeSeq, nextSeq>>
workerVars == <<workerAt, job, startedRadio>>
radioVars  == <<radio, link>>
screenVars == <<screen, screenAt>>
readerVars == <<readerOpen, pushSeq, pullSeq>>
sleepVars  == <<pendingSleepPush, sleepSeq>>
historyVars == <<stored, reported, undercut>>
vars == <<slotVars, notified, workerVars, radioVars, screenVars, readerVars, sleepVars, loopAt,
          historyVars>>

Seqs == 1..MaxPosts + 1
Jobs == [kind : {"fetch", "push"}, tag : {0} \cup Seqs, result : {"ok", "failed"}]

\* KOReaderSyncJob{}: no path, and a result that reads OK.
NoJob == [kind |-> "fetch", tag |-> 0, result |-> "ok"]

OnJob == {"owner", "start", "status", "mode", "begin", "associating", "request", "release",
          "radioOff", "finish"}
\* Between the worker's first look at the radio and its own WiFi.mode(WIFI_STA).
Connecting == {"status", "mode", "begin"}
WorkerPoints == {"gone", "waiting", "timedOut", "woken"} \cup OnJob
Sleeping == {"sleepDrain", "sleepExit", "sleepPost", "sleepNotify", "join", "retryPost", "sleepLast"}
LoopPoints == {"run", "notify", "drain", "asleep"} \cup Sleeping

Busy == slotBusy /\ ~jobDone
WifiActivityOnStack == screen # "none"
RadioStillOursToTearDown == radio = "sta" /\ ~WifiActivityOnStack

Init ==
  /\ slot = NoJob /\ slotBusy = FALSE /\ jobDone = FALSE
  /\ activeSeq = 0 /\ nextSeq = 1
  /\ notified = FALSE
  /\ workerAt = "gone" /\ job = NoJob /\ startedRadio = FALSE
  /\ radio = "null" /\ link = FALSE
  /\ screen = "none" /\ screenAt = "opened"
  /\ readerOpen = FALSE /\ pushSeq = 0 /\ pullSeq = 0
  /\ pendingSleepPush = FALSE /\ sleepSeq = 0
  /\ loopAt = "run"
  /\ stored = {} /\ reported = {} /\ undercut = FALSE

\* Every way out that reboots or sleeps starts again from nothing in RAM.
Restart ==
  /\ slot' = NoJob /\ slotBusy' = FALSE /\ jobDone' = FALSE
  /\ activeSeq' = 0 /\ nextSeq' = 1
  /\ notified' = FALSE
  /\ workerAt' = "gone" /\ job' = NoJob /\ startedRadio' = FALSE
  /\ radio' = "null" /\ link' = FALSE
  /\ screen' = "none" /\ screenAt' = "opened"
  /\ readerOpen' = FALSE /\ pushSeq' = 0 /\ pullSeq' = 0
  /\ pendingSleepPush' = FALSE /\ sleepSeq' = 0
  /\ loopAt' = "run"
  /\ stored' = {} /\ reported' = {} /\ undercut' = FALSE

-----------------------------------------------------------------------------
(* The calls of KOReaderSyncWorker.h, each one critical section.           *)

\* post() that numbers the job after counting it.
PostCountsFirst(kind) ==
  /\ ~Busy
  /\ slot' = [kind |-> kind, tag |-> nextSeq, result |-> "ok"]
  /\ slotBusy' = TRUE
  /\ jobDone' = FALSE
  /\ activeSeq' = nextSeq + 1
  /\ nextSeq' = nextSeq + 1
  /\ workerAt' = IF workerAt = "gone" THEN "waiting" ELSE workerAt
  /\ UNCHANGED <<notified, job, startedRadio>>

\* post() accepts a job: the task is created if there is none.
Post(kind) ==
  /\ ~Busy
  /\ slot' = [kind |-> kind, tag |-> nextSeq, result |-> "ok"]
  /\ slotBusy' = TRUE
  /\ jobDone' = FALSE
  /\ activeSeq' = nextSeq
  /\ nextSeq' = nextSeq + 1
  /\ workerAt' = IF workerAt = "gone" THEN "waiting" ELSE workerAt
  /\ UNCHANGED <<notified, job, startedRadio>>

\* post() refuses one: busy, or no memory for the task.
PostRefused ==
  /\ Busy \/ workerAt = "gone"
  /\ UNCHANGED <<slotVars, notified, workerVars>>

IsDone(seq) == ~(slotBusy /\ activeSeq = seq /\ ~jobDone)

\* consume() that does not ask whether the job is done.
DeliversEarly(seq) == slotBusy /\ activeSeq = seq

Delivers(seq) == slotBusy /\ activeSeq = seq /\ jobDone

\* consume() of each of these; at most one of them is the job in the slot.
Consume(seqs) ==
  /\ IF \E s \in seqs : Delivers(s)
       THEN slot' = NoJob /\ slotBusy' = FALSE
       ELSE UNCHANGED <<slot, slotBusy>>
  /\ UNCHANGED <<jobDone, activeSeq, nextSeq>>

\* finalizeSilentPush(): markSynced() for a push that came back OK.
Finalize(seq) ==
  reported' = IF Delivers(seq) /\ slot.kind = "push" /\ slot.result = "ok"
                THEN reported \cup {seq} ELSE reported

-----------------------------------------------------------------------------
(* The worker.                                                             *)

WorkerOnly == UNCHANGED <<screenVars, readerVars, sleepVars, loopAt, reported, undercut>>

TakeNotification ==
  /\ workerAt = "waiting" /\ notified
  /\ notified' = FALSE
  /\ workerAt' = "woken"
  /\ UNCHANGED <<slotVars, job, startedRadio, radioVars, stored>> /\ WorkerOnly

IdleTimeout ==
  /\ workerAt = "waiting" /\ ~notified
  /\ workerAt' = "timedOut"
  /\ UNCHANGED <<slotVars, notified, job, startedRadio, radioVars, stored>> /\ WorkerOnly

\* A worker that exits on the timeout alone.
ExitOnTimeout ==
  /\ workerAt = "timedOut"
  /\ workerAt' = "gone"
  /\ notified' = FALSE
  /\ UNCHANGED <<slotVars, job, startedRadio, radioVars, stored>> /\ WorkerOnly

\* After the timeout the slot is looked at again: a job may have been posted meanwhile.
ExitIfIdle ==
  /\ workerAt = "timedOut"
  /\ workerAt' = IF ~slotBusy \/ jobDone THEN "gone" ELSE "waiting"
  /\ notified' = (notified /\ workerAt' # "gone")
  /\ UNCHANGED <<slotVars, job, startedRadio, radioVars, stored>> /\ WorkerOnly

\* The move leaves the slot without its strings; kind and result stay.
TakeJob ==
  /\ workerAt = "woken"
  /\ IF slotBusy
       THEN /\ job' = slot
            /\ slot' = [slot EXCEPT !.tag = 0]
            /\ workerAt' = "owner"
       ELSE /\ workerAt' = "waiting"
            /\ UNCHANGED <<job, slot>>
  /\ UNCHANGED <<slotBusy, jobDone, activeSeq, nextSeq, notified, startedRadio, radioVars, stored>>
  /\ WorkerOnly

CheckOwner ==
  /\ workerAt = "owner"
  /\ IF WifiActivityOnStack
       THEN workerAt' = "finish" /\ job' = [job EXCEPT !.result = "failed"]
       ELSE workerAt' = "start" /\ UNCHANGED job
  /\ UNCHANGED <<slotVars, notified, startedRadio, radioVars, stored>> /\ WorkerOnly

\* The way out of a job: through the radio's release if this job brought it up.
Leave(started) == IF started THEN "release" ELSE "finish"

\* The radio, the link and the radio again are read with nothing held, and a screen may turn
\* the radio on or off between any two of these steps.
LookAtRadio ==
  /\ workerAt = "start"
  /\ startedRadio' = (radio = "null")
  /\ workerAt' = "status"
  /\ UNCHANGED <<slotVars, notified, job, radioVars, stored>> /\ WorkerOnly

LookAtLink ==
  /\ workerAt = "status"
  /\ workerAt' = IF link THEN "request" ELSE "mode"
  /\ UNCHANGED <<slotVars, notified, job, startedRadio, radioVars, stored>> /\ WorkerOnly

\* In AP mode, or with no saved network, the job fails here.
ChooseNetwork ==
  /\ workerAt = "mode"
  /\ \/ /\ radio # "ap"
        /\ workerAt' = "begin"
        /\ UNCHANGED job
     \/ /\ workerAt' = Leave(startedRadio)
        /\ job' = [job EXCEPT !.result = "failed"]
  /\ UNCHANGED <<slotVars, notified, startedRadio, radioVars, stored>> /\ WorkerOnly

\* WiFi.mode(WIFI_STA) takes a radio in any mode; begin() may drop a link a screen made.
BeginAssociating ==
  /\ workerAt = "begin"
  /\ radio' = "sta"
  /\ link' \in {link, FALSE}
  /\ workerAt' = "associating"
  /\ UNCHANGED <<slotVars, notified, job, startedRadio, stored>> /\ WorkerOnly

Associated ==
  /\ workerAt = "associating" /\ radio = "sta"
  /\ link' = TRUE
  /\ workerAt' = "request"
  /\ UNCHANGED <<slotVars, notified, job, startedRadio, radio, stored>> /\ WorkerOnly

\* A timeout that leaves the radio as it is.
AssociateLeavesRadio ==
  /\ workerAt = "associating"
  /\ link' = FALSE
  /\ job' = [job EXCEPT !.result = "failed"]
  /\ workerAt' = "finish"
  /\ UNCHANGED <<slotVars, notified, startedRadio, radio, stored>> /\ WorkerOnly

AssociateTimesOut ==
  /\ workerAt = "associating"
  /\ link' = FALSE
  /\ job' = [job EXCEPT !.result = "failed"]
  /\ workerAt' = Leave(startedRadio)
  /\ UNCHANGED <<slotVars, notified, startedRadio, radio, stored>> /\ WorkerOnly

\* The server may store a push whose answer is then lost.
Request ==
  /\ workerAt = "request"
  /\ \/ /\ link
        /\ stored' = IF job.kind = "push" THEN stored \cup {job.tag} ELSE stored
        /\ job' = [job EXCEPT !.result = "ok"]
     \/ /\ stored' = stored \/ (job.kind = "push" /\ stored' = stored \cup {job.tag})
        /\ job' = [job EXCEPT !.result = "failed"]
  /\ workerAt' = Leave(startedRadio)
  /\ UNCHANGED <<slotVars, notified, startedRadio, radioVars>> /\ WorkerOnly

CheckRadio ==
  /\ workerAt = "release"
  /\ workerAt' = IF RadioStillOursToTearDown THEN "radioOff" ELSE "finish"
  /\ UNCHANGED <<slotVars, notified, job, startedRadio, radioVars, stored>> /\ WorkerOnly

RadioOff ==
  /\ workerAt = "radioOff"
  /\ radio' = "null" /\ link' = FALSE
  /\ workerAt' = "finish"
  /\ UNCHANGED <<slotVars, notified, job, startedRadio, stored>> /\ WorkerOnly

FinishJob ==
  /\ workerAt = "finish"
  /\ slot' = job
  /\ job' = NoJob
  /\ jobDone' = TRUE
  /\ workerAt' = "waiting"
  /\ UNCHANGED <<slotBusy, activeSeq, nextSeq, notified, startedRadio, radioVars, stored>>
  /\ WorkerOnly

WorkerTask ==
  \/ TakeNotification \/ IdleTimeout \/ ExitIfIdle \/ TakeJob \/ CheckOwner
  \/ LookAtRadio \/ LookAtLink \/ ChooseNetwork \/ BeginAssociating
  \/ Associated \/ AssociateTimesOut \/ CheckRadio \/ RadioOff \/ FinishJob

-----------------------------------------------------------------------------
(* The reader, on the loop task while no screen is above it.               *)

ReaderRuns == loopAt = "run" /\ readerOpen /\ screen = "none"

OpenReader ==
  /\ loopAt = "run" /\ ~readerOpen /\ screen = "none"
  /\ readerOpen' = TRUE
  /\ UNCHANGED <<slotVars, notified, workerVars, radioVars, screenVars, pushSeq, pullSeq,
                 sleepVars, loopAt, historyVars>>

\* maybeAutoPullOnWake(); the bound leaves one sequence number for the sleep push.
AutoPull ==
  /\ ReaderRuns /\ pullSeq = 0 /\ nextSeq =< MaxPosts
  /\ Post("fetch")
  /\ pullSeq' = nextSeq
  /\ loopAt' = "notify"
  /\ UNCHANGED <<radioVars, screenVars, readerOpen, pushSeq, sleepVars, historyVars>>

\* silentUploadCurrentPosition() and maybeAutoPushInterval(): the second writes pushSeq
\* whatever it held, and 0 when the push is not accepted.
AutoPush ==
  /\ ReaderRuns /\ ~Busy /\ nextSeq =< MaxPosts
  /\ \/ /\ Post("push")
        /\ pushSeq' = nextSeq
        /\ loopAt' = "notify"
     \/ /\ pushSeq' = 0
        /\ UNCHANGED <<slotVars, notified, workerVars, loopAt>>
  /\ UNCHANGED <<radioVars, screenVars, readerOpen, pullSeq, sleepVars, historyVars>>

PollPull ==
  /\ ReaderRuns /\ pullSeq # 0 /\ IsDone(pullSeq)
  /\ Consume({pullSeq})
  /\ pullSeq' = 0
  /\ UNCHANGED <<notified, workerVars, radioVars, screenVars, readerOpen, pushSeq, sleepVars,
                 loopAt, historyVars>>

PollPush ==
  /\ ReaderRuns /\ pushSeq # 0 /\ IsDone(pushSeq)
  /\ Consume({pushSeq})
  /\ Finalize(pushSeq)
  /\ pushSeq' = 0
  /\ UNCHANGED <<notified, workerVars, radioVars, screenVars, readerOpen, pullSeq, sleepVars,
                 loopAt, stored, undercut>>

\* releaseAutoSyncSlot(): what is done is taken, what is not is left to run.
ReleaseAutoSyncSlot ==
  /\ Consume({pushSeq, pullSeq})
  /\ Finalize(pushSeq)
  /\ pushSeq' = 0 /\ pullSeq' = 0
  /\ readerOpen' = FALSE

CloseReader ==
  /\ ReaderRuns
  /\ ReleaseAutoSyncSlot
  /\ UNCHANGED <<notified, workerVars, radioVars, screenVars, sleepVars, loopAt, stored, undercut>>

Reader == OpenReader \/ AutoPull \/ AutoPush \/ PollPull \/ PollPush \/ CloseReader

NotifyWorker ==
  /\ loopAt \in {"notify", "sleepNotify"}
  /\ notified' = TRUE
  /\ loopAt' = IF loopAt = "notify" THEN "run" ELSE "join"
  /\ UNCHANGED <<slotVars, workerVars, radioVars, screenVars, readerVars, sleepVars, historyVars>>

-----------------------------------------------------------------------------
(* The network screens: "sync" drains the worker first (KOReaderSync and   *)
(* KOReaderAuth), "clock" turns the radio off itself (SyncTime and         *)
(* DetectTimezone), "server" is any other.                                 *)

ScreenRuns == loopAt = "run" /\ screen # "none"

OpenScreen ==
  /\ loopAt = "run" /\ screen = "none"
  /\ screen' \in {"sync", "clock", "server"}
  /\ screenAt' = "opened"
  /\ loopAt' = IF screen' = "sync" /\ Busy THEN "drain" ELSE "run"
  /\ UNCHANGED <<slotVars, notified, workerVars, radioVars, readerVars, sleepVars, historyVars>>

\* Drained, or "still running; proceeding anyway" after the timeout.
DrainEnds ==
  /\ loopAt = "drain"
  /\ loopAt' = "run"
  /\ UNCHANGED <<slotVars, notified, workerVars, radioVars, screenVars, readerVars, sleepVars,
                 historyVars>>

BringRadioUp ==
  /\ ScreenRuns /\ screenAt = "opened"
  /\ radio' \in IF screen = "server" THEN {"sta", "ap"} ELSE {"sta"}
  /\ link' \in IF radio' = "sta" THEN BOOLEAN ELSE {FALSE}
  /\ screenAt' = "radio"
  /\ UNCHANGED <<slotVars, notified, workerVars, screen, readerVars, sleepVars, loopAt,
                 historyVars>>

\* HalClock::wifiOff().
ClockTurnsRadioOff ==
  /\ radio' = "null" /\ link' = FALSE
  /\ undercut' = (workerAt \in Connecting /\ ~startedRadio)

\* performSync() and performDetect(), which find the link up, end with it.
ClockDone ==
  /\ ScreenRuns /\ screen = "clock" /\ link
  /\ ClockTurnsRadioOff
  /\ screenAt' = "used"
  /\ UNCHANGED <<slotVars, notified, workerVars, screen, readerVars, sleepVars, loopAt, stored,
                 reported>>

CloseScreen ==
  /\ ScreenRuns
  /\ \/ /\ screen = "sync" \/ (screen = "clock" /\ screenAt = "used")
           \/ (screen = "server" /\ radio # "null")
        /\ Restart
     \/ /\ screen = "clock" /\ screenAt # "used"
        /\ ClockTurnsRadioOff
        /\ screen' = "none"
        /\ UNCHANGED <<slotVars, notified, workerVars, screenAt, readerVars, sleepVars, loopAt,
                       stored, reported>>
     \/ /\ screen = "server" /\ radio = "null"
        /\ screen' = "none"
        /\ UNCHANGED <<slotVars, notified, workerVars, radioVars, screenAt, readerVars, sleepVars,
                       loopAt, historyVars>>

Screens == OpenScreen \/ DrainEnds \/ BringRadioUp \/ ClockDone \/ CloseScreen

-----------------------------------------------------------------------------
(* enterDeepSleep().                                                       *)

EnterDeepSleep ==
  /\ loopAt = "run"
  /\ \/ /\ loopAt' = "sleepDrain"
        /\ UNCHANGED <<slotVars, notified, workerVars, radioVars, screenVars, readerVars, sleepVars,
                       historyVars>>
     \/ screen = "server" /\ Restart   \* no framebuffer: silentRestartToSleep()

\* A teardown that does not wait for the worker.
PreSleepNoDrain ==
  /\ loopAt = "sleepDrain"
  /\ IF ~(SleepPush /\ readerOpen)
       THEN radio' = "null" /\ link' = FALSE
       ELSE UNCHANGED radioVars
  /\ loopAt' = "sleepExit"
  /\ UNCHANGED <<slotVars, notified, workerVars, screenVars, readerVars, sleepVars, historyVars>>

\* The radio goes down here only if the drain succeeded and no sleep push will want it.
PreSleepDrain ==
  /\ loopAt = "sleepDrain"
  /\ IF ~Busy /\ ~(SleepPush /\ readerOpen)
       THEN radio' = "null" /\ link' = FALSE
       ELSE UNCHANGED radioVars
  /\ loopAt' = "sleepExit"
  /\ UNCHANGED <<slotVars, notified, workerVars, screenVars, readerVars, sleepVars, historyVars>>

\* goToSleep(): every screen's onExit().  The reader stashes its push if the page is pending,
\* then drops its slot; the network screens would reboot but for deepSleepInProgress.
ExitForSleep ==
  /\ loopAt = "sleepExit"
  /\ pendingSleepPush' \in IF readerOpen /\ SleepPush THEN BOOLEAN ELSE {FALSE}
  /\ IF readerOpen THEN ReleaseAutoSyncSlot ELSE UNCHANGED <<slotVars, readerVars, reported>>
  /\ radio' = IF screen = "clock" THEN "null" ELSE radio
  /\ link' = (link /\ screen = "none")
  /\ screen' = "none"
  /\ loopAt' = "sleepPost"
  /\ UNCHANGED <<notified, workerVars, screenAt, sleepSeq, stored, undercut>>

\* SleepActivity::onEnter(): pushStashedSleepPushAsync() keeps the stash when post() refuses.
PostSleepPush ==
  /\ loopAt = "sleepPost"
  /\ \/ /\ ~pendingSleepPush
        /\ loopAt' = "sleepLast"
        /\ UNCHANGED <<slotVars, notified, workerVars, sleepVars>>
     \/ /\ pendingSleepPush
        /\ Post("push")
        /\ sleepSeq' = nextSeq
        /\ pendingSleepPush' = FALSE
        /\ loopAt' = "sleepNotify"
     \/ /\ pendingSleepPush
        /\ PostRefused
        /\ loopAt' = "retryPost"
        /\ UNCHANGED sleepVars
  /\ UNCHANGED <<radioVars, screenVars, readerVars, historyVars>>

\* joinStashedSleepPush() without a posted job: drain, or give up waiting, then one more try.
RetrySleepPush ==
  /\ loopAt = "retryPost"
  /\ pendingSleepPush' = FALSE
  /\ \/ /\ Post("push")
        /\ sleepSeq' = nextSeq
        /\ loopAt' = "sleepNotify"
     \/ /\ PostRefused
        /\ loopAt' = "sleepLast"
        /\ UNCHANGED sleepSeq
  /\ UNCHANGED <<radioVars, screenVars, readerVars, historyVars>>

\* A join without a deadline.
JoinForever ==
  /\ loopAt = "join"
  /\ IsDone(sleepSeq)
  /\ Consume({sleepSeq})
  /\ Finalize(sleepSeq)
  /\ loopAt' = "sleepLast"
  /\ UNCHANGED <<notified, workerVars, radioVars, screenVars, readerVars, sleepVars, stored, undercut>>

JoinSleepPush ==
  /\ loopAt = "join"
  /\ \/ /\ IsDone(sleepSeq)
        /\ Consume({sleepSeq})
        /\ Finalize(sleepSeq)
     \/ /\ ~IsDone(sleepSeq)   \* the join deadline
        /\ UNCHANGED <<slotVars, reported>>
  /\ loopAt' = "sleepLast"
  /\ UNCHANGED <<notified, workerVars, radioVars, screenVars, readerVars, sleepVars, stored, undercut>>

LastTeardown ==
  /\ loopAt = "sleepLast"
  /\ IF ~Busy THEN radio' = "null" /\ link' = FALSE ELSE UNCHANGED radioVars
  /\ loopAt' = "asleep"
  /\ UNCHANGED <<slotVars, notified, workerVars, screenVars, readerVars, sleepVars, historyVars>>

Wake == loopAt = "asleep" /\ Restart

Sleep ==
  \/ PreSleepDrain \/ ExitForSleep \/ PostSleepPush \/ RetrySleepPush
  \/ JoinSleepPush \/ LastTeardown

-----------------------------------------------------------------------------
Next == WorkerTask \/ Request \/ Reader \/ NotifyWorker \/ Screens \/ EnterDeepSleep \/ Sleep \/ Wake

Spec == Init /\ [][Next]_vars

\* Both tasks are scheduled, and their own waits have timeouts: the association, drain() and
\* waitFor().  Nothing is assumed of the request, which depends on the server.
FairSpec == Spec /\ WF_vars(WorkerTask) /\ WF_vars(NotifyWorker \/ DrainEnds \/ Sleep)
-----------------------------------------------------------------------------
FlagTypes ==
  /\ slotBusy \in BOOLEAN /\ jobDone \in BOOLEAN /\ notified \in BOOLEAN
  /\ startedRadio \in BOOLEAN /\ link \in BOOLEAN
  /\ readerOpen \in BOOLEAN /\ pendingSleepPush \in BOOLEAN /\ undercut \in BOOLEAN

JobTypes ==
  /\ slot \in Jobs /\ job \in Jobs
  /\ activeSeq \in {0} \cup Seqs /\ nextSeq \in 1..MaxPosts + 2
  /\ pushSeq \in {0} \cup Seqs /\ pullSeq \in {0} \cup Seqs /\ sleepSeq \in {0} \cup Seqs
  /\ stored \subseteq Seqs /\ reported \subseteq Seqs

PlaceTypes ==
  /\ workerAt \in WorkerPoints /\ loopAt \in LoopPoints
  /\ radio \in {"null", "sta", "ap"}
  /\ screen \in {"none", "sync", "clock", "server"} /\ screenAt \in {"opened", "radio", "used"}

TypeOK == FlagTypes /\ JobTypes /\ PlaceTypes

\* A posted job is never stranded: from post() until it is done, a worker task exists that
\* has taken it, has been notified, or is about to be, whatever the idle exit does meanwhile
\* (the re-check under SlotLock and the notification sent after it is released).
PostedJobHasWaker ==
  Busy =>
    \/ workerAt \in OnJob \cup {"woken"}
    \/ workerAt \in {"waiting", "timedOut"} /\ (notified \/ loopAt \in {"notify", "sleepNotify"})

\* A job reported done has let go of the radio, and the job that runs is the one in the slot:
\* drain() and waitFor() tell their callers that the worker is off the radio.
DoneMeansReleased ==
  workerAt \in OnJob => Busy /\ job.tag = activeSeq

\* A push is marked synced only if the server stored that very push, though the reader drops
\* sequence numbers, closes with jobs in flight and posts over results nobody collected.
ReportedWasStored == reported \subseteq stored

\* "if it brought the radio up, takes it down again after the job"
\* (docs/contributing/koreader-synchronization.md:225): awake, with no job and no network screen,
\* the radio is off, whichever of the job and the screen came or went first.  One order is
\* excepted: a clock screen had the radio up when the worker first looked (runJob, :107), and
\* turned it off before the worker turned it on; the worker then leaves on what it turned on.
RadioReturned ==
  loopAt \in {"run", "notify"} /\ screen = "none" /\ workerAt \notin OnJob
    => radio = "null" \/ undercut

\* The two teardowns of enterDeepSleep() never deinit the radio under a request of the worker.
SleepSparesTheSocket ==
  [][(loopAt \in {"sleepDrain", "sleepLast"} /\ workerAt = "request" /\ radio # "null")
       => radio' # "null"]_vars

\* Deep sleep is reached even if a request of the worker never returns.
SleepReached == loopAt \in Sleeping ~> loopAt = "asleep"

\* main.cpp:625: "Deiniting esp_wifi under a worker job's open socket crashes so let's drain
\* first": no step turns the radio off while the worker stays in its request.
NoDeinitUnderSocket ==
  [][(workerAt = "request" /\ workerAt' = "request" /\ radio # "null") => radio' # "null"]_vars

=============================================================================

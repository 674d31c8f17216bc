---------------------- MODULE KOReaderSyncWorker_proofs ----------------------
(***************************************************************************)
(* Proofs about KOReaderSyncWorker, for every number of posts and both     *)
(* settings.                                                               *)
(*                                                                         *)
(* The inductive invariant IInv has five parts.  Typed: the types, and a   *)
(* sequence number left for whoever may still post.  Wakers: a posted job  *)
(* has exactly one carrier, which is post()'s notification on its way, the *)
(* notification value, the woken worker or the worker on the job.  Tags:   *)
(* what is in the slot, or taken from it, is the active job.  Honest: a    *)
(* result that reads OK was stored.  RadioHeld: awake, with no network     *)
(* screen and no undercut, a radio that is up belongs to a job that will   *)
(* take it down; a worker about to turn the radio on with startedRadio     *)
(* FALSE still sees it up.                                                 *)
(***************************************************************************)
EXTENDS KOReaderSyncWorker, TLAPS

Notifying == loopAt \in {"notify", "sleepNotify"}
Idle == workerAt \in {"waiting", "timedOut"}
Awake == loopAt \in {"run", "notify", "drain"}

NumberLeft ==
  Awake \/ loopAt \in {"sleepDrain", "sleepExit", "sleepPost", "retryPost"}
    => nextSeq =< MaxPosts + 1

Typed == TypeOK /\ NumberLeft

Wakers ==
  /\ Notifying => Busy /\ ~notified /\ Idle
  /\ notified => Busy /\ Idle
  /\ workerAt = "woken" => Busy
  /\ workerAt \in OnJob => Busy
  /\ PostedJobHasWaker

Tags ==
  /\ activeSeq < nextSeq
  /\ slotBusy => activeSeq # 0
  /\ slotBusy /\ workerAt \notin OnJob => slot.tag = activeSeq
  /\ workerAt \in OnJob => job.tag = activeSeq

Honest ==
  /\ workerAt \in {"release", "radioOff", "finish"} /\ job.kind = "push" /\ job.result = "ok"
       => job.tag \in stored
  /\ slotBusy /\ jobDone /\ slot.kind = "push" /\ slot.result = "ok" => activeSeq \in stored
  /\ reported \subseteq stored

RadioHeld ==
  /\ link => radio = "sta"
  /\ Awake /\ ~undercut /\ workerAt \in Connecting /\ ~startedRadio => radio # "null"
  /\ Awake /\ ~undercut /\ screen = "none" =>
       /\ workerAt \notin {"associating", "request", "release", "radioOff"} => radio = "null"
       /\ radio # "null" => radio = "sta" /\ (startedRadio \/ workerAt \in {"release", "radioOff"})

IInv == Typed /\ Wakers /\ Tags /\ Honest /\ RadioHeld
-----------------------------------------------------------------------------
\* What the calls do to a job keeps it a job.
LEMMA JobsClosed ==
  /\ NoJob \in Jobs
  /\ \A j \in Jobs : /\ [j EXCEPT !.result = "failed"] \in Jobs
                     /\ [j EXCEPT !.result = "ok"] \in Jobs
                     /\ [j EXCEPT !.tag = 0] \in Jobs
                     /\ j.kind \in {"fetch", "push"} /\ j.tag \in {0} \cup Seqs
  /\ \A s \in Seqs, k \in {"fetch", "push"} : [kind |-> k, tag |-> s, result |-> "ok"] \in Jobs
BY DEF NoJob, Jobs

\* A number that may still be posted.
LEMMA NextSeqPosts ==
  ASSUME nextSeq \in 1..MaxPosts + 2, nextSeq =< MaxPosts + 1
  PROVE  nextSeq \in Seqs /\ nextSeq + 1 \in 1..MaxPosts + 2
BY PostsAssumption DEF Seqs

\* A boot with nothing in RAM.
LEMMA Boots ==
  ASSUME Init
  PROVE  IInv
<1>1. FlagTypes
  BY PostsAssumption, JobsClosed DEF Init, FlagTypes
<1>2. JobTypes
  BY PostsAssumption, JobsClosed DEF Init, JobTypes, Seqs
<1>3. PlaceTypes
  BY PostsAssumption, JobsClosed DEF Init, PlaceTypes, WorkerPoints, OnJob, LoopPoints, Sleeping
<1>4. NumberLeft
  BY PostsAssumption, JobsClosed DEF Init, NumberLeft
<1>5. Wakers
  BY PostsAssumption, JobsClosed DEF Init, Wakers, PostedJobHasWaker, Notifying, Busy, OnJob
<1>6. Tags
  BY PostsAssumption, JobsClosed DEF Init, Tags, OnJob
<1>7. Honest
  BY PostsAssumption, JobsClosed DEF Init, Honest
<1>8. RadioHeld
  BY PostsAssumption, JobsClosed DEF Init, RadioHeld, Connecting
<1> QED
  BY <1>1, <1>2, <1>3, <1>4, <1>5, <1>6, <1>7, <1>8 DEF IInv, Typed, TypeOK

\* A reboot, or a wake from deep sleep, is a boot.
LEMMA Restarts ==
  ASSUME Restart
  PROVE  IInv'
<1>1. FlagTypes'
  BY PostsAssumption, JobsClosed DEF Restart, FlagTypes
<1>2. JobTypes'
  BY PostsAssumption, JobsClosed DEF Restart, JobTypes, Seqs
<1>3. PlaceTypes'
  BY PostsAssumption, JobsClosed DEF Restart, PlaceTypes, WorkerPoints, OnJob, LoopPoints,
    Sleeping
<1>4. NumberLeft'
  BY PostsAssumption, JobsClosed DEF Restart, NumberLeft
<1>5. Wakers'
  BY PostsAssumption, JobsClosed DEF Restart, Wakers, PostedJobHasWaker, Notifying, Busy, OnJob
<1>6. Tags'
  BY PostsAssumption, JobsClosed DEF Restart, Tags, OnJob
<1>7. Honest'
  BY PostsAssumption, JobsClosed DEF Restart, Honest
<1>8. RadioHeld'
  BY PostsAssumption, JobsClosed DEF Restart, RadioHeld, Connecting
<1> QED
  BY <1>1, <1>2, <1>3, <1>4, <1>5, <1>6, <1>7, <1>8 DEF IInv, Typed, TypeOK

\* The parts of it, as the lemmas below need them.
LEMMA Reboots ==
  Restart => /\ FlagTypes' /\ JobTypes' /\ PlaceTypes' /\ NumberLeft'
             /\ Wakers' /\ Tags' /\ Honest' /\ RadioHeld'
BY Restarts DEF IInv, Typed, TypeOK

\* consume() leaves a job in the slot, and nothing else changes with it but slotBusy.
LEMMA ConsumeTyped ==
  ASSUME JobTypes, NEW seqs, Consume(seqs)
  PROVE  slot' \in Jobs /\ activeSeq' = activeSeq /\ nextSeq' = nextSeq
BY JobsClosed DEF JobTypes, Consume

\* Only the number of a posted job is ever marked synced.
LEMMA FinalizeTyped ==
  ASSUME JobTypes, Tags, NEW seq, Finalize(seq)
  PROVE  reported' \subseteq Seqs
BY DEF JobTypes, Tags, Finalize, Delivers

\* What is marked synced was in the slot, and read OK.
LEMMA FinalizeHonest ==
  ASSUME Honest, NEW seq, Finalize(seq), stored' = stored
  PROVE  reported' \subseteq stored'
BY DEF Honest, Finalize, Delivers

\* What consume() leaves is what was there, or nothing.
LEMMA ConsumeHonest ==
  ASSUME NEW seqs, Consume(seqs)
  PROVE  /\ slotBusy' => slotBusy /\ slot' = slot
         /\ jobDone' = jobDone /\ activeSeq' = activeSeq /\ nextSeq' = nextSeq
         /\ slotBusy' # slotBusy => jobDone
BY DEF Consume, Delivers

\* The flags.
LEMMA FlagsTyped ==
  ASSUME FlagTypes, [Next]_vars
  PROVE  FlagTypes'
<1> USE DEF FlagTypes, WorkerOnly, slotVars, workerVars, radioVars, screenVars, readerVars,
      sleepVars, historyVars
<1>1. CASE TakeNotification \/ IdleTimeout \/ ExitIfIdle \/ TakeJob
  BY <1>1 DEF TakeNotification, IdleTimeout, ExitIfIdle, TakeJob
<1>2. CASE CheckOwner \/ LookAtRadio \/ LookAtLink \/ ChooseNetwork \/ BeginAssociating
          \/ Associated \/ AssociateTimesOut
  BY <1>2 DEF CheckOwner, WifiActivityOnStack, LookAtRadio, LookAtLink, ChooseNetwork, Leave,
    BeginAssociating, Associated, AssociateTimesOut
<1>3. CASE Request \/ CheckRadio \/ RadioOff \/ FinishJob
  BY <1>3 DEF Request, Leave, CheckRadio, RadioStillOursToTearDown, WifiActivityOnStack,
    RadioOff, FinishJob
<1>4. CASE AutoPull \/ AutoPush \/ PostSleepPush \/ RetrySleepPush
  BY <1>4 DEF AutoPull, ReaderRuns, Post, Busy, AutoPush, PostSleepPush, PostRefused,
    RetrySleepPush
<1>5. CASE PollPull \/ PollPush \/ CloseReader \/ ExitForSleep \/ JoinSleepPush
  BY <1>5 DEF PollPull, ReaderRuns, Consume, Delivers, IsDone, PollPush, Finalize, CloseReader,
    ReleaseAutoSyncSlot, ExitForSleep, JoinSleepPush
<1>6. CASE NotifyWorker
  BY <1>6 DEF NotifyWorker
<1>7. CASE OpenReader \/ OpenScreen \/ DrainEnds \/ BringRadioUp \/ ClockDone \/ PreSleepDrain
          \/ LastTeardown
  BY <1>7 DEF OpenReader, OpenScreen, Busy, DrainEnds, BringRadioUp, ScreenRuns, ClockDone,
    ClockTurnsRadioOff, PreSleepDrain, LastTeardown
<1>8. CASE CloseScreen \/ EnterDeepSleep \/ Wake
  BY <1>8, Reboots DEF CloseScreen, ClockTurnsRadioOff, ScreenRuns, EnterDeepSleep, Wake
<1>9. CASE UNCHANGED vars
  BY <1>9 DEF vars
<1> QED
  BY <1>1, <1>2, <1>3, <1>4, <1>5, <1>6, <1>7, <1>8, <1>9 DEF Next, WorkerTask, Reader, Screens,
    Sleep

\* Where the tasks, the radio and the screens are.
LEMMA PlacesTyped ==
  ASSUME PlaceTypes, [Next]_vars
  PROVE  PlaceTypes'
<1> USE DEF PlaceTypes, WorkerPoints, OnJob, LoopPoints, Sleeping, WorkerOnly, slotVars,
      workerVars, radioVars, screenVars, readerVars, sleepVars,
      historyVars
<1>1. CASE TakeNotification \/ IdleTimeout \/ ExitIfIdle \/ TakeJob
  BY <1>1 DEF TakeNotification, IdleTimeout, ExitIfIdle, TakeJob
<1>2. CASE CheckOwner \/ LookAtRadio \/ LookAtLink \/ ChooseNetwork \/ BeginAssociating
          \/ Associated \/ AssociateTimesOut
  BY <1>2 DEF CheckOwner, WifiActivityOnStack, LookAtRadio, LookAtLink, ChooseNetwork, Leave,
    BeginAssociating, Associated, AssociateTimesOut
<1>3. CASE Request \/ CheckRadio \/ RadioOff \/ FinishJob
  BY <1>3 DEF Request, Leave, CheckRadio, RadioStillOursToTearDown, WifiActivityOnStack,
    RadioOff, FinishJob
<1>4. CASE AutoPull \/ AutoPush \/ PostSleepPush \/ RetrySleepPush
  BY <1>4 DEF AutoPull, ReaderRuns, Post, Busy, AutoPush, PostSleepPush, PostRefused,
    RetrySleepPush
<1>5. CASE PollPull \/ PollPush \/ CloseReader \/ ExitForSleep \/ JoinSleepPush
  BY <1>5 DEF PollPull, ReaderRuns, Consume, Delivers, IsDone, PollPush, Finalize, CloseReader,
    ReleaseAutoSyncSlot, ExitForSleep, JoinSleepPush
<1>6. CASE OpenReader \/ NotifyWorker \/ OpenScreen \/ DrainEnds \/ BringRadioUp \/ ClockDone \/
          PreSleepDrain \/ LastTeardown
  BY <1>6 DEF OpenReader, NotifyWorker, OpenScreen, Busy, DrainEnds, BringRadioUp, ScreenRuns,
    ClockDone, ClockTurnsRadioOff, PreSleepDrain, LastTeardown
<1>7. CASE CloseScreen \/ EnterDeepSleep \/ Wake
  BY <1>7, Reboots DEF CloseScreen, ClockTurnsRadioOff, ScreenRuns, EnterDeepSleep, Wake
<1>8. CASE UNCHANGED vars
  BY <1>8 DEF vars
<1> QED
  BY <1>1, <1>2, <1>3, <1>4, <1>5, <1>6, <1>7, <1>8 DEF Next, WorkerTask, Reader, Screens, Sleep

\* The jobs and their numbers.
LEMMA JobsTyped ==
  ASSUME Typed, Wakers, Tags, [Next]_vars
  PROVE  JobTypes'
<1> USE JobsClosed, NextSeqPosts DEF JobTypes, NumberLeft, Awake, Typed, TypeOK, WorkerOnly,
      slotVars, workerVars, radioVars, screenVars, readerVars, sleepVars,
      historyVars
<1>1. CASE TakeJob
  BY <1>1 DEF TakeJob
<1>2. CASE CheckOwner
  BY <1>2 DEF CheckOwner, WifiActivityOnStack
<1>3. CASE LookAtRadio \/ LookAtLink \/ ChooseNetwork \/ BeginAssociating
  BY <1>3 DEF LookAtRadio, LookAtLink, ChooseNetwork, Leave, BeginAssociating
<1>4. CASE AssociateTimesOut
  BY <1>4 DEF AssociateTimesOut, Leave
<1>5. CASE Request
  <2>1. workerAt \in OnJob
    BY <1>5 DEF Request, OnJob
  <2>2. job.tag \in Seqs
    BY <2>1 DEF Wakers, Tags, Busy
  <2>3. stored' \subseteq Seqs
    BY <1>5, <2>2 DEF Request
  <2>4. job' \in Jobs
    BY <1>5 DEF Request
  <2> QED
    BY <1>5, <2>3, <2>4 DEF Request
<1>6. CASE FinishJob
  BY <1>6 DEF FinishJob
<1>7. CASE AutoPull
  BY <1>7 DEF AutoPull, ReaderRuns, Post, Busy
<1>8. CASE AutoPush
  BY <1>8 DEF AutoPush, ReaderRuns, Post, Busy
<1>9. CASE PostSleepPush
  BY <1>9 DEF PostSleepPush, Post, PostRefused, Busy
<1>10. CASE RetrySleepPush
  BY <1>10 DEF RetrySleepPush, Post, PostRefused, Busy
<1>11. CASE PollPull
  BY <1>11, ConsumeTyped DEF PollPull, ReaderRuns, IsDone
<1>12. CASE PollPush
  BY <1>12, ConsumeTyped, FinalizeTyped DEF PollPush, ReaderRuns, IsDone
<1>13. CASE CloseReader
  BY <1>13, ConsumeTyped, FinalizeTyped DEF CloseReader, ReaderRuns, ReleaseAutoSyncSlot
<1>14. CASE ExitForSleep
  BY <1>14, ConsumeTyped, FinalizeTyped DEF ExitForSleep, ReleaseAutoSyncSlot
<1>15. CASE JoinSleepPush
  BY <1>15, ConsumeTyped, FinalizeTyped DEF JoinSleepPush, IsDone
<1>16. CASE TakeNotification \/ IdleTimeout \/ ExitIfIdle \/ Associated \/ CheckRadio \/
          RadioOff \/ OpenReader \/ NotifyWorker \/ OpenScreen \/ DrainEnds \/ BringRadioUp \/
          ClockDone \/ PreSleepDrain \/ LastTeardown
  BY <1>16 DEF TakeNotification, IdleTimeout, ExitIfIdle, Associated, CheckRadio,
    RadioStillOursToTearDown, WifiActivityOnStack, RadioOff, OpenReader, NotifyWorker,
    OpenScreen, Busy, DrainEnds, BringRadioUp, ScreenRuns, ClockDone, PreSleepDrain,
    LastTeardown
<1>17. CASE CloseScreen \/ EnterDeepSleep \/ Wake
  BY <1>17, Reboots DEF CloseScreen, ClockTurnsRadioOff, ScreenRuns, EnterDeepSleep, Wake
<1>18. CASE UNCHANGED vars
  BY <1>18 DEF vars
<1> QED
  BY <1>1, <1>2, <1>3, <1>4, <1>5, <1>6, <1>7, <1>8, <1>9, <1>10, <1>11, <1>12, <1>13, <1>14,
    <1>15, <1>16, <1>17, <1>18 DEF Next, WorkerTask, Reader, Screens, Sleep

\* A number is left for whoever may still post.
LEMMA NumbersLeft ==
  ASSUME Typed, [Next]_vars
  PROVE  NumberLeft'
<1> USE PostsAssumption DEF Typed, NumberLeft, TypeOK, JobTypes, PlaceTypes, Awake, Sleeping,
      LoopPoints, WorkerOnly, slotVars, workerVars, radioVars, screenVars, readerVars, sleepVars,
      historyVars
<1>1. CASE TakeNotification \/ IdleTimeout \/ ExitIfIdle \/ TakeJob
  BY <1>1 DEF TakeNotification, IdleTimeout, ExitIfIdle, TakeJob
<1>2. CASE CheckOwner \/ LookAtRadio \/ LookAtLink \/ ChooseNetwork \/ BeginAssociating
          \/ Associated \/ AssociateTimesOut
  BY <1>2 DEF CheckOwner, WifiActivityOnStack, LookAtRadio, LookAtLink, ChooseNetwork, Leave,
    BeginAssociating, Associated, AssociateTimesOut
<1>3. CASE Request \/ CheckRadio \/ RadioOff \/ FinishJob
  BY <1>3 DEF Request, Leave, CheckRadio, RadioStillOursToTearDown, WifiActivityOnStack,
    RadioOff, FinishJob
<1>4. CASE AutoPull
  BY <1>4 DEF AutoPull, ReaderRuns, Post, Busy
<1>5. CASE AutoPush
  BY <1>5 DEF AutoPush, ReaderRuns, Post, Busy
<1>6. CASE PostSleepPush
  BY <1>6 DEF PostSleepPush, Post, PostRefused, Busy
<1>7. CASE RetrySleepPush
  BY <1>7 DEF RetrySleepPush, Post, PostRefused, Busy
<1>8. CASE PollPull
  BY <1>8 DEF PollPull, ReaderRuns, Consume, Delivers, IsDone
<1>9. CASE PollPush
  BY <1>9 DEF PollPush, ReaderRuns, Consume, Delivers, IsDone, Finalize
<1>10. CASE CloseReader
  BY <1>10 DEF CloseReader, ReaderRuns, ReleaseAutoSyncSlot, Consume, Delivers, Finalize
<1>11. CASE ExitForSleep
  BY <1>11 DEF ExitForSleep, ReleaseAutoSyncSlot, Consume, Delivers, Finalize
<1>12. CASE JoinSleepPush
  BY <1>12 DEF JoinSleepPush, IsDone, Consume, Delivers, Finalize
<1>13. CASE NotifyWorker
  BY <1>13 DEF NotifyWorker
<1>14. CASE OpenReader \/ OpenScreen \/ DrainEnds \/ BringRadioUp \/ ClockDone \/ PreSleepDrain
          \/ LastTeardown
  BY <1>14 DEF OpenReader, OpenScreen, Busy, DrainEnds, BringRadioUp, ScreenRuns, ClockDone,
    ClockTurnsRadioOff, PreSleepDrain, LastTeardown
<1>15. CASE CloseScreen \/ EnterDeepSleep \/ Wake
  BY <1>15, Reboots DEF CloseScreen, ClockTurnsRadioOff, ScreenRuns, EnterDeepSleep, Wake
<1>16. CASE UNCHANGED vars
  BY <1>16 DEF vars
<1> QED
  BY <1>1, <1>2, <1>3, <1>4, <1>5, <1>6, <1>7, <1>8, <1>9, <1>10, <1>11, <1>12, <1>13, <1>14,
    <1>15, <1>16 DEF Next, WorkerTask, Reader, Screens, Sleep

\* The one carrier of a posted job.
LEMMA WakersPreserved ==
  ASSUME Typed, Wakers, [Next]_vars
  PROVE  Wakers'
<1> USE DEF Typed, TypeOK, FlagTypes, JobTypes, PlaceTypes, Wakers, PostedJobHasWaker,
      Notifying, Idle, Busy, WorkerPoints, OnJob, LoopPoints, Sleeping, WorkerOnly, slotVars,
      workerVars, radioVars, screenVars, readerVars, sleepVars,
      historyVars
<1>1. CASE TakeNotification
  BY <1>1 DEF TakeNotification
<1>2. CASE IdleTimeout
  BY <1>2 DEF IdleTimeout
<1>3. CASE ExitIfIdle
  BY <1>3 DEF ExitIfIdle
<1>4. CASE TakeJob
  BY <1>4 DEF TakeJob
<1>5. CASE CheckOwner \/ LookAtRadio \/ LookAtLink \/ ChooseNetwork \/ BeginAssociating
          \/ Associated \/ AssociateTimesOut
  <2>1. CASE CheckOwner \/ LookAtRadio \/ LookAtLink
    BY <2>1 DEF CheckOwner, WifiActivityOnStack, LookAtRadio, LookAtLink
  <2>2. CASE ChooseNetwork
    BY <2>2 DEF ChooseNetwork, Leave
  <2>3. CASE BeginAssociating
    BY <2>3 DEF BeginAssociating
  <2>4. CASE Associated
    BY <2>4 DEF Associated
  <2>5. CASE AssociateTimesOut
    BY <2>5 DEF AssociateTimesOut, Leave
  <2> QED
    BY <1>5, <2>1, <2>2, <2>3, <2>4, <2>5
<1>6. CASE Request \/ CheckRadio \/ RadioOff
  BY <1>6 DEF Request, Leave, CheckRadio, RadioStillOursToTearDown, WifiActivityOnStack,
    RadioOff
<1>7. CASE FinishJob
  BY <1>7 DEF FinishJob
<1>8. CASE AutoPull
  BY <1>8 DEF AutoPull, ReaderRuns, Post, Busy
<1>9. CASE AutoPush
  BY <1>9 DEF AutoPush, ReaderRuns, Post, Busy
<1>10. CASE PostSleepPush
  BY <1>10 DEF PostSleepPush, Post, PostRefused, Busy
<1>11. CASE RetrySleepPush
  BY <1>11 DEF RetrySleepPush, Post, PostRefused, Busy
<1>12. CASE PollPull
  BY <1>12 DEF PollPull, ReaderRuns, Consume, Delivers, IsDone
<1>13. CASE PollPush
  BY <1>13 DEF PollPush, ReaderRuns, Consume, Delivers, IsDone, Finalize
<1>14. CASE CloseReader
  BY <1>14 DEF CloseReader, ReaderRuns, ReleaseAutoSyncSlot, Consume, Delivers, Finalize
<1>15. CASE ExitForSleep
  BY <1>15 DEF ExitForSleep, ReleaseAutoSyncSlot, Consume, Delivers, Finalize
<1>16. CASE JoinSleepPush
  BY <1>16 DEF JoinSleepPush, IsDone, Consume, Delivers, Finalize
<1>17. CASE NotifyWorker
  BY <1>17 DEF NotifyWorker
<1>18. CASE OpenScreen
  BY <1>18 DEF OpenScreen, Busy
<1>19. CASE OpenReader
  BY <1>19 DEF OpenReader
<1>20. CASE BringRadioUp
  BY <1>20 DEF BringRadioUp, ScreenRuns
<1>21. CASE ClockDone
  BY <1>21 DEF ClockDone, ClockTurnsRadioOff, ScreenRuns
<1>22. CASE DrainEnds
  BY <1>22 DEF DrainEnds
<1>23. CASE PreSleepDrain
  BY <1>23 DEF PreSleepDrain, Busy
<1>24. CASE LastTeardown
  BY <1>24 DEF LastTeardown, Busy
<1>25. CASE CloseScreen \/ EnterDeepSleep \/ Wake
  BY <1>25, Reboots DEF CloseScreen, ClockTurnsRadioOff, ScreenRuns, EnterDeepSleep, Wake
<1>26. CASE UNCHANGED vars
  BY <1>26 DEF vars
<1> QED
  BY <1>1, <1>2, <1>3, <1>4, <1>5, <1>6, <1>7, <1>8, <1>9, <1>10, <1>11, <1>12, <1>13, <1>14,
    <1>15, <1>16, <1>17, <1>18, <1>19, <1>20, <1>21, <1>22, <1>23, <1>24, <1>25, <1>26 DEF Next,
    WorkerTask, Reader, Screens, Sleep

\* The active job is the one in the slot or with the worker.
LEMMA TagsPreserved ==
  ASSUME Typed, Wakers, Tags, [Next]_vars
  PROVE  Tags'
<1> USE PostsAssumption DEF Typed, TypeOK, FlagTypes, JobTypes, PlaceTypes, Seqs, Jobs, NoJob,
      Wakers, Tags, Idle, Busy, WorkerPoints, OnJob, LoopPoints, Sleeping, WorkerOnly, slotVars,
      workerVars, radioVars, screenVars, readerVars, sleepVars,
      historyVars
<1>1. CASE TakeNotification
  BY <1>1 DEF TakeNotification
<1>2. CASE IdleTimeout
  BY <1>2 DEF IdleTimeout
<1>3. CASE ExitIfIdle
  BY <1>3 DEF ExitIfIdle
<1>4. CASE TakeJob
  BY <1>4 DEF TakeJob
<1>5. CASE CheckOwner \/ LookAtRadio \/ LookAtLink \/ ChooseNetwork \/ BeginAssociating
          \/ Associated \/ AssociateTimesOut
  <2>1. CASE CheckOwner \/ LookAtRadio \/ LookAtLink
    BY <2>1 DEF CheckOwner, WifiActivityOnStack, LookAtRadio, LookAtLink
  <2>2. CASE ChooseNetwork
    BY <2>2 DEF ChooseNetwork, Leave
  <2>3. CASE BeginAssociating
    BY <2>3 DEF BeginAssociating
  <2>4. CASE Associated
    BY <2>4 DEF Associated
  <2>5. CASE AssociateTimesOut
    BY <2>5 DEF AssociateTimesOut, Leave
  <2> QED
    BY <1>5, <2>1, <2>2, <2>3, <2>4, <2>5
<1>6. CASE Request \/ CheckRadio \/ RadioOff
  BY <1>6 DEF Request, Leave, CheckRadio, RadioStillOursToTearDown, WifiActivityOnStack,
    RadioOff
<1>7. CASE FinishJob
  BY <1>7 DEF FinishJob
<1>8. CASE AutoPull
  BY <1>8 DEF AutoPull, ReaderRuns, Post, Busy
<1>9. CASE AutoPush
  BY <1>9 DEF AutoPush, ReaderRuns, Post, Busy
<1>10. CASE PostSleepPush
  BY <1>10 DEF PostSleepPush, Post, PostRefused, Busy
<1>11. CASE RetrySleepPush
  BY <1>11 DEF RetrySleepPush, Post, PostRefused, Busy
<1>12. CASE PollPull
  BY <1>12 DEF PollPull, ReaderRuns, Consume, Delivers, IsDone
<1>13. CASE PollPush
  BY <1>13 DEF PollPush, ReaderRuns, Consume, Delivers, IsDone, Finalize
<1>14. CASE CloseReader
  BY <1>14 DEF CloseReader, ReaderRuns, ReleaseAutoSyncSlot, Consume, Delivers, Finalize
<1>15. CASE ExitForSleep
  BY <1>15 DEF ExitForSleep, ReleaseAutoSyncSlot, Consume, Delivers, Finalize
<1>16. CASE JoinSleepPush
  BY <1>16 DEF JoinSleepPush, IsDone, Consume, Delivers, Finalize
<1>17. CASE NotifyWorker
  BY <1>17 DEF NotifyWorker
<1>18. CASE OpenScreen
  BY <1>18 DEF OpenScreen, Busy
<1>19. CASE OpenReader
  BY <1>19 DEF OpenReader
<1>20. CASE BringRadioUp
  BY <1>20 DEF BringRadioUp, ScreenRuns
<1>21. CASE ClockDone
  BY <1>21 DEF ClockDone, ClockTurnsRadioOff, ScreenRuns
<1>22. CASE DrainEnds
  BY <1>22 DEF DrainEnds
<1>23. CASE PreSleepDrain
  BY <1>23 DEF PreSleepDrain, Busy
<1>24. CASE LastTeardown
  BY <1>24 DEF LastTeardown, Busy
<1>25. CASE CloseScreen \/ EnterDeepSleep \/ Wake
  BY <1>25, Reboots DEF CloseScreen, ClockTurnsRadioOff, ScreenRuns, EnterDeepSleep, Wake
<1>26. CASE UNCHANGED vars
  BY <1>26 DEF vars
<1> QED
  BY <1>1, <1>2, <1>3, <1>4, <1>5, <1>6, <1>7, <1>8, <1>9, <1>10, <1>11, <1>12, <1>13, <1>14,
    <1>15, <1>16, <1>17, <1>18, <1>19, <1>20, <1>21, <1>22, <1>23, <1>24, <1>25, <1>26 DEF Next,
    WorkerTask, Reader, Screens, Sleep

\* A result that reads OK was stored.
LEMMA HonestPreserved ==
  ASSUME Typed, Wakers, Tags, Honest, [Next]_vars
  PROVE  Honest'
<1> USE PostsAssumption DEF Typed, TypeOK, FlagTypes, JobTypes, Jobs, Wakers, Tags, Honest,
      Busy, OnJob, WorkerOnly, slotVars, workerVars, radioVars, screenVars, readerVars,
      sleepVars, historyVars
<1>1. CASE TakeNotification
  BY <1>1 DEF TakeNotification
<1>2. CASE IdleTimeout
  BY <1>2 DEF IdleTimeout
<1>3. CASE ExitIfIdle
  BY <1>3 DEF ExitIfIdle
<1>4. CASE TakeJob
  BY <1>4 DEF TakeJob
<1>5. CASE CheckOwner \/ LookAtRadio \/ LookAtLink \/ ChooseNetwork \/ BeginAssociating
          \/ Associated \/ AssociateTimesOut
  <2>1. CASE CheckOwner \/ LookAtRadio \/ LookAtLink
    BY <2>1 DEF CheckOwner, WifiActivityOnStack, LookAtRadio, LookAtLink
  <2>2. CASE ChooseNetwork
    BY <2>2 DEF ChooseNetwork, Leave
  <2>3. CASE BeginAssociating
    BY <2>3 DEF BeginAssociating
  <2>4. CASE Associated
    BY <2>4 DEF Associated
  <2>5. CASE AssociateTimesOut
    BY <2>5 DEF AssociateTimesOut, Leave
  <2> QED
    BY <1>5, <2>1, <2>2, <2>3, <2>4, <2>5
<1>6. CASE Request
  BY <1>6 DEF Request, Leave
<1>7. CASE CheckRadio
  BY <1>7 DEF CheckRadio, RadioStillOursToTearDown, WifiActivityOnStack
<1>8. CASE RadioOff
  BY <1>8 DEF RadioOff
<1>9. CASE FinishJob
  BY <1>9 DEF FinishJob
<1>10. CASE AutoPull
  BY <1>10 DEF AutoPull, ReaderRuns, Post, Busy
<1>11. CASE AutoPush
  BY <1>11 DEF AutoPush, ReaderRuns, Post, Busy
<1>12. CASE PostSleepPush
  BY <1>12 DEF PostSleepPush, Post, PostRefused, Busy
<1>13. CASE RetrySleepPush
  BY <1>13 DEF RetrySleepPush, Post, PostRefused, Busy
<1>14. CASE PollPull
  BY <1>14, ConsumeHonest DEF PollPull, ReaderRuns, IsDone
<1>15. CASE PollPush
  BY <1>15, ConsumeHonest, FinalizeHonest DEF PollPush, ReaderRuns, IsDone
<1>16. CASE CloseReader
  BY <1>16, ConsumeHonest, FinalizeHonest DEF CloseReader, ReaderRuns, ReleaseAutoSyncSlot
<1>17. CASE ExitForSleep
  BY <1>17, ConsumeHonest, FinalizeHonest DEF ExitForSleep, ReleaseAutoSyncSlot
<1>18. CASE JoinSleepPush
  BY <1>18, ConsumeHonest, FinalizeHonest DEF JoinSleepPush, IsDone
<1>19. CASE NotifyWorker
  BY <1>19 DEF NotifyWorker
<1>20. CASE OpenScreen
  BY <1>20 DEF OpenScreen, Busy
<1>21. CASE OpenReader
  BY <1>21 DEF OpenReader
<1>22. CASE BringRadioUp
  BY <1>22 DEF BringRadioUp, ScreenRuns
<1>23. CASE ClockDone
  BY <1>23 DEF ClockDone, ClockTurnsRadioOff, ScreenRuns
<1>24. CASE DrainEnds
  BY <1>24 DEF DrainEnds
<1>25. CASE PreSleepDrain
  BY <1>25 DEF PreSleepDrain, Busy
<1>26. CASE LastTeardown
  BY <1>26 DEF LastTeardown, Busy
<1>27. CASE CloseScreen \/ EnterDeepSleep \/ Wake
  BY <1>27, Reboots DEF CloseScreen, ClockTurnsRadioOff, ScreenRuns, EnterDeepSleep, Wake
<1>28. CASE UNCHANGED vars
  BY <1>28 DEF vars
<1> QED
  BY <1>1, <1>2, <1>3, <1>4, <1>5, <1>6, <1>7, <1>8, <1>9, <1>10, <1>11, <1>12, <1>13, <1>14,
    <1>15, <1>16, <1>17, <1>18, <1>19, <1>20, <1>21, <1>22, <1>23, <1>24, <1>25, <1>26, <1>27,
    <1>28 DEF Next, WorkerTask, Reader, Screens, Sleep

\* The radio is up for a job that will take it down.
LEMMA RadioHeldPreserved ==
  ASSUME Typed, RadioHeld, [Next]_vars
  PROVE  RadioHeld'
<1> USE DEF FlagTypes, PlaceTypes, Typed, TypeOK, RadioHeld, Awake, WorkerPoints, OnJob, Connecting,
      LoopPoints, Sleeping, WorkerOnly, slotVars, workerVars, radioVars, screenVars, readerVars,
      sleepVars, historyVars
<1>1. CASE TakeNotification
  BY <1>1 DEF TakeNotification
<1>2. CASE IdleTimeout
  BY <1>2 DEF IdleTimeout
<1>3. CASE ExitIfIdle
  BY <1>3 DEF ExitIfIdle
<1>4. CASE TakeJob
  BY <1>4 DEF TakeJob
<1>5. CASE CheckOwner
  BY <1>5 DEF CheckOwner, WifiActivityOnStack
<1>6. CASE LookAtRadio \/ LookAtLink \/ ChooseNetwork \/ BeginAssociating
  <2>1. CASE LookAtRadio
    BY <2>1 DEF LookAtRadio
  <2>2. CASE LookAtLink
    BY <2>2 DEF LookAtLink
  <2>3. CASE ChooseNetwork
    BY <2>3 DEF ChooseNetwork, Leave
  <2>4. CASE BeginAssociating
    BY <2>4 DEF BeginAssociating
  <2> QED
    BY <1>6, <2>1, <2>2, <2>3, <2>4
<1>7. CASE Associated
  BY <1>7 DEF Associated
<1>8. CASE AssociateTimesOut
  BY <1>8 DEF AssociateTimesOut, Leave
<1>9. CASE Request
  BY <1>9 DEF Request, Leave
<1>10. CASE CheckRadio
  BY <1>10 DEF CheckRadio, RadioStillOursToTearDown, WifiActivityOnStack
<1>11. CASE RadioOff
  BY <1>11 DEF RadioOff
<1>12. CASE FinishJob
  BY <1>12 DEF FinishJob
<1>13. CASE AutoPull
  BY <1>13 DEF AutoPull, ReaderRuns, Post, Busy
<1>14. CASE AutoPush
  BY <1>14 DEF AutoPush, ReaderRuns, Post, Busy
<1>15. CASE PostSleepPush
  BY <1>15 DEF PostSleepPush, Post, PostRefused, Busy
<1>16. CASE RetrySleepPush
  BY <1>16 DEF RetrySleepPush, Post, PostRefused, Busy
<1>17. CASE PollPull
  BY <1>17 DEF PollPull, ReaderRuns, Consume, Delivers, IsDone
<1>18. CASE PollPush
  BY <1>18 DEF PollPush, ReaderRuns, Consume, Delivers, IsDone, Finalize
<1>19. CASE CloseReader
  BY <1>19 DEF CloseReader, ReaderRuns, ReleaseAutoSyncSlot, Consume, Delivers, Finalize
<1>20. CASE ExitForSleep
  BY <1>20 DEF ExitForSleep, ReleaseAutoSyncSlot, Consume, Delivers, Finalize
<1>21. CASE JoinSleepPush
  BY <1>21 DEF JoinSleepPush, IsDone, Consume, Delivers, Finalize
<1>22. CASE NotifyWorker
  BY <1>22 DEF NotifyWorker
<1>23. CASE OpenScreen
  BY <1>23 DEF OpenScreen, Busy
<1>24. CASE OpenReader
  BY <1>24 DEF OpenReader
<1>25. CASE BringRadioUp
  BY <1>25 DEF BringRadioUp, ScreenRuns
<1>26. CASE ClockDone
  BY <1>26 DEF ClockDone, ClockTurnsRadioOff, ScreenRuns
<1>27. CASE DrainEnds
  BY <1>27 DEF DrainEnds
<1>28. CASE PreSleepDrain
  BY <1>28 DEF PreSleepDrain, Busy
<1>29. CASE LastTeardown
  BY <1>29 DEF LastTeardown, Busy
<1>30. CASE CloseScreen \/ EnterDeepSleep \/ Wake
  <2>1. CASE Restart
    BY <2>1, Reboots
  <2>2. CASE radio' = "null" /\ ClockTurnsRadioOff /\ UNCHANGED <<workerAt, startedRadio>>
    <3>1. undercut' \/ ~(workerAt' \in Connecting /\ ~startedRadio')
      BY <2>2 DEF ClockTurnsRadioOff
    <3> QED
      BY <2>2, <3>1 DEF ClockTurnsRadioOff
  <2>3. CASE UNCHANGED <<workerAt, startedRadio, radio, link, undercut>>
          /\ (radio = "null" \/ screen' = screen) /\ Awake
    BY <2>3
  <2> QED
    BY <1>30, <2>1, <2>2, <2>3 DEF CloseScreen, ClockTurnsRadioOff, ScreenRuns, EnterDeepSleep, Wake
<1>31. CASE UNCHANGED vars
  <2> UNCHANGED <<workerAt, startedRadio, radio, link, screen, loopAt, undercut>>
    BY <1>31 DEF vars
  <2> QED
    OBVIOUS
<1> QED
  BY <1>1, <1>2, <1>3, <1>4, <1>5, <1>6, <1>7, <1>8, <1>9, <1>10, <1>11, <1>12, <1>13, <1>14,
    <1>15, <1>16, <1>17, <1>18, <1>19, <1>20, <1>21, <1>22, <1>23, <1>24, <1>25, <1>26, <1>27,
    <1>28, <1>29, <1>30, <1>31 DEF Next, WorkerTask, Reader, Screens, Sleep

\* Between boots, wherever the two tasks are, the five parts of IInv hold.
THEOREM Invariance == Spec => []IInv
<1>1. Init => IInv
  BY Boots
<1>2. IInv /\ [Next]_vars => IInv'
  BY FlagsTyped, PlacesTyped, JobsTyped, NumbersLeft, WakersPreserved, TagsPreserved,
     HonestPreserved, RadioHeldPreserved DEF IInv, Typed, TypeOK
<1>3. QED
  BY <1>1, <1>2, PTL DEF Spec

\* The state always has its types.
THEOREM TypeCorrect == Spec => []TypeOK
<1>1. IInv => TypeOK
  BY DEF IInv, Typed
<1>2. QED
  BY <1>1, Invariance, PTL

\* The idle exit and the unlocked notification never strand a posted job.
THEOREM NoJobStranded == Spec => []PostedJobHasWaker
<1>1. IInv => PostedJobHasWaker
  BY DEF IInv, Wakers
<1>2. QED
  BY <1>1, Invariance, PTL

\* A job that is done, or that drain() waited for, has let go of the radio.
THEOREM DoneJobsReleased == Spec => []DoneMeansReleased
<1>1. IInv => DoneMeansReleased
  BY DEF IInv, Wakers, Tags, DoneMeansReleased
<1>2. QED
  BY <1>1, Invariance, PTL

\* Only a push the server stored is marked synced.
THEOREM SyncedIsStored == Spec => []ReportedWasStored
<1>1. IInv => ReportedWasStored
  BY DEF IInv, Honest, ReportedWasStored
<1>2. QED
  BY <1>1, Invariance, PTL

\* Awake, with no job and no network screen, the radio is off.
THEOREM RadioGivenBack == Spec => []RadioReturned
<1>1. IInv => RadioReturned
  BY DEF IInv, RadioHeld, Awake, RadioReturned, OnJob
<1>2. QED
  BY <1>1, Invariance, PTL

\* The teardowns on the way to deep sleep spare a request that is still open.
THEOREM SleepTeardownSafe == Spec => SleepSparesTheSocket
<1>1. IInv /\ [Next]_vars =>
        [(loopAt \in {"sleepDrain", "sleepLast"} /\ workerAt = "request" /\ radio # "null")
           => radio' # "null"]_vars
  <2> SUFFICES ASSUME IInv, Next,
                      loopAt \in {"sleepDrain", "sleepLast"}, workerAt = "request", radio # "null"
               PROVE  radio' # "null"
    BY DEF vars
  <2>1. Busy
    BY DEF IInv, Wakers, OnJob
  <2>2. CASE WorkerTask \/ Request
    BY <2>2 DEF WorkerTask, TakeNotification, IdleTimeout, ExitIfIdle, TakeJob, CheckOwner,
      LookAtRadio, LookAtLink, ChooseNetwork, BeginAssociating, Associated, AssociateTimesOut,
      CheckRadio, RadioOff, FinishJob, Request, radioVars
  <2>3. CASE Reader \/ NotifyWorker \/ Screens \/ EnterDeepSleep \/ Wake
    BY <2>3 DEF Reader, OpenReader, AutoPull, AutoPush, PollPull, PollPush, CloseReader, ReaderRuns,
      NotifyWorker, Screens, OpenScreen, DrainEnds, BringRadioUp, ClockDone,
      ClockTurnsRadioOff, CloseScreen, ScreenRuns,
      EnterDeepSleep, Wake
  <2>4. CASE Sleep
    BY <2>1, <2>4 DEF Sleep, PreSleepDrain, ExitForSleep, PostSleepPush, RetrySleepPush, JoinSleepPush,
      LastTeardown, radioVars
  <2>5. QED
    BY <2>2, <2>3, <2>4 DEF Next
<1>2. QED
  BY <1>1, Invariance, PTL DEF Spec, SleepSparesTheSocket
=============================================================================

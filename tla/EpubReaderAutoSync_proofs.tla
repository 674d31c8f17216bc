----------------------- MODULE EpubReaderAutoSync_proofs -----------------------
(***************************************************************************)
(* For every number of pages, posts, turns, other writes and boots: the    *)
(* types; what sleep accounts for; a settled page is stored; and a wake    *)
(* pull's upload takes the server further.                                 *)
(***************************************************************************)
EXTENDS EpubReaderAutoSync, TLAPS

USE DEF None, Ids

----------------------------------------------------------------------------
(* Types. *)

LEMMA Sizes ==
  /\ MaxPage \in Nat \ {0} /\ Interval \in Nat \ {0} /\ MaxPosts \in Nat \ {0}
  /\ MaxTurns \in Nat /\ MaxOthers \in Nat /\ MaxBoots \in Nat
BY SizesAssumption

SlotTypes == slotAt \in {"free", "queued", "answered", "done"} /\ slot \in Jobs /\ nextSeq \in 1..MaxPosts + 1
StateTypes == state \in States /\ card \in States

LEMMA JobTypes == NoJob \in Jobs /\ LostJob \in Jobs
BY Sizes DEF NoJob, LostJob, Jobs

LEMMA PostTypes ==
  ASSUME SlotTypes, NEW kind \in {"fetch", "push"}, NEW id \in Ids, NEW p \in {None} \cup Pages, Post(kind, id, p)
  PROVE  SlotTypes' /\ nextSeq \in 1..MaxPosts
<1>1. nextSeq \in Nat /\ nextSeq >= 1 /\ nextSeq <= MaxPosts /\ nextSeq' = nextSeq + 1
  BY Sizes DEF SlotTypes, Post
<1>2. nextSeq \in 1..MaxPosts /\ nextSeq \in 0..MaxPosts /\ nextSeq' \in 1..MaxPosts + 1
  BY <1>1, Sizes
<1>3. slot' = [kind |-> kind, seq |-> nextSeq, id |-> id, page |-> p, result |-> "ok", remote |-> None,
               alt |-> None]
  BY DEF Post, NoJob
<1>4. slot' \in Jobs
  BY <1>2, <1>3 DEF Jobs
<1> QED
  BY <1>2, <1>4 DEF Post, SlotTypes

LEMMA ConsumeTypes == ASSUME SlotTypes, NEW seq, Consume(seq) PROVE SlotTypes'
BY JobTypes DEF SlotTypes, Consume, slotVars

LEMMA ConsumedType == ASSUME SlotTypes, NEW seq PROVE Consumed(seq) \in Jobs
BY JobTypes DEF SlotTypes, Consumed

LEMMA SavedTypes == ASSUME NEW s \in States, Saved(s) PROVE StateTypes'
BY DEF Saved, Kept, States, StateTypes

LEMMA SyncedTypes ==
  ASSUME NEW s \in States, NEW p \in {None} \cup Pages, Saved(MarkSynced(s, p))
  PROVE  StateTypes'
<1>1. MarkSynced(s, p) \in States
  <2>1. 0 \in 0..Interval
    BY Sizes
  <2> QED
    BY <2>1 DEF MarkSynced, States
<1> QED
  BY <1>1, SavedTypes

LEMMA FailedTypes == ASSUME StateTypes, MarkSyncFailed PROVE StateTypes'
<1>1. [state EXCEPT !.failed = TRUE] \in States
  BY DEF StateTypes, States
<1> QED
  BY <1>1, SavedTypes DEF MarkSyncFailed, StateTypes

LEMMA NotedType == ASSUME StateTypes, NEW p \in Pages PROVE Noted(p) \in States
<1>1. state.turnsSince \in 0..Interval
  BY DEF StateTypes, States
<1>2. state.turnsSince < Interval => state.turnsSince + 1 \in 0..Interval
  BY <1>1, Sizes
<1> DEFINE counted == IF p # state.lastSeen /\ state.turnsSince < Interval THEN state.turnsSince + 1
                      ELSE state.turnsSince
<1>3. counted \in 0..Interval
  BY <1>1, <1>2
<1> HIDE DEF counted
<1>4. Noted(p) = [state EXCEPT !.lastSeen = p, !.turnsSince = counted,
                               !.pending = state.pending \/ p # state.lastPushed]
  BY DEF Noted, counted
<1> QED
  BY <1>3, <1>4 DEF StateTypes, States

LEMMA FinalizeTypes == ASSUME SlotTypes, StateTypes, NEW seq, Finalize(seq) PROVE SlotTypes' /\ StateTypes'
<1>1. SlotTypes'
  BY ConsumeTypes DEF Finalize
<1>2. Consumed(seq).page \in {None} \cup Pages
  BY ConsumedType DEF Jobs
<1>3. StateTypes'
  BY <1>2, SyncedTypes, FailedTypes DEF Finalize, StateTypes
<1> QED
  BY <1>1, <1>3

LEMMA BootTypes ==
  ASSUME AutoTypeOK, NEW resume \in BOOLEAN, Boot(resume), card' \in States, page' \in Pages
  PROVE  /\ at' = "idle" /\ section' \in BOOLEAN /\ linkOpen' \in BOOLEAN /\ pullPending' \in BOOLEAN
         /\ pullSeq' \in 0..MaxPosts /\ pushSeq' \in 0..MaxPosts /\ sleepSeq' \in 0..MaxPosts /\ pullJob' = {}
         /\ wasTurn' \in BOOLEAN /\ stash' \in {None} \cup Pages /\ unsent' \in BOOLEAN
         /\ SlotTypes' /\ StateTypes'
         /\ UNCHANGED <<smart, turns, others, newer>>
<1>1. state' \in States
  BY DEF Boot, States
<1>2. SlotTypes'
  BY JobTypes DEF Boot, AutoTypeOK, SlotTypes
<1>3. 0 \in 0..MaxPosts
  BY Sizes
<1> QED
  BY <1>1, <1>2, <1>3 DEF Boot, OpenReader, StateTypes

\* The parts of the type invariant.
RestTypes ==
  /\ server \in [Ids -> {None} \cup Pages] /\ others \in 0..MaxOthers
  /\ smart \in BOOLEAN /\ method \in Ids
  /\ page \in Pages /\ section \in BOOLEAN /\ linkOpen \in BOOLEAN
  /\ pullPending \in BOOLEAN
  /\ pullSeq \in 0..MaxPosts /\ pushSeq \in 0..MaxPosts /\ sleepSeq \in 0..MaxPosts
  /\ pullJob \subseteq Jobs /\ wasTurn \in BOOLEAN /\ stash \in {None} \cup Pages
  /\ unsent \in BOOLEAN
  /\ turns \in 0..MaxTurns /\ boots \in 0..MaxBoots
  /\ crossed \subseteq {"pull", "note", "sleep"} /\ theirs \subseteq Ids /\ newer \subseteq Ids

LEMMA TypeParts == AutoTypeOK <=> SlotTypes /\ StateTypes /\ RestTypes
BY DEF AutoTypeOK, SlotTypes, StateTypes, RestTypes

LEMMA TypePartsNext == AutoTypeOK' <=> SlotTypes' /\ StateTypes' /\ RestTypes'
BY DEF AutoTypeOK, SlotTypes, StateTypes, RestTypes

LEMMA InitTypes == ASSUME Init PROVE AutoTypeOK
<1>0. /\ 1 \in Pages /\ 0 \in 0..Interval /\ 0 \in 0..MaxPosts /\ 1 \in 1..MaxPosts + 1
      /\ 0 \in 0..MaxOthers /\ 0 \in 0..MaxTurns /\ 0 \in 0..MaxBoots
  BY Sizes DEF Pages
<1>1. StateTypes
  <2>1. card \in States
    BY <1>0 DEF Init, States
  <2> QED
    BY <1>0, <2>1 DEF Init, StateTypes, States
<1>2. SlotTypes /\ RestTypes
  BY <1>0, JobTypes DEF Init, SlotTypes, RestTypes
<1> QED
  BY <1>1, <1>2, TypeParts

LEMMA ElsewhereTypes == ASSUME AutoTypeOK, Elsewhere PROVE AutoTypeOK'
<1>0. SlotTypes /\ StateTypes /\ RestTypes
  BY TypeParts
<1>1. UNCHANGED <<smart, method, readerVars, pullVars, pushSeq, stateVars, sleepVars, at, boots>>
  BY DEF Elsewhere
<1>2. StateTypes'
  BY <1>0, <1>1 DEF StateTypes, stateVars
<1>3. CASE Fetch
  <2>1. OtherMethod(slot.id) \in Ids /\ server[OtherMethod(slot.id)] \in {None} \cup Pages
    <3>1. OtherMethod(slot.id) \in Ids
      BY <1>0 DEF SlotTypes, Jobs, OtherMethod
    <3> QED
      BY <1>0, <3>1 DEF RestTypes
  <2>2. SlotTypes'
    BY <1>0, <1>3, <2>1 DEF Fetch, SlotTypes, RestTypes, Jobs
  <2> QED
    BY <1>0, <1>1, <1>2, <1>3, <2>2, TypePartsNext DEF RestTypes, Fetch, serverVars, readerVars, pullVars, stateVars, sleepVars
<1>4. CASE Store
  <2>1. slot.id \in Ids /\ slot.page \in {None} \cup Pages
    BY <1>0 DEF SlotTypes, Jobs
  <2>2. SlotTypes'
    BY <1>0, <1>4 DEF Store, SlotTypes, Jobs
  <2>3. server' \in [Ids -> {None} \cup Pages]
    BY <1>0, <1>4, <2>1 DEF Store, RestTypes
  <2> QED
    BY <1>0, <1>1, <1>2, <1>4, <2>2, <2>3, TypePartsNext DEF RestTypes, Store, readerVars, pullVars, stateVars, sleepVars
<1>5. CASE Unreachable \/ Finish
  <2>1. SlotTypes'
    BY <1>0, <1>5 DEF Unreachable, Finish, SlotTypes, Jobs
  <2> QED
    BY <1>0, <1>1, <1>2, <1>5, <2>1, TypePartsNext
    DEF RestTypes, Unreachable, Finish, serverVars, readerVars, pullVars, stateVars, sleepVars
<1>6. ASSUME NEW id \in Ids, NEW p \in Pages, OtherDevice(id, p) PROVE AutoTypeOK'
  <2>1. SlotTypes' /\ server' \in [Ids -> {None} \cup Pages]
    BY <1>0, <1>6 DEF OtherDevice, SlotTypes, slotVars, RestTypes
  <2> QED
    BY <1>0, <1>1, <1>2, <1>6, <2>1, Sizes, TypePartsNext DEF RestTypes, OtherDevice, readerVars, pullVars, stateVars, sleepVars
<1> QED
  BY <1>3, <1>4, <1>5, <1>6 DEF Elsewhere

LEMMA PushTypes ==
  ASSUME AutoTypeOK, NEW id \in Ids, NEW p \in Pages, PushSilentAsync(id, p), pullJob' \in SUBSET Jobs
  PROVE  SlotTypes' /\ pushSeq' \in 0..MaxPosts /\ crossed' \subseteq {"pull", "note", "sleep"}
<1>0. SlotTypes /\ RestTypes /\ method \in Ids /\ 0 \in 0..MaxPosts /\ 1..MaxPosts \subseteq 0..MaxPosts
  BY TypeParts, Sizes DEF RestTypes
<1>1. CASE Post("push", id, p) /\ pushSeq' = nextSeq
        /\ crossed' = crossed \cup (IF pullSeq # 0 \/ pullJob' # {} THEN {"pull"} ELSE {})
                              \cup (IF ~state.pending /\ p # state.lastPushed THEN {"note"} ELSE {})
  BY <1>0, <1>1, PostTypes DEF RestTypes
<1>2. CASE pushSeq' = 0 /\ UNCHANGED <<slotVars, crossed>>
  BY <1>0, <1>2 DEF slotVars, SlotTypes, RestTypes
<1> QED
  BY <1>1, <1>2 DEF PushSilentAsync

LEMMA EvaluateTypes ==
  ASSUME AutoTypeOK, NEW job \in Jobs, Evaluate(job), pullJob' = {}
  PROVE  /\ SlotTypes' /\ StateTypes' /\ pushSeq' \in 0..MaxPosts
         /\ crossed' \subseteq {"pull", "note", "sleep"}
         /\ page' \in Pages /\ section' \in BOOLEAN /\ UNCHANGED <<linkOpen, turns>>
<1>0. SlotTypes /\ StateTypes /\ RestTypes
  BY TypeParts
<1>2. CASE UNCHANGED readerVars /\ UNCHANGED <<state, card>> /\ SilentUpload(Learned(job))
  <2>0. Learned(job) \in Ids
    BY <1>0 DEF Learned, OtherMethod, RestTypes
  <2>1. SlotTypes' /\ pushSeq' \in 0..MaxPosts /\ crossed' \subseteq {"pull", "note", "sleep"}
    BY <1>0, <1>2, <2>0, PushTypes DEF SilentUpload, slotVars, SlotTypes, RestTypes
  <2> QED
    BY <1>0, <1>2, <2>1 DEF readerVars, RestTypes, StateTypes
<1>3. CASE /\ UNCHANGED <<readerVars, pushSeq, slotVars, crossed>>
           /\ MarkSyncFailed \/ Saved(MarkSynced(state, LocalPage)) \/ UNCHANGED <<state, card>>
  <2>1. LocalPage \in {None} \cup Pages /\ state \in States
    BY <1>0 DEF LocalPage, RestTypes, StateTypes
  <2>2. StateTypes'
    BY <1>0, <1>3, <2>1, FailedTypes, SyncedTypes DEF StateTypes
  <2> QED
    BY <1>0, <1>3, <2>2 DEF readerVars, slotVars, RestTypes, SlotTypes
<1>4. CASE UNCHANGED <<pushSeq, slotVars, crossed>> /\ SilentApplyRemote
  <2>1. CASE UNCHANGED <<readerVars, state, card>>
    BY <1>0, <1>4, <2>1 DEF readerVars, slotVars, RestTypes, SlotTypes, StateTypes
  <2>2. ASSUME NEW mapped \in Pages, Saved(MarkSynced(state, mapped)), page' \in Pages, section' = FALSE,
               UNCHANGED <<linkOpen, turns>>
        PROVE  /\ SlotTypes' /\ StateTypes' /\ pushSeq' \in 0..MaxPosts
               /\ crossed' \subseteq {"pull", "note", "sleep"}
               /\ page' \in Pages /\ section' \in BOOLEAN /\ UNCHANGED <<linkOpen, turns>>
    <3>1. StateTypes'
      BY <1>0, <2>2, SyncedTypes DEF StateTypes
    <3> QED
      BY <1>0, <1>4, <2>2, <3>1 DEF slotVars, RestTypes, SlotTypes
  <2> QED
    BY <1>4, <2>1, <2>2 DEF SilentApplyRemote
<1> QED
  BY <1>2, <1>3, <1>4 DEF Evaluate

LEMMA PullTypes == ASSUME AutoTypeOK, MaybeAutoPullOnWake \/ CollectPull PROVE AutoTypeOK'
<1>0. SlotTypes /\ StateTypes /\ RestTypes /\ 0 \in 0..MaxPosts /\ 1..MaxPosts \subseteq 0..MaxPosts
  BY TypeParts, Sizes
<1>1. CASE MaybeAutoPullOnWake
  <2>1. SlotTypes' /\ pullSeq' \in 0..MaxPosts
    BY <1>0, <1>1, PostTypes DEF MaybeAutoPullOnWake, RestTypes
  <2> QED
    BY <1>0, <1>1, <2>1, TypePartsNext
    DEF MaybeAutoPullOnWake, RestTypes, StateTypes, serverVars, readerVars, stateVars, sleepVars
<1>2. CASE CollectPull
  <2>1. SlotTypes' /\ pullSeq' \in 0..MaxPosts /\ pullJob' \subseteq Jobs
    BY <1>0, <1>2, ConsumeTypes, ConsumedType DEF CollectPull, RestTypes, SlotTypes, slotVars
  <2> QED
    BY <1>0, <1>2, <2>1, TypePartsNext
    DEF CollectPull, RestTypes, StateTypes, serverVars, readerVars, stateVars, sleepVars
<1> QED
  BY <1>1, <1>2

LEMMA PollPullTypes == ASSUME AutoTypeOK, PollAutoSyncPull PROVE AutoTypeOK'
<1>0. SlotTypes /\ StateTypes /\ RestTypes
  BY TypeParts
<1>1. /\ UNCHANGED <<server, others, newer, smart, pullPending, pullSeq, wasTurn, sleepVars, boots>>
  BY DEF PollAutoSyncPull
<1>2. ASSUME NEW job \in pullJob, pullJob' = {}, Evaluate(job),
             method' = Learned(job),
             theirs' = IF server[method'] = state'.lastPushed THEN theirs \ {method'}
                       ELSE theirs \cup (IF section' THEN {method'} \ {method} ELSE {method'})
      PROVE  AutoTypeOK'
  <2>1. job \in Jobs
    BY <1>0 DEF RestTypes
  <2>2. method' \in Ids
    BY <1>0, <1>2 DEF RestTypes, Learned, OtherMethod
  <2> QED
    BY <1>0, <1>1, <1>2, <2>1, <2>2, EvaluateTypes, TypePartsNext DEF RestTypes, sleepVars
<1>3. CASE UNCHANGED <<pullJob, readerVars, state, card, pushSeq, slotVars, method, crossed, theirs>>
  BY <1>0, <1>1, <1>3, TypePartsNext DEF RestTypes, SlotTypes, StateTypes, readerVars, slotVars, sleepVars
<1> QED
  BY <1>2, <1>3 DEF PollAutoSyncPull

LEMMA LoopTypes ==
  ASSUME AutoTypeOK, PollAutoSyncJob \/ NotePage \/ MaybeAutoPushInterval PROVE AutoTypeOK'
<1>0. SlotTypes /\ StateTypes /\ RestTypes /\ 0 \in 0..MaxPosts
  BY TypeParts, Sizes
<1>1. CASE PollAutoSyncJob
  <2>1. SlotTypes' /\ StateTypes' /\ pushSeq' \in 0..MaxPosts
    BY <1>0, <1>1, FinalizeTypes DEF PollAutoSyncJob, SlotTypes, StateTypes, RestTypes, slotVars
  <2> QED
    BY <1>0, <1>1, <2>1, TypePartsNext DEF PollAutoSyncJob, RestTypes, serverVars, readerVars, pullVars, sleepVars
<1>2. CASE NotePage
  <2>1. StateTypes' /\ wasTurn' \in BOOLEAN
    <3>1. CASE UNCHANGED stateVars
      BY <1>0, <3>1 DEF stateVars, StateTypes, RestTypes
    <3>2. CASE NoteProgress(page)
      <4>1. Noted(page) \in States
        BY <1>0, NotedType DEF RestTypes
      <4>2. Kept(Noted(page)) \in States
        BY <4>1 DEF Kept, States
      <4> QED
        BY <1>0, <3>2, <4>1, <4>2 DEF NoteProgress, StateTypes
    <3> QED
      BY <1>2, <3>1, <3>2 DEF NotePage
  <2> QED
    BY <1>0, <1>2, <2>1, TypePartsNext
    DEF NotePage, RestTypes, SlotTypes, serverVars, slotVars, readerVars, pullVars, sleepVars
<1>3. CASE MaybeAutoPushInterval
  <2>1. SlotTypes' /\ pushSeq' \in 0..MaxPosts /\ crossed' \subseteq {"pull", "note", "sleep"}
    <3>1. page \in Pages /\ pullJob' \in SUBSET Jobs
      BY <1>0, <1>3 DEF MaybeAutoPushInterval, RestTypes, pullVars
    <3>2. PushSilentAsync(method, page) \/ UNCHANGED <<pushSeq, slotVars, crossed>>
      BY <1>3 DEF MaybeAutoPushInterval
    <3> QED
      BY <1>0, <3>1, <3>2, PushTypes DEF slotVars, SlotTypes, RestTypes
  <2> QED
    BY <1>0, <1>3, <2>1, TypePartsNext
    DEF MaybeAutoPushInterval, RestTypes, StateTypes, serverVars, readerVars, pullVars, stateVars, sleepVars
<1> QED
  BY <1>1, <1>2, <1>3

LEMMA ReaderTypes ==
  ASSUME AutoTypeOK, TurnPage \/ RenderPass \/ \E why \in DOMAIN After : Exit(why) PROVE AutoTypeOK'
<1>0. SlotTypes /\ StateTypes /\ RestTypes
  BY TypeParts
<1>1. CASE TurnPage
  <2>1. turns' \in 0..MaxTurns
    BY <1>0, <1>1, Sizes DEF TurnPage, RestTypes
  <2>2. section' \in BOOLEAN /\ linkOpen' \in BOOLEAN /\ page' \in Pages
    <3>1. (page' > page) \in BOOLEAN
      OBVIOUS
    <3>2. page' \in Pages
      BY <1>1 DEF TurnPage
    <3>3. \/ section' \in BOOLEAN /\ UNCHANGED linkOpen
          \/ section' = FALSE /\ linkOpen' = (page' > page)
      BY <1>1 DEF TurnPage
    <3> QED
      BY <1>0, <3>1, <3>2, <3>3, Zenon DEF RestTypes
  <2> QED
    BY <1>0, <1>1, <2>1, <2>2, TypePartsNext
    DEF TurnPage, RestTypes, SlotTypes, StateTypes, serverVars, slotVars, pullVars, stateVars, sleepVars
<1>2. CASE RenderPass
  BY <1>0, <1>2, TypePartsNext
  DEF RenderPass, RestTypes, SlotTypes, StateTypes, serverVars, slotVars, pullVars, stateVars, sleepVars
<1>3. ASSUME NEW why \in DOMAIN After, Exit(why) PROVE AutoTypeOK'
  BY <1>0, <1>3, TypePartsNext
  DEF Exit, RestTypes, SlotTypes, StateTypes, serverVars, slotVars, readerVars, pullVars, stateVars
<1> QED
  BY <1>1, <1>2, <1>3

LEMMA LeaveTypes == ASSUME AutoTypeOK, MaybeAutoPushOnSleep \/ ReleaseAutoSyncSlot PROVE AutoTypeOK'
<1>0. SlotTypes /\ StateTypes /\ RestTypes /\ 0 \in 0..MaxPosts
  BY TypeParts, Sizes
<1>1. CASE MaybeAutoPushOnSleep
  <2>1. StateTypes'
    BY <1>0, <1>1, NotedType, SavedTypes DEF MaybeAutoPushOnSleep, StateTypes, RestTypes
  <2>2. wasTurn' \in BOOLEAN /\ stash' \in {None} \cup Pages
    BY <1>0, <1>1 DEF MaybeAutoPushOnSleep, RestTypes
  <2> QED
    BY <1>0, <1>1, <2>1, <2>2, TypePartsNext
    DEF MaybeAutoPushOnSleep, RestTypes, SlotTypes, serverVars, slotVars, readerVars, pullVars
<1>2. CASE ReleaseAutoSyncSlot
  <2>1. SlotTypes' /\ StateTypes'
    BY <1>0, <1>2, FinalizeTypes, ConsumeTypes DEF ReleaseAutoSyncSlot, SlotTypes, StateTypes, slotVars
  <2> QED
    BY <1>0, <1>2, <2>1, TypePartsNext DEF ReleaseAutoSyncSlot, RestTypes, serverVars, readerVars, sleepVars
<1> QED
  BY <1>1, <1>2

LEMMA SleepTypes ==
  ASSUME AutoTypeOK, PushStashed \/ RetryStashed \/ JoinStashed PROVE AutoTypeOK'
<1>0. SlotTypes /\ StateTypes /\ RestTypes /\ 0 \in 0..MaxPosts /\ 1..MaxPosts \subseteq 0..MaxPosts
  BY TypeParts, Sizes
<1>1. CASE PushStashed
  <2>1. SlotTypes' /\ sleepSeq' \in 0..MaxPosts /\ stash' \in {None} \cup Pages
    BY <1>0, <1>1, PostTypes DEF PushStashed, RestTypes, slotVars, SlotTypes
  <2> QED
    BY <1>0, <1>1, <2>1, TypePartsNext
    DEF PushStashed, RestTypes, StateTypes, serverVars, readerVars, pullVars, stateVars
<1>2. CASE RetryStashed
  <2>1. SlotTypes' /\ StateTypes' /\ sleepSeq' \in 0..MaxPosts
    BY <1>0, <1>2, PostTypes, FailedTypes DEF RetryStashed, RestTypes, slotVars, SlotTypes, StateTypes
  <2> QED
    BY <1>0, <1>2, <2>1, TypePartsNext DEF RetryStashed, RestTypes, serverVars, readerVars, pullVars
<1>3. CASE JoinStashed
  <2>1. SlotTypes' /\ StateTypes'
    BY <1>0, <1>3, FinalizeTypes, FailedTypes DEF JoinStashed, slotVars, SlotTypes, StateTypes
  <2> QED
    BY <1>0, <1>3, <2>1, TypePartsNext DEF JoinStashed, RestTypes, serverVars, readerVars, pullVars, sleepVars
<1> QED
  BY <1>1, <1>2, <1>3

LEMMA OpenTypes == ASSUME AutoTypeOK, Reopen \/ Wake \/ Reset PROVE AutoTypeOK'
<1>0. SlotTypes /\ StateTypes /\ RestTypes /\ 0 \in 0..MaxPosts
  BY TypeParts, Sizes
<1>1. CASE Reopen
  <2>1. StateTypes'
    BY <1>0, <1>1 DEF Reopen, StateTypes, States, RestTypes
  <2> QED
    BY <1>0, <1>1, <2>1, TypePartsNext DEF Reopen, OpenReader, RestTypes, SlotTypes, serverVars, slotVars
<1>2. ASSUME NEW resume \in BOOLEAN, UNCHANGED <<card, page>>, Boot(resume), boots < MaxBoots, boots' = boots + 1,
             UNCHANGED <<server, theirs, method, crossed>>
      PROVE  AutoTypeOK'
  <2>1. card' \in States /\ page' \in Pages /\ boots' \in 0..MaxBoots
    BY <1>0, <1>2, Sizes DEF StateTypes, RestTypes
  <2> QED
    BY <1>0, <1>2, <2>1, BootTypes, TypePartsNext DEF RestTypes
<1> QED
  BY <1>1, <1>2 DEF Wake, Reset

\* What the sync screens leave on the card.
LEMMA ScreenStates ==
  ASSUME StateTypes, NEW p \in Pages
  PROVE  Kept(MarkSynced(state, p)) \in States /\ Kept([state EXCEPT !.failed = TRUE]) \in States
<1>1. 0 \in 0..Interval
  BY Sizes
<1>2. MarkSynced(state, p) \in States /\ [state EXCEPT !.failed = TRUE] \in States
  BY <1>1 DEF StateTypes, MarkSynced, States
<1> QED
  BY <1>2 DEF Kept, States

LEMMA ScreenTypes == ASSUME AutoTypeOK, CompareScreen \/ AutoPushScreen PROVE AutoTypeOK'
<1>0. SlotTypes /\ StateTypes /\ RestTypes
  BY TypeParts
<1>1. /\ Boot(FALSE) /\ UNCHANGED crossed /\ method' \in Ids /\ boots' \in 0..MaxBoots
  <2>1. Boot(FALSE) /\ UNCHANGED crossed /\ method' \in ScreenMethods /\ boots < MaxBoots /\ boots' = boots + 1
    BY DEF CompareScreen, AutoPushScreen
  <2>2. method' \in Ids
    BY <1>0, <2>1 DEF ScreenMethods, RestTypes
  <2>3. boots' \in 0..MaxBoots
    BY <1>0, <2>1, Sizes DEF RestTypes
  <2> QED
    BY <2>1, <2>2, <2>3, Zenon
<1>2. /\ page' \in Pages /\ server' \in [Ids -> {None} \cup Pages] /\ theirs' \subseteq Ids
  <2>1. server[method'] \in {None} \cup Pages
    BY <1>0, <1>1 DEF RestTypes
  <2>2. page' = page \/ (page' = server[method'] /\ server[method'] # None)
    BY DEF CompareScreen, AutoPushScreen
  <2>3. UNCHANGED server \/ server' = [server EXCEPT ![method'] = page]
    BY DEF CompareScreen, AutoPushScreen
  <2>4. theirs' = theirs \ {method'} \/ theirs' = theirs \cup ({method'} \ {method})
    BY DEF CompareScreen, AutoPushScreen
  <2> QED
    BY <1>0, <1>1, <2>1, <2>2, <2>3, <2>4 DEF RestTypes
<1>3. card' \in States
  BY <1>0, <1>2, ScreenStates DEF CompareScreen, AutoPushScreen, RestTypes, StateTypes
<1> QED
  BY <1>0, <1>1, <1>2, <1>3, BootTypes, TypePartsNext DEF RestTypes

LEMMA StutterTypes == ASSUME AutoTypeOK, UNCHANGED vars PROVE AutoTypeOK'
<1>1. SlotTypes /\ StateTypes /\ RestTypes
  BY TypeParts
<1> QED
  BY <1>1, TypePartsNext DEF vars, serverVars, slotVars, readerVars, pullVars, stateVars, sleepVars, SlotTypes,
       StateTypes, RestTypes

LEMMA TypesStep == ASSUME AutoTypeOK, [Next]_vars PROVE AutoTypeOK'
BY ElsewhereTypes, PullTypes, PollPullTypes, LoopTypes, ReaderTypes, LeaveTypes, SleepTypes, OpenTypes, ScreenTypes,
   StutterTypes DEF Next

\* Every variable keeps its type: the pages, the numbers of the jobs and the counts of
\* the automatic sync (EpubReaderAutoSync.cpp) stay within what they range over.
THEOREM AutoTypes == Spec => []AutoTypeOK
<1>1. Init => AutoTypeOK
  BY InitTypes
<1>2. AutoTypeOK /\ [Next]_vars => AutoTypeOK'
  BY TypesStep
<1> QED
  BY <1>1, <1>2, PTL DEF Spec

----------------------------------------------------------------------------
(* What sleep accounts for.  The page slept on is followed from its note   *)
(* through the stash and the slot to the card.                             *)

\* What the card keeps of the outcome is what the RAM has.
SameOutcome ==
  state.failed = card.failed /\ state.lastPushed = card.lastPushed /\ state.pending = card.pending

\* The numbers given out so far, none of them to be given out again.
Numbered ==
  /\ pushSeq < nextSeq /\ pullSeq < nextSeq /\ sleepSeq < nextSeq /\ slot.seq < nextSeq
  /\ leaving \in DOMAIN After

\* The slot holds the reader's own push.
OwnPush == slotAt # "free" /\ slot.kind = "push" /\ pushSeq # 0 /\ slot.seq = pushSeq

\* A push that crossed nothing sends a page that is noted as pending or as sent, and
\* no pull is under way beside it.
PushNoted ==
  OwnPush /\ crossed \subseteq {"sleep"}
    => (state.pending \/ slot.page = state.lastPushed) /\ pullSeq = 0 /\ pullJob = {}

Reading == section /\ ~linkOpen /\ ~unsent /\ crossed \subseteq {"sleep"}
StashedOrSent == stash = page \/ (stash = None /\ state.lastPushed = page)

AtRelease ==
  at = "release" /\ leaving = "sleep" /\ Reading => StashedOrSent /\ (stash = page \/ ~state.pending)
AtSleepPost == at = "sleepPost" /\ Reading => StashedOrSent
AtJoin ==
  at = "join" /\ Reading
    => \/ sleepSeq = 0 /\ StashedOrSent
       \/ /\ sleepSeq # 0 /\ slotAt # "free" /\ slot.kind = "push" /\ slot.seq = sleepSeq
          /\ slot.page = page /\ stash = None

SleepInv ==
  /\ AutoTypeOK /\ SameOutcome /\ Numbered /\ PushNoted
  /\ AtRelease /\ AtSleepPost /\ AtJoin /\ SleepAccounts

\* What each change of the state does to the outcome it records.
LEMMA SavedOutcome ==
  ASSUME NEW s \in States, Saved(s)
  PROVE  SameOutcome' /\ state' = s /\ card'.failed = s.failed /\ card'.lastPushed = s.lastPushed
BY DEF Saved, Kept, States, SameOutcome

LEMMA SyncedOutcome ==
  ASSUME StateTypes, NEW p \in {None} \cup Pages, Saved(MarkSynced(state, p))
  PROVE  SameOutcome' /\ state'.pending = FALSE /\ state'.lastPushed = p /\ card'.lastPushed = p
<1>1. 0 \in 0..Interval
  BY Sizes
<1>2. /\ MarkSynced(state, p) \in States
      /\ MarkSynced(state, p).pending = FALSE /\ MarkSynced(state, p).lastPushed = p
  BY <1>1 DEF MarkSynced, StateTypes, States
<1> QED
  BY <1>2, SavedOutcome

LEMMA FailedOutcome ==
  ASSUME StateTypes, SameOutcome, MarkSyncFailed
  PROVE  SameOutcome' /\ card'.failed /\ state'.pending = state.pending /\ state'.lastPushed = state.lastPushed
<1>1. /\ [state EXCEPT !.failed = TRUE] \in States
      /\ [state EXCEPT !.failed = TRUE].failed = TRUE
      /\ [state EXCEPT !.failed = TRUE].pending = state.pending
      /\ [state EXCEPT !.failed = TRUE].lastPushed = state.lastPushed
  BY DEF StateTypes, States
<1>2. CASE state.failed
  BY <1>2 DEF MarkSyncFailed, SameOutcome
<1>3. CASE ~state.failed
  <2>1. Saved([state EXCEPT !.failed = TRUE])
    BY <1>3 DEF MarkSyncFailed
  <2> QED
    BY <1>1, <2>1, SavedOutcome
<1> QED
  BY <1>2, <1>3

LEMMA NotedOutcome ==
  ASSUME StateTypes, NEW p \in Pages
  PROVE  /\ Noted(p).failed = state.failed /\ Noted(p).lastPushed = state.lastPushed
         /\ (Noted(p).pending <=> state.pending \/ p # state.lastPushed)
<1> DEFINE counted == IF p # state.lastSeen /\ state.turnsSince < Interval THEN state.turnsSince + 1
                      ELSE state.turnsSince
<1>1. Noted(p) = [state EXCEPT !.lastSeen = p, !.turnsSince = counted,
                               !.pending = state.pending \/ p # state.lastPushed]
  BY DEF Noted
<1> HIDE DEF counted
<1> QED
  BY <1>1 DEF StateTypes, States

LEMMA FinalizeOutcome ==
  ASSUME SlotTypes, StateTypes, SameOutcome, NEW seq, Finalize(seq)
  PROVE  /\ SameOutcome'
         /\ (slotAt' = "free" /\ slot' = NoJob /\ nextSeq' = nextSeq) \/ UNCHANGED slotVars
         /\ IF slotAt = "done" /\ slot.seq = seq /\ slot.kind = "push"
            THEN \/ card'.failed /\ state'.pending = state.pending /\ state'.lastPushed = state.lastPushed
                 \/ state'.pending = FALSE /\ state'.lastPushed = slot.page /\ card'.lastPushed = slot.page
            ELSE UNCHANGED <<state, card>>
<1>1. (slotAt' = "free" /\ slot' = NoJob /\ nextSeq' = nextSeq) \/ UNCHANGED slotVars
  BY DEF Finalize, Consume
<1>2. CASE slotAt = "done" /\ slot.seq = seq /\ slot.kind = "push"
  <2>1. Consumed(seq) = slot /\ slot.page \in {None} \cup Pages
    BY <1>2 DEF Consumed, SlotTypes, Jobs
  <2>2. MarkSyncFailed \/ Saved(MarkSynced(state, slot.page))
    BY <1>2, <2>1 DEF Finalize
  <2> QED
    BY <1>1, <1>2, <2>1, <2>2, FailedOutcome, SyncedOutcome
<1>3. CASE ~(slotAt = "done" /\ slot.seq = seq /\ slot.kind = "push")
  <2>1. Consumed(seq).kind # "push"
    BY <1>3 DEF Consumed, LostJob, NoJob
  <2>2. UNCHANGED <<state, card>>
    BY <2>1 DEF Finalize
  <2> QED
    BY <1>1, <1>3, <2>2 DEF SameOutcome
<1> QED
  BY <1>2, <1>3

LEMMA OutcomeStep == ASSUME SleepInv, [Next]_vars PROVE SameOutcome'
<1>0. SlotTypes /\ StateTypes /\ RestTypes /\ SameOutcome
  BY TypeParts DEF SleepInv
<1>1. ASSUME UNCHANGED <<state, card>> PROVE SameOutcome'
  BY <1>0, <1>1 DEF SameOutcome
<1>2. CASE PollAutoSyncPull
  <2>1. ASSUME NEW job \in pullJob, Evaluate(job) PROVE SameOutcome'
    <3>1. job \in Jobs
      BY <1>0 DEF RestTypes
    <3>2. Answer(job) \in {None} \cup Pages /\ LocalPage \in {None} \cup Pages
      BY <1>0, <3>1 DEF Answer, Jobs, RestTypes, LocalPage
    <3>3. \/ UNCHANGED <<state, card>> \/ MarkSyncFailed \/ Saved(MarkSynced(state, LocalPage))
          \/ \E mapped \in Pages : Saved(MarkSynced(state, mapped))
      BY <2>1 DEF Evaluate, SilentApplyRemote
    <3> QED
      BY <1>0, <1>1, <3>2, <3>3, FailedOutcome, SyncedOutcome
  <2> QED
    BY <1>1, <1>2, <2>1 DEF PollAutoSyncPull
<1>3. CASE PollAutoSyncJob \/ ReleaseAutoSyncSlot
  BY <1>0, <1>1, <1>3, FinalizeOutcome DEF PollAutoSyncJob, ReleaseAutoSyncSlot
<1>4. CASE NotePage
  <2>1. /\ Noted(page) \in States
        /\ Noted(page).failed = state.failed /\ Noted(page).lastPushed = state.lastPushed
        /\ state.pending => Noted(page).pending
    BY <1>0, NotedType, NotedOutcome DEF RestTypes
  <2>2. CASE NoteProgress(page)
    <3>1. /\ Kept(Noted(page)).failed = state.failed /\ Kept(Noted(page)).lastPushed = state.lastPushed
          /\ Kept(Noted(page)).pending = Noted(page).pending
      BY <2>1 DEF Kept, States
    <3>2. state.pending \in BOOLEAN /\ Noted(page).pending \in BOOLEAN
      BY <1>0, <2>1 DEF StateTypes, States
    <3> QED
      BY <1>0, <2>1, <2>2, <3>1, <3>2 DEF NoteProgress, SameOutcome
  <2> QED
    BY <1>1, <1>4, <2>2 DEF NotePage, stateVars
<1>5. CASE MaybeAutoPushOnSleep
  <2>1. Noted(page) \in States /\ state \in States
    BY <1>0, NotedType DEF RestTypes, StateTypes
  <2> QED
    BY <1>5, <2>1, SavedOutcome DEF MaybeAutoPushOnSleep
<1>6. CASE RetryStashed
  BY <1>0, <1>1, <1>6, FailedOutcome DEF RetryStashed
<1>7. CASE JoinStashed
  BY <1>0, <1>1, <1>7, FailedOutcome, FinalizeOutcome DEF JoinStashed
<1>8. CASE Reopen
  <2>1. /\ [state EXCEPT !.lastSeen = page].failed = state.failed
        /\ [state EXCEPT !.lastSeen = page].lastPushed = state.lastPushed
        /\ [state EXCEPT !.lastSeen = page].pending = state.pending
    BY <1>0 DEF StateTypes, States
  <2> QED
    BY <1>0, <1>8, <2>1 DEF Reopen, SameOutcome
<1>9. CASE Wake \/ Reset \/ CompareScreen \/ AutoPushScreen
  <2>1. card' \in States
    BY <1>9, TypesStep, TypePartsNext DEF SleepInv, StateTypes
  <2>2. state' = [card' EXCEPT !.lastSeen = page']
    BY <1>9 DEF Wake, Reset, CompareScreen, AutoPushScreen, Boot
  <2> QED
    BY <2>1, <2>2 DEF SameOutcome, States
<1>10. CASE \/ Elsewhere \/ MaybeAutoPullOnWake \/ CollectPull \/ MaybeAutoPushInterval
            \/ TurnPage \/ RenderPass \/ (\E why \in DOMAIN After : Exit(why)) \/ PushStashed \/ UNCHANGED vars
  BY <1>1, <1>10 DEF Elsewhere, MaybeAutoPullOnWake, CollectPull, MaybeAutoPushInterval, TurnPage, RenderPass,
       Exit, PushStashed, vars, stateVars
<1> QED
  BY <1>2, <1>3, <1>4, <1>5, <1>6, <1>7, <1>8, <1>9, <1>10 DEF Next

\* What each step does to the slot.
SlotFreed == slotAt' = "free" /\ slot' = NoJob /\ nextSeq' = nextSeq
SlotKept ==
  /\ slot'.seq = slot.seq /\ slot'.kind = slot.kind /\ slot'.page = slot.page
  /\ (slotAt' = "free" <=> slotAt = "free") /\ nextSeq' = nextSeq

LEMMA PostSlot ==
  ASSUME SlotTypes, NEW kind, NEW id, NEW p, Post(kind, id, p)
  PROVE  /\ slotAt' # "free" /\ slot'.kind = kind /\ slot'.page = p /\ slot'.seq = nextSeq
         /\ nextSeq \in Nat \ {0} /\ nextSeq' = nextSeq + 1
<1>1. nextSeq \in Nat \ {0} /\ nextSeq' = nextSeq + 1
  BY Sizes DEF SlotTypes, Post
<1> QED
  BY <1>1 DEF Post, NoJob

LEMMA ElsewhereSlot == ASSUME SlotTypes, Elsewhere PROVE SlotKept
BY DEF Elsewhere, Fetch, Store, Unreachable, Finish, OtherDevice, SlotKept, SlotTypes, Jobs, slotVars

LEMMA NumberedStep == ASSUME SleepInv, [Next]_vars PROVE Numbered'
<1>0. /\ SlotTypes /\ StateTypes /\ RestTypes /\ SameOutcome /\ Numbered
      /\ nextSeq \in Nat \ {0} /\ pushSeq \in Nat /\ pullSeq \in Nat /\ sleepSeq \in Nat /\ slot.seq \in Nat
  <2>1. SlotTypes /\ StateTypes /\ RestTypes /\ SameOutcome /\ Numbered
    BY TypeParts DEF SleepInv
  <2> QED
    BY <2>1, Sizes DEF SlotTypes, RestTypes, Jobs
<1>1. ASSUME SlotKept \/ SlotFreed \/ UNCHANGED slotVars, pushSeq' \in {0, pushSeq}, pullSeq' \in {0, pullSeq},
             sleepSeq' \in {0, sleepSeq}, leaving' \in DOMAIN After
      PROVE  Numbered'
  <2>1. nextSeq' = nextSeq /\ slot'.seq \in {0, slot.seq}
    BY <1>1 DEF SlotKept, SlotFreed, NoJob, slotVars
  <2> QED
    BY <1>0, <1>1, <2>1 DEF Numbered
<1>2. ASSUME NEW kind, NEW id, NEW p, Post(kind, id, p), pushSeq' \in {0, nextSeq, pushSeq}, pullSeq' \in {0, nextSeq, pullSeq},
             sleepSeq' \in {0, nextSeq, sleepSeq}, UNCHANGED leaving
      PROVE  Numbered'
  BY <1>0, <1>2, PostSlot DEF Numbered
<1>3. ASSUME NEW id, NEW p, PushSilentAsync(id, p), UNCHANGED <<pullSeq, sleepSeq, leaving>> PROVE Numbered'
  BY <1>0, <1>1, <1>2, <1>3 DEF PushSilentAsync, Numbered
<1>4. leaving \in DOMAIN After /\ "close" \in DOMAIN After
  BY <1>0 DEF Numbered, After
<1>5. CASE Elsewhere
  BY <1>1, <1>4, <1>5, <1>0, ElsewhereSlot DEF Elsewhere, pullVars, sleepVars
<1>6. CASE MaybeAutoPullOnWake
  BY <1>2, <1>6 DEF MaybeAutoPullOnWake, sleepVars
<1>7. CASE CollectPull
  BY <1>1, <1>4, <1>7 DEF CollectPull, Consume, SlotFreed, sleepVars
<1>8. CASE PollAutoSyncPull
  <2>1. UNCHANGED <<pullSeq, sleepSeq, leaving>>
    BY <1>8 DEF PollAutoSyncPull, sleepVars
  <2>2. UNCHANGED <<pushSeq, slotVars>> \/ \E id : PushSilentAsync(id, page)
    BY <1>8 DEF PollAutoSyncPull, Evaluate, SilentUpload
  <2> QED
    BY <1>1, <1>3, <1>4, <2>1, <2>2
<1>9. CASE PollAutoSyncJob
  BY <1>0, <1>1, <1>4, <1>9, FinalizeOutcome DEF PollAutoSyncJob, SlotFreed, pullVars, sleepVars
<1>10. CASE NotePage \/ TurnPage \/ RenderPass \/ MaybeAutoPushOnSleep \/ UNCHANGED vars
  BY <1>1, <1>4, <1>10 DEF NotePage, TurnPage, RenderPass, MaybeAutoPushOnSleep, vars, pullVars, sleepVars
<1>11. CASE MaybeAutoPushInterval
  BY <1>1, <1>3, <1>4, <1>11 DEF MaybeAutoPushInterval, pullVars, sleepVars
<1>12. ASSUME NEW why \in DOMAIN After, Exit(why) PROVE Numbered'
  BY <1>1, <1>12 DEF Exit, pullVars
<1>13. CASE ReleaseAutoSyncSlot
  BY <1>0, <1>1, <1>4, <1>13, FinalizeOutcome DEF ReleaseAutoSyncSlot, Consume, SlotFreed, sleepVars
<1>14. CASE PushStashed \/ RetryStashed
  BY <1>1, <1>2, <1>4, <1>14 DEF PushStashed, RetryStashed, pullVars
<1>15. CASE JoinStashed
  BY <1>0, <1>1, <1>4, <1>15, FinalizeOutcome DEF JoinStashed, SlotFreed, pullVars, sleepVars
<1>16. CASE Reopen
  BY <1>1, <1>4, <1>16 DEF Reopen, OpenReader
<1>17. CASE Wake \/ Reset \/ CompareScreen \/ AutoPushScreen
  BY <1>1, <1>4, <1>17 DEF Wake, Reset, CompareScreen, AutoPushScreen, Boot, OpenReader, SlotFreed
<1> QED
  BY <1>5, <1>6, <1>7, <1>8, <1>9, <1>10, <1>11, <1>12, <1>13, <1>14, <1>15, <1>16, <1>17 DEF Next

LEMMA PushNotedStep == ASSUME SleepInv, [Next]_vars PROVE PushNoted'
<1>0. /\ SlotTypes /\ StateTypes /\ RestTypes /\ SameOutcome /\ Numbered /\ PushNoted
      /\ nextSeq \in Nat \ {0} /\ pushSeq \in Nat
  <2>1. SlotTypes /\ StateTypes /\ RestTypes /\ SameOutcome /\ Numbered /\ PushNoted
    BY TypeParts DEF SleepInv
  <2> QED
    BY <2>1, Sizes DEF SlotTypes, RestTypes
<1> DEFINE SameState == (state.pending => state'.pending) /\ state'.lastPushed = state.lastPushed
<1>1. ASSUME slotAt' = "free" \/ pushSeq' = 0 PROVE PushNoted'
  BY <1>1 DEF PushNoted, OwnPush
<1>2. ASSUME SlotKept \/ UNCHANGED slotVars, pushSeq' = pushSeq, crossed' = crossed, SameState,
             UNCHANGED <<pullSeq, pullJob>>
      PROVE  PushNoted'
  <2>1. /\ slot'.seq = slot.seq /\ slot'.kind = slot.kind /\ slot'.page = slot.page
        /\ (slotAt' = "free" <=> slotAt = "free")
    BY <1>2 DEF SlotKept, slotVars
  <2> QED
    BY <1>0, <1>2, <2>1 DEF PushNoted, OwnPush
<1>3. ASSUME NEW id, NEW p, PushSilentAsync(id, p), UNCHANGED <<state, pullSeq>> PROVE PushNoted'
  <2>1. CASE /\ Post("push", id, p) /\ pushSeq' = nextSeq
             /\ crossed' = crossed \cup (IF pullSeq # 0 \/ pullJob' # {} THEN {"pull"} ELSE {})
                            \cup (IF ~state.pending /\ p # state.lastPushed THEN {"note"} ELSE {})
    <3>1. slot'.page = p
      BY <1>0, <2>1, PostSlot
    <3>2. crossed' \subseteq {"sleep"}
            => (state.pending \/ p = state.lastPushed) /\ pullSeq = 0 /\ pullJob' = {}
      BY <2>1
    <3> QED
      BY <1>3, <3>1, <3>2 DEF PushNoted
  <2> QED
    BY <1>1, <1>3, <2>1 DEF PushSilentAsync
<1>4. CASE Elsewhere
  <2>1. crossed' = crossed /\ UNCHANGED <<state, pushSeq, pullSeq, pullJob>>
    BY <1>4 DEF Elsewhere, Fetch, Store, Unreachable, Finish, OtherDevice, stateVars, pullVars
  <2> QED
    BY <1>0, <1>2, <1>4, <2>1, ElsewhereSlot
<1>5. CASE MaybeAutoPullOnWake
  BY <1>0, <1>5, PostSlot DEF MaybeAutoPullOnWake, PushNoted, OwnPush
<1>6. CASE CollectPull
  <2>1. CASE pullSeq # 0 /\ IsDone(pullSeq)
    <3>1. UNCHANGED <<pushSeq, crossed>> /\ (slotAt' = "free" \/ UNCHANGED slotVars)
      BY <1>6, <2>1 DEF CollectPull, Consume
    <3> QED
      BY <1>0, <1>1, <2>1, <3>1 DEF PushNoted, OwnPush, slotVars
  <2>2. CASE ~(pullSeq # 0 /\ IsDone(pullSeq))
    BY <1>2, <1>6, <2>2 DEF CollectPull, stateVars
  <2> QED
    BY <2>1, <2>2
<1>7. CASE PollAutoSyncPull
  <2>1. ASSUME NEW job \in pullJob, Evaluate(job), UNCHANGED <<pushSeq, slotVars, crossed>> PROVE PushNoted'
    BY <1>0, <2>1 DEF PushNoted, OwnPush, slotVars
  <2>2. ASSUME NEW job \in pullJob, Evaluate(job), ~UNCHANGED <<pushSeq, slotVars, crossed>> PROVE PushNoted'
    BY <1>3, <1>7, <2>2 DEF Evaluate, SilentUpload, PollAutoSyncPull
  <2>3. CASE UNCHANGED <<pullJob, readerVars, state, card, pushSeq, slotVars, method, crossed, theirs>>
    BY <1>2, <1>7, <2>3 DEF PollAutoSyncPull
  <2> QED
    BY <1>7, <2>1, <2>2, <2>3 DEF PollAutoSyncPull
<1>8. CASE PollAutoSyncJob
  BY <1>1, <1>2, <1>8 DEF PollAutoSyncJob, pullVars
<1>9. CASE NotePage \/ MaybeAutoPushOnSleep
  <2>1. SameState
    BY <1>0, <1>9, NotedOutcome DEF NotePage, NoteProgress, MaybeAutoPushOnSleep, Saved, stateVars, RestTypes
  <2> QED
    BY <1>2, <1>9, <2>1 DEF NotePage, MaybeAutoPushOnSleep, pullVars
<1>10. CASE MaybeAutoPushInterval
  BY <1>2, <1>3, <1>10 DEF MaybeAutoPushInterval, pullVars, stateVars
<1>11. CASE TurnPage \/ RenderPass \/ (\E why \in DOMAIN After : Exit(why)) \/ UNCHANGED vars
  BY <1>2, <1>11 DEF TurnPage, RenderPass, Exit, vars, pullVars, stateVars
<1>12. CASE ReleaseAutoSyncSlot \/ Reopen \/ Wake \/ Reset \/ CompareScreen \/ AutoPushScreen
  BY <1>1, <1>12 DEF ReleaseAutoSyncSlot, Reopen, Wake, Reset, CompareScreen, AutoPushScreen, Boot, OpenReader
<1>13. CASE PushStashed \/ RetryStashed
  <2>1. UNCHANGED <<pushSeq, crossed, pullSeq, pullJob>>
    BY <1>13 DEF PushStashed, RetryStashed, pullVars
  <2>2. CASE Post("push", method, stash)
    BY <1>0, <2>1, <2>2, PostSlot DEF PushNoted, OwnPush, Numbered
  <2>3. CASE UNCHANGED slotVars /\ (UNCHANGED state \/ MarkSyncFailed)
    BY <1>0, <1>2, <2>1, <2>3, FailedOutcome
  <2> QED
    BY <1>13, <2>2, <2>3 DEF PushStashed, RetryStashed, stateVars
<1>14. CASE JoinStashed
  <2>1. UNCHANGED <<pushSeq, crossed, pullSeq, pullJob>>
    BY <1>14 DEF JoinStashed, pullVars
  <2>2. CASE UNCHANGED slotVars /\ (UNCHANGED state \/ MarkSyncFailed)
    BY <1>0, <1>2, <2>1, <2>2, FailedOutcome
  <2>3. CASE Finalize(sleepSeq)
    <3>1. CASE slotAt = "done" /\ slot.seq = sleepSeq
      BY <1>1, <2>3, <3>1 DEF Finalize, Consume
    <3>2. CASE ~(slotAt = "done" /\ slot.seq = sleepSeq)
      BY <1>0, <2>2, <2>3, <3>2, FinalizeOutcome DEF Finalize, Consume
    <3> QED
      BY <3>1, <3>2
  <2> QED
    BY <1>14, <2>2, <2>3 DEF JoinStashed
<1> QED
  BY <1>4, <1>5, <1>6, <1>7, <1>8, <1>9, <1>10, <1>11, <1>12, <1>13, <1>14 DEF Next

\* From the note on, the page, the section and the stash are the loop task's alone.
SlotMovesOnly ==
  /\ slot'.seq = slot.seq /\ slot'.kind = slot.kind /\ slot'.page = slot.page
  /\ (slotAt' = "free" <=> slotAt = "free")
  /\ UNCHANGED <<page, section, linkOpen, pullSeq, pullJob, state, card, stash, sleepSeq, leaving,
                 unsent, at, crossed>>

Stages == {"release", "sleepPost", "join", "asleep"}

LEMMA StageSteps ==
  ASSUME SleepInv, [Next]_vars, at' \in Stages
  PROVE  \/ SlotMovesOnly \/ MaybeAutoPushOnSleep \/ ReleaseAutoSyncSlot
         \/ PushStashed \/ RetryStashed \/ JoinStashed
<1>0. SlotTypes
  BY TypeParts DEF SleepInv
<1>1. CASE Elsewhere
  <2>1. crossed' = crossed
    BY <1>1 DEF Elsewhere, Fetch, Store, Unreachable, Finish, OtherDevice
  <2>2. UNCHANGED <<page, section, linkOpen, pullSeq, pullJob, state, card, stash, sleepSeq, leaving, unsent,
                  at>>
    BY <1>1 DEF Elsewhere, readerVars, pullVars, stateVars, sleepVars
  <2> QED
    BY <1>0, <1>1, <2>1, <2>2, ElsewhereSlot DEF SlotMovesOnly, SlotKept
<1>2. CASE UNCHANGED vars
  BY <1>2 DEF vars, slotVars, readerVars, pullVars, stateVars, sleepVars, SlotMovesOnly
<1>3. ~(MaybeAutoPullOnWake \/ CollectPull \/ PollAutoSyncPull \/ PollAutoSyncJob \/ NotePage \/ MaybeAutoPushInterval)
  BY DEF Stages, MaybeAutoPullOnWake, CollectPull, PollAutoSyncPull, Evaluate, PollAutoSyncJob, NotePage,
    MaybeAutoPushInterval
<1>4. ~(TurnPage \/ RenderPass \/ \E why \in DOMAIN After : Exit(why))
  BY DEF Stages, TurnPage, RenderPass, Exit
<1>5. ~(Reopen \/ Wake \/ Reset \/ CompareScreen \/ AutoPushScreen)
  BY DEF Stages, Reopen, Wake, Reset, CompareScreen, AutoPushScreen, Boot, OpenReader
<1> QED
  BY <1>1, <1>2, <1>3, <1>4, <1>5 DEF Next

LEMMA AtReleaseStep == ASSUME SleepInv, [Next]_vars PROVE AtRelease'
<1> SUFFICES ASSUME at' = "release", leaving' = "sleep", Reading'
             PROVE  StashedOrSent' /\ (stash' = page' \/ ~state'.pending)
  BY DEF AtRelease
<1>0. /\ SlotTypes /\ StateTypes /\ RestTypes /\ SameOutcome /\ PushNoted /\ AtRelease
      /\ page \in Pages /\ page # None
  <2>1. SlotTypes /\ StateTypes /\ RestTypes /\ SameOutcome /\ PushNoted /\ AtRelease
    BY TypeParts DEF SleepInv
  <2> QED
    BY <2>1 DEF RestTypes, Pages
<1>1. CASE SlotMovesOnly
  BY <1>0, <1>1 DEF SlotMovesOnly, AtRelease, StashedOrSent, Reading
<1>2. CASE MaybeAutoPushOnSleep
  <2>1. UNCHANGED <<page, section, linkOpen, leaving>> /\ section /\ ~linkOpen /\ state' = Noted(page)
    BY <1>2 DEF MaybeAutoPushOnSleep, readerVars, Reading, Saved
  <2>2. stash' = IF Noted(page).pending THEN page ELSE None
    BY <1>2, <2>1 DEF MaybeAutoPushOnSleep, Reading
  <2> QED
    BY <1>0, <2>1, <2>2, NotedOutcome DEF StashedOrSent
<1>3. CASE ReleaseAutoSyncSlot
  <2>1. /\ at = "release" /\ pushSeq # 0 /\ Finalize(pushSeq) /\ crossed \subseteq crossed'
        /\ UNCHANGED <<page, section, linkOpen, unsent, stash, leaving>>
    BY <1>3 DEF ReleaseAutoSyncSlot, After, readerVars, sleepVars
  <2>2. Reading /\ leaving = "sleep" /\ StashedOrSent /\ (stash = page \/ ~state.pending)
    BY <1>0, <2>1 DEF AtRelease, Reading
  <2>3. CASE stash = page
    BY <2>1, <2>3 DEF StashedOrSent
  <2>4. CASE stash # page
    <3>1. stash = None /\ state.lastPushed = page /\ ~state.pending
      BY <2>2, <2>4 DEF StashedOrSent
    <3>2. CASE slotAt = "done" /\ slot.seq = pushSeq /\ slot.kind = "push"
      <4>1. slot.page = page
        BY <1>0, <2>1, <2>2, <3>1, <3>2 DEF PushNoted, OwnPush, Reading
      <4> QED
        BY <1>0, <2>1, <3>1, <3>2, <4>1, FinalizeOutcome DEF StashedOrSent
    <3>3. CASE ~(slotAt = "done" /\ slot.seq = pushSeq /\ slot.kind = "push")
      BY <1>0, <2>1, <3>1, <3>3, FinalizeOutcome DEF StashedOrSent
    <3> QED
      BY <3>2, <3>3
  <2> QED
    BY <2>3, <2>4
<1> QED
  BY <1>1, <1>2, <1>3, StageSteps DEF Stages, PushStashed, RetryStashed, JoinStashed

LEMMA AtSleepPostStep == ASSUME SleepInv, [Next]_vars PROVE AtSleepPost'
<1> SUFFICES ASSUME at' = "sleepPost", Reading' PROVE StashedOrSent'
  BY DEF AtSleepPost
<1>0. AtRelease /\ AtSleepPost /\ leaving \in {"sleep", "push", "close"}
  BY DEF SleepInv, Numbered, After
<1>1. CASE SlotMovesOnly
  BY <1>0, <1>1 DEF SlotMovesOnly, AtSleepPost, StashedOrSent, Reading
<1>2. CASE ReleaseAutoSyncSlot
  <2>1. at = "release" /\ pushSeq = 0 /\ UNCHANGED <<page, section, linkOpen, unsent, stash, leaving>>
    BY <1>2 DEF ReleaseAutoSyncSlot, readerVars, sleepVars
  <2>2. leaving = "sleep"
    BY <1>0, <1>2, <2>1 DEF ReleaseAutoSyncSlot, After
  <2>3. UNCHANGED state /\ crossed \subseteq crossed'
    BY <1>2, <2>1 DEF ReleaseAutoSyncSlot
  <2> QED
    BY <1>0, <2>1, <2>2, <2>3 DEF AtRelease, Reading, StashedOrSent
<1> QED
  BY <1>1, <1>2, StageSteps DEF Stages, MaybeAutoPushOnSleep, PushStashed, RetryStashed, JoinStashed

LEMMA AtJoinStep == ASSUME SleepInv, [Next]_vars PROVE AtJoin'
<1> SUFFICES ASSUME at' = "join", Reading'
             PROVE  \/ sleepSeq' = 0 /\ StashedOrSent'
                    \/ /\ sleepSeq' # 0 /\ slotAt' # "free" /\ slot'.kind = "push" /\ slot'.seq = sleepSeq'
                       /\ slot'.page = page' /\ stash' = None
  BY DEF AtJoin
<1>0. SlotTypes /\ AtSleepPost /\ AtJoin
  BY TypeParts DEF SleepInv
<1>1. CASE SlotMovesOnly
  BY <1>0, <1>1 DEF SlotMovesOnly, AtJoin, StashedOrSent, Reading
<1>2. ASSUME Post("push", method, stash), sleepSeq' = nextSeq, stash' = None, stash # None, UNCHANGED page, StashedOrSent
      PROVE  /\ sleepSeq' # 0 /\ slotAt' # "free" /\ slot'.kind = "push" /\ slot'.seq = sleepSeq'
             /\ slot'.page = page' /\ stash' = None
  BY <1>0, <1>2, PostSlot DEF StashedOrSent
<1>3. CASE PushStashed
  <2>1. at = "sleepPost" /\ UNCHANGED <<page, section, linkOpen, unsent, state, crossed>>
    BY <1>3 DEF PushStashed, readerVars, stateVars
  <2>2. StashedOrSent
    BY <1>0, <2>1 DEF AtSleepPost, Reading
  <2>3. CASE sleepSeq' = 0 /\ UNCHANGED <<slotVars, stash>>
    BY <2>1, <2>2, <2>3 DEF StashedOrSent
  <2> QED
    BY <1>2, <1>3, <2>1, <2>2, <2>3 DEF PushStashed
<1>4. CASE RetryStashed
  <2>1. at = "join" /\ sleepSeq = 0 /\ UNCHANGED <<page, section, linkOpen, unsent, crossed>>
    BY <1>4 DEF RetryStashed, readerVars
  <2>2. StashedOrSent
    BY <1>0, <2>1 DEF AtJoin, Reading
  <2> QED
    BY <1>2, <1>4, <2>1, <2>2 DEF RetryStashed
<1>5. ~ReleaseAutoSyncSlot
  <2>1. leaving \in {"sleep", "push", "close"}
    BY DEF SleepInv, Numbered, After
  <2> QED
    BY <2>1 DEF ReleaseAutoSyncSlot, After
<1> QED
  BY <1>1, <1>3, <1>4, <1>5, StageSteps DEF Stages, MaybeAutoPushOnSleep, JoinStashed

LEMMA AsleepStep == ASSUME SleepInv, [Next]_vars PROVE SleepAccounts'
<1> SUFFICES ASSUME at' = "asleep", Reading' PROVE card'.lastPushed = page' \/ card'.failed
  BY DEF SleepAccounts, Reading
<1>0. SlotTypes /\ StateTypes /\ RestTypes /\ SameOutcome /\ AtJoin /\ SleepAccounts /\ page # None
  <2>1. SlotTypes /\ StateTypes /\ RestTypes /\ SameOutcome /\ AtJoin /\ SleepAccounts
    BY TypeParts DEF SleepInv
  <2> QED
    BY <2>1 DEF RestTypes, Pages
<1>1. CASE SlotMovesOnly
  BY <1>0, <1>1 DEF SlotMovesOnly, SleepAccounts, Reading
<1>2. CASE RetryStashed
  BY <1>0, <1>2, FailedOutcome DEF RetryStashed
<1>3. CASE JoinStashed
  <2>1. at = "join" /\ ~(sleepSeq = 0 /\ stash # None) /\ UNCHANGED <<page, section, linkOpen, unsent, crossed>>
    BY <1>3 DEF JoinStashed, readerVars, sleepVars
  <2>2. Reading
    BY <2>1 DEF Reading
  <2>3. CASE sleepSeq = 0
    <3>1. stash = None
      BY <2>1, <2>3
    <3>2. state.lastPushed = page
      BY <1>0, <2>1, <2>2, <2>3, <3>1 DEF AtJoin, StashedOrSent
    <3>3. UNCHANGED <<state, card>>
      BY <1>3, <2>3 DEF JoinStashed
    <3> QED
      BY <1>0, <2>1, <3>2, <3>3 DEF SameOutcome
  <2>4. CASE sleepSeq # 0
    <3>1. slotAt # "free" /\ slot.kind = "push" /\ slot.seq = sleepSeq /\ slot.page = page
      BY <1>0, <2>1, <2>2, <2>4 DEF AtJoin
    <3>2. CASE IsDone(sleepSeq) /\ Finalize(sleepSeq)
      <4>1. slotAt = "done"
        BY <1>0, <3>1, <3>2 DEF IsDone, Busy, SlotTypes
      <4> QED
        BY <1>0, <2>1, <3>1, <3>2, <4>1, FinalizeOutcome
    <3>3. CASE MarkSyncFailed
      BY <1>0, <3>3, FailedOutcome
    <3> QED
      BY <1>3, <2>4, <3>2, <3>3 DEF JoinStashed
  <2> QED
    BY <2>3, <2>4
<1>4. ~ReleaseAutoSyncSlot
  <2>1. leaving \in {"sleep", "push", "close"}
    BY DEF SleepInv, Numbered, After
  <2> QED
    BY <2>1 DEF ReleaseAutoSyncSlot, After
<1> QED
  BY <1>1, <1>2, <1>3, <1>4, StageSteps DEF Stages, MaybeAutoPushOnSleep, PushStashed

LEMMA InitSleep == ASSUME Init PROVE SleepInv
<1>1. SlotTypes /\ StateTypes /\ AutoTypeOK
  BY InitTypes, TypeParts
<1>2. SameOutcome
  BY DEF Init, SameOutcome
<1>3. Numbered
  BY DEF Init, Numbered, NoJob, After
<1> QED
  BY <1>1, <1>2, <1>3 DEF Init, SleepInv, PushNoted, OwnPush, AtRelease, AtSleepPost, AtJoin, SleepAccounts

LEMMA SleepStep == ASSUME SleepInv, [Next]_vars PROVE SleepInv'
<1>1. AutoTypeOK
  BY DEF SleepInv
<1> QED
  BY <1>1, TypesStep, OutcomeStep, NumberedStep, PushNotedStep, AtReleaseStep, AtSleepPostStep, AtJoinStep, AsleepStep
  DEF SleepInv

\* Whatever answers are late, lost or in the way while the reader closes for sleep, the
\* page slept on ends marked synced, or the sync marked failed: maybeAutoPushOnSleep(),
\* releaseAutoSyncSlot() and joinStashedSleepPush() (EpubReaderAutoSync.cpp,
\* KOReaderAutoSync.cpp) lose no push between them.
THEOREM SleepIsAccounted == Spec => []SleepAccounts
<1>1. Init => SleepInv
  BY InitSleep
<1>2. SleepInv /\ [Next]_vars => SleepInv'
  BY SleepStep
<1>3. SleepInv => SleepAccounts
  BY DEF SleepInv
<1> QED
  BY <1>1, <1>2, <1>3, PTL DEF Spec

----------------------------------------------------------------------------
(* What is settled is stored.  While nothing has crossed, an answer in the *)
(* slot or in hand is what the server holds, and so is what the state says *)
(* was sent.                                                               *)

PushInSlot == slotAt # "free" /\ slot.kind = "push"
FetchInSlot == slotAt # "free" /\ slot.kind = "fetch"
AnsweredSlot == slotAt \in {"answered", "done"}

\* A push goes to this book's id, alone, and sends a page noted as pending or as sent.
PushMine ==
  PushInSlot => /\ slot.id = method /\ pullSeq = 0 /\ pullJob = {}
                /\ state.pending \/ slot.page = state.lastPushed
                /\ AnsweredSlot /\ slot.result = "ok" /\ slot.id \notin theirs
                     => server[slot.id] = slot.page

\* What a fetch found is there still, unless another device has written.
Fetched(job) ==
  /\ job.result = "ok"
       => job.id = method /\ newer \subseteq theirs /\ (job.id \notin newer => server[job.id] = job.remote)
  /\ job.result = "notFound" => job.id = method /\ (job.id \notin newer => server[job.id] = None)
  /\ job.alt # None
       => job.id = method /\ (OtherMethod(job.id) \notin newer => server[OtherMethod(job.id)] = job.alt)

\* There is one pull: not asked for yet, in the slot, or in hand.
OnePull ==
  /\ pullPending => pullSeq = 0 /\ pullJob = {} /\ ~FetchInSlot
  /\ FetchInSlot => /\ pullJob = {} /\ pullSeq \in {0, slot.seq} /\ slot.id = method
                    /\ slotAt = "queued" => slot.alt = None
                    /\ AnsweredSlot => Fetched(slot)
  /\ \A job \in pullJob : Fetched(job)

\* What the state says was sent, and nothing is pending after, the server holds.
SentIsStored ==
  ~state.pending /\ method \notin theirs /\ state.lastPushed # None => server[method] = state.lastPushed

\* A push that was stashed is pending, and nothing else is under way once it is posted.
StashPending ==
  /\ at \in {"release", "sleepPost", "join"} /\ stash # None => state.pending
  /\ at \in {"sleepPost", "join", "asleep"} => pullSeq = 0 /\ pullJob = {}

NotedAtInterval == at = "interval" => state.pending \/ state.lastPushed = page

Uncrossed == PushMine /\ OnePull /\ SentIsStored /\ StashPending
StoredInv == SleepInv /\ NotedAtInterval /\ (crossed = {} => Uncrossed)

LEMMA CrossedGrows == ASSUME [Next]_vars PROVE crossed \subseteq crossed'
<1>1. ASSUME NEW id, NEW p, PushSilentAsync(id, p) PROVE crossed \subseteq crossed'
  BY <1>1 DEF PushSilentAsync
<1>2. CASE PollAutoSyncPull \/ MaybeAutoPushInterval
  BY <1>1, <1>2 DEF PollAutoSyncPull, Evaluate, SilentUpload, MaybeAutoPushInterval
<1>3. CASE ~(PollAutoSyncPull \/ MaybeAutoPushInterval)
  BY <1>3 DEF Next, Elsewhere, Fetch, Store, Unreachable, Finish, OtherDevice, MaybeAutoPullOnWake, CollectPull,
    PollAutoSyncJob, NotePage, TurnPage, RenderPass, Exit, MaybeAutoPushOnSleep, ReleaseAutoSyncSlot, PushStashed,
    RetryStashed, JoinStashed, Reopen, Wake, Reset, CompareScreen, AutoPushScreen, vars
<1> QED
  BY <1>2, <1>3

LEMMA NotedAtIntervalStep == ASSUME StoredInv, [Next]_vars PROVE NotedAtInterval'
<1> SUFFICES ASSUME at' = "interval" PROVE state'.pending \/ state'.lastPushed = page'
  BY DEF NotedAtInterval
<1>0. StateTypes /\ RestTypes /\ NotedAtInterval
  BY TypeParts DEF StoredInv, SleepInv
<1>1. CASE NotePage
  <2>1. NoteProgress(page) /\ UNCHANGED page
    BY <1>1 DEF NotePage, readerVars
  <2> QED
    BY <1>0, <2>1, NotedOutcome DEF NoteProgress, RestTypes
<1>2. CASE Elsewhere
  BY <1>0, <1>2 DEF Elsewhere, NotedAtInterval, readerVars, stateVars
<1>3. CASE UNCHANGED vars
  BY <1>0, <1>3 DEF vars, NotedAtInterval, readerVars, stateVars
<1>4. ~(MaybeAutoPullOnWake \/ CollectPull \/ PollAutoSyncPull \/ PollAutoSyncJob \/ MaybeAutoPushInterval)
  BY DEF MaybeAutoPullOnWake, CollectPull, PollAutoSyncPull, Evaluate, PollAutoSyncJob, MaybeAutoPushInterval
<1>5. ~(TurnPage \/ RenderPass \/ (\E why \in DOMAIN After : Exit(why)) \/ MaybeAutoPushOnSleep)
  BY DEF TurnPage, RenderPass, Exit, MaybeAutoPushOnSleep
<1>6. ~(ReleaseAutoSyncSlot \/ PushStashed \/ RetryStashed \/ JoinStashed)
  <2>1. leaving \in {"sleep", "push", "close"}
    BY DEF StoredInv, SleepInv, Numbered, After
  <2> QED
    BY <2>1 DEF ReleaseAutoSyncSlot, After, PushStashed, RetryStashed, JoinStashed
<1>7. ~(Reopen \/ Wake \/ Reset \/ CompareScreen \/ AutoPushScreen)
  BY DEF Reopen, Wake, Reset, CompareScreen, AutoPushScreen, Boot, OpenReader
<1> QED
  BY <1>1, <1>2, <1>3, <1>4, <1>5, <1>6, <1>7 DEF Next

LEMMA StashPendingStep ==
  ASSUME StoredInv, [Next]_vars, crossed' = {} PROVE StashPending'
<1>0. crossed = {} /\ StashPending /\ SleepInv /\ StateTypes /\ RestTypes /\ SameOutcome
  BY CrossedGrows, TypeParts DEF StoredInv, SleepInv, Uncrossed
<1> SUFFICES ASSUME at' \in Stages PROVE StashPending'
  BY DEF Stages, StashPending
<1>1. CASE SlotMovesOnly
  BY <1>0, <1>1 DEF SlotMovesOnly, StashPending
<1>2. CASE MaybeAutoPushOnSleep
  BY <1>2 DEF MaybeAutoPushOnSleep, Saved, StashPending
<1>3. CASE ReleaseAutoSyncSlot
  <2>1. stash' # None => state'.pending
    BY <1>0, <1>3 DEF ReleaseAutoSyncSlot, StashPending, sleepVars
  <2>2. at' \in {"sleepPost", "join", "asleep"} => pullSeq' = 0 /\ pullJob' = {}
    BY <1>3 DEF ReleaseAutoSyncSlot
  <2> QED
    BY <2>1, <2>2 DEF StashPending
<1>4. CASE PushStashed \/ RetryStashed
  BY <1>0, <1>4 DEF PushStashed, RetryStashed, StashPending, pullVars, stateVars
<1>5. CASE JoinStashed
  BY <1>0, <1>5 DEF JoinStashed, StashPending, pullVars
<1> QED
  BY <1>0, <1>1, <1>2, <1>3, <1>4, <1>5, StageSteps

\* What holds of every step's start while nothing has crossed.
LEMMA UncrossedFacts ==
  ASSUME StoredInv, [Next]_vars, crossed' = {}
  PROVE  /\ crossed = {} /\ PushMine /\ OnePull /\ SentIsStored /\ StashPending
         /\ SlotTypes /\ StateTypes /\ RestTypes /\ SameOutcome
BY CrossedGrows, TypeParts DEF StoredInv, SleepInv, Uncrossed

\* A finalized number leaves the slot empty, or everything as it was.
LEMMA FinalizedSlot ==
  ASSUME SlotTypes, StateTypes, SameOutcome, NEW seq, Finalize(seq)
  PROVE  (slotAt' = "free" /\ slot' = NoJob) \/ UNCHANGED <<slotAt, slot, state, card>>
<1>1. CASE slotAt = "done" /\ slot.seq = seq
  BY <1>1 DEF Finalize, Consume
<1>2. CASE ~(slotAt = "done" /\ slot.seq = seq)
  BY <1>2, FinalizeOutcome DEF Finalize, Consume, slotVars
<1> QED
  BY <1>1, <1>2

\* A push let out while nothing crosses.
LEMMA PushedAlone ==
  ASSUME SlotTypes, NEW id, NEW p, PushSilentAsync(id, p), crossed' = {}
  PROVE  \/ /\ slotAt' = "queued" /\ slot'.kind = "push" /\ slot'.id = id /\ slot'.page = p
            /\ pullSeq = 0 /\ pullJob' = {} /\ (state.pending \/ p = state.lastPushed)
         \/ UNCHANGED <<slotAt, slot>>
<1>1. CASE Post("push", id, p) /\ crossed' = crossed \cup (IF pullSeq # 0 \/ pullJob' # {} THEN {"pull"} ELSE {})
                               \cup (IF ~state.pending /\ p # state.lastPushed THEN {"note"} ELSE {})
  <2>1. pullSeq = 0 /\ pullJob' = {} /\ (state.pending \/ p = state.lastPushed)
    BY <1>1
  <2>2. slotAt' = "queued" /\ slot'.kind = "push" /\ slot'.id = id /\ slot'.page = p
    BY <1>1 DEF Post, NoJob
  <2> QED
    BY <2>1, <2>2
<1>2. CASE UNCHANGED slotVars
  BY <1>2 DEF slotVars
<1> QED
  BY <1>1, <1>2 DEF PushSilentAsync

LEMMA PushMineStep == ASSUME StoredInv, [Next]_vars, crossed' = {} PROVE PushMine'
<1>0. /\ crossed = {} /\ PushMine /\ OnePull /\ SentIsStored /\ StashPending
      /\ SlotTypes /\ StateTypes /\ RestTypes /\ SameOutcome
  BY UncrossedFacts
<1> DEFINE SameState == (state.pending => state'.pending) /\ state'.lastPushed = state.lastPushed
           PullNoMore == pullSeq' \in {0, pullSeq} /\ pullJob' \in {{}, pullJob}
<1>1. ASSUME ~PushInSlot' PROVE PushMine'
  BY <1>1 DEF PushMine
<1>2. ASSUME UNCHANGED <<slotAt, slot, method, server, theirs>>, SameState, PullNoMore PROVE PushMine'
  BY <1>0, <1>2 DEF PushMine, PushInSlot, AnsweredSlot
<1>3. ASSUME NEW p, PushSilentAsync(method', p), UNCHANGED <<state, pullSeq>>, ~PushInSlot PROVE PushMine'
  BY <1>0, <1>3, PushedAlone DEF PushMine, PushInSlot, AnsweredSlot
<1>4. ASSUME NEW seq, Finalize(seq), UNCHANGED <<method, server, theirs>>, PullNoMore PROVE PushMine'
  BY <1>0, <1>1, <1>2, <1>4, FinalizedSlot DEF PushInSlot
<1>5. ASSUME MarkSyncFailed \/ UNCHANGED state PROVE SameState
  BY <1>0, <1>5, FailedOutcome
<1>6. CASE Elsewhere
  <2>1. UNCHANGED <<method, pullSeq, pullJob, state>>
    BY <1>6 DEF Elsewhere, pullVars, stateVars
  <2>2. CASE Fetch
    BY <1>0, <1>1, <2>2 DEF Fetch, PushInSlot, SlotTypes, Jobs
  <2>3. CASE Store
    <3>1. PushInSlot /\ slot.id \in Ids
      BY <1>0, <2>3 DEF Store, PushInSlot, SlotTypes, Jobs
    <3>2. slot'.id = slot.id /\ slot'.page = slot.page /\ server'[slot.id] = slot.page
      BY <1>0, <2>3, <3>1 DEF Store, SlotTypes, Jobs, RestTypes
    <3> QED
      BY <1>0, <2>1, <3>1, <3>2 DEF PushMine
  <2>4. CASE Unreachable
    <3>1. slot'.id = slot.id /\ slot'.page = slot.page /\ slot'.kind = slot.kind /\ slot'.result # "ok"
      BY <1>0, <2>4 DEF Unreachable, SlotTypes, Jobs
    <3> QED
      BY <1>0, <2>1, <2>4, <3>1 DEF Unreachable, PushMine, PushInSlot
  <2>5. CASE Finish
    BY <1>0, <2>1, <2>5 DEF Finish, PushMine, PushInSlot, AnsweredSlot, serverVars
  <2>6. ASSUME NEW id \in Ids, NEW p \in Pages, OtherDevice(id, p) PROVE PushMine'
    <3>1. slot.id \notin theirs' => slot.id \notin theirs /\ server'[slot.id] = server[slot.id]
      BY <1>0, <2>6 DEF OtherDevice, SlotTypes, Jobs, RestTypes
    <3> QED
      BY <1>0, <2>1, <2>6, <3>1 DEF OtherDevice, PushMine, PushInSlot, AnsweredSlot, slotVars
  <2> QED
    BY <1>6, <2>2, <2>3, <2>4, <2>5, <2>6 DEF Elsewhere
<1>7. CASE MaybeAutoPullOnWake
  BY <1>0, <1>1, <1>7, PostSlot DEF MaybeAutoPullOnWake, PushInSlot
<1>8. CASE CollectPull
  <2>1. CASE pullSeq # 0 /\ IsDone(pullSeq)
    BY <1>0, <1>1, <1>8, <2>1 DEF CollectPull, Consume, PushMine, PushInSlot, slotVars
  <2>2. CASE ~(pullSeq # 0 /\ IsDone(pullSeq))
    BY <1>2, <1>8, <2>2 DEF CollectPull, slotVars, serverVars, stateVars
  <2> QED
    BY <2>1, <2>2
<1>9. CASE PollAutoSyncPull
  <2>1. ASSUME NEW job \in pullJob, Evaluate(job), method' = Learned(job) PROVE PushMine'
    <3>1. ~PushInSlot
      BY <1>0, <2>1 DEF PushMine
    <3>2. CASE UNCHANGED slotVars
      BY <1>1, <3>1, <3>2 DEF slotVars, PushInSlot
    <3>3. CASE PushSilentAsync(method', page) /\ UNCHANGED state
      BY <1>3, <1>9, <3>1, <3>3 DEF PollAutoSyncPull
    <3> QED
      BY <2>1, <3>2, <3>3 DEF Evaluate, SilentUpload
  <2>2. CASE UNCHANGED <<pullJob, readerVars, state, card, pushSeq, slotVars, method, crossed, theirs>>
    BY <1>2, <1>9, <2>2 DEF PollAutoSyncPull, slotVars
  <2> QED
    BY <1>9, <2>1, <2>2 DEF PollAutoSyncPull
<1>10. CASE PollAutoSyncJob
  BY <1>2, <1>4, <1>10 DEF PollAutoSyncJob, serverVars, pullVars, slotVars
<1>11. CASE NotePage \/ MaybeAutoPushOnSleep
  <2>1. SameState
    BY <1>0, <1>11, NotedOutcome DEF NotePage, NoteProgress, MaybeAutoPushOnSleep, Saved, stateVars, RestTypes
  <2> QED
    BY <1>2, <1>11, <2>1 DEF NotePage, MaybeAutoPushOnSleep, pullVars, slotVars, serverVars
<1>12. CASE MaybeAutoPushInterval
  <2>1. UNCHANGED <<method, server, theirs, pullSeq, pullJob, state>>
    BY <1>12 DEF MaybeAutoPushInterval, serverVars, pullVars, stateVars
  <2>2. CASE UNCHANGED <<slotAt, slot>>
    BY <1>2, <2>1, <2>2
  <2>3. CASE PushSilentAsync(method, page) /\ ~UNCHANGED <<slotAt, slot>>
    BY <1>0, <2>1, <2>3, PushedAlone DEF PushMine, PushInSlot, AnsweredSlot
  <2> QED
    BY <1>12, <2>2, <2>3 DEF MaybeAutoPushInterval, slotVars
<1>13. CASE TurnPage \/ RenderPass \/ (\E why \in DOMAIN After : Exit(why)) \/ UNCHANGED vars
  BY <1>2, <1>13 DEF TurnPage, RenderPass, Exit, vars, pullVars, stateVars, slotVars, serverVars
<1>14. CASE ReleaseAutoSyncSlot
  <2>1. UNCHANGED <<method, server, theirs>> /\ PullNoMore
    BY <1>14 DEF ReleaseAutoSyncSlot, serverVars
  <2>2. CASE pushSeq = 0 /\ pullSeq # 0
    BY <1>0, <1>1, <1>14, <2>2 DEF ReleaseAutoSyncSlot, Consume, PushMine, PushInSlot, slotVars
  <2> QED
    BY <1>2, <1>4, <1>14, <2>1, <2>2 DEF ReleaseAutoSyncSlot, slotVars
<1>15. CASE PushStashed \/ RetryStashed
  <2>1. UNCHANGED <<method, server, theirs, pullSeq, pullJob>>
    BY <1>15 DEF PushStashed, RetryStashed, serverVars, pullVars
  <2>2. CASE Post("push", method, stash) /\ stash # None /\ UNCHANGED state
    <3>1. state.pending /\ pullSeq = 0 /\ pullJob = {}
      BY <1>0, <1>15, <2>2 DEF StashPending, PushStashed, RetryStashed
    <3>2. slotAt' = "queued" /\ slot'.id = method
      BY <2>2 DEF Post, NoJob
    <3> QED
      BY <2>1, <2>2, <3>1, <3>2 DEF PushMine, AnsweredSlot
  <2>3. CASE UNCHANGED slotVars /\ (MarkSyncFailed \/ UNCHANGED state)
    BY <1>2, <1>5, <2>1, <2>3 DEF slotVars
  <2> QED
    BY <1>15, <2>2, <2>3 DEF PushStashed, RetryStashed, stateVars
<1>16. CASE JoinStashed
  <2>1. UNCHANGED <<method, server, theirs, pullSeq, pullJob>>
    BY <1>16 DEF JoinStashed, serverVars, pullVars
  <2>2. CASE UNCHANGED slotVars /\ (MarkSyncFailed \/ UNCHANGED state)
    BY <1>2, <1>5, <2>1, <2>2 DEF slotVars
  <2> QED
    BY <1>4, <1>16, <2>1, <2>2 DEF JoinStashed
<1>17. CASE Reopen
  <2>1. SameState
    BY <1>0, <1>17 DEF Reopen, StateTypes, States
  <2> QED
    BY <1>2, <1>17, <2>1 DEF Reopen, OpenReader, slotVars, serverVars
<1>18. CASE Wake \/ Reset \/ CompareScreen \/ AutoPushScreen
  BY <1>1, <1>18 DEF Wake, Reset, CompareScreen, AutoPushScreen, Boot, PushInSlot
<1> QED
  BY <1>6, <1>7, <1>8, <1>9, <1>10, <1>11, <1>12, <1>13, <1>14, <1>15, <1>16, <1>17, <1>18 DEF Next

LEMMA OnePullStep == ASSUME StoredInv, [Next]_vars, crossed' = {} PROVE OnePull'
<1>0. /\ crossed = {} /\ PushMine /\ OnePull
      /\ SlotTypes /\ StateTypes /\ RestTypes /\ SameOutcome
  BY UncrossedFacts
<1> DEFINE PullNoMore == /\ pullSeq' \in {0, pullSeq} /\ pullJob' \in {{}, pullJob}
                         /\ pullPending' \in {FALSE, pullPending}
           SameRecords == UNCHANGED <<method, server, theirs, newer>>
<1>1. ASSUME ~FetchInSlot', pullJob' = {}, pullPending' => pullSeq' = 0 PROVE OnePull'
  BY <1>1 DEF OnePull
<1>2. ASSUME SameRecords, PullNoMore, UNCHANGED <<slotAt, slot>> \/ ~FetchInSlot' PROVE OnePull'
  <2>1. \A job : Fetched(job) => Fetched(job)'
    BY <1>2 DEF Fetched
  <2>2. \A job \in pullJob' : Fetched(job)'
    BY <1>0, <1>2, <2>1 DEF OnePull
  <2>3. CASE UNCHANGED <<slotAt, slot>>
    <3>1. (FetchInSlot' <=> FetchInSlot) /\ (AnsweredSlot' <=> AnsweredSlot)
      BY <2>3 DEF FetchInSlot, AnsweredSlot
    <3>2. Fetched(slot) => Fetched(slot)'
      BY <1>2, <2>3 DEF Fetched
    <3>3. pullPending' => pullSeq' = 0 /\ pullJob' = {} /\ ~FetchInSlot'
      BY <1>0, <1>2, <3>1 DEF OnePull
    <3>4. FetchInSlot' => /\ pullJob' = {} /\ pullSeq' \in {0, slot'.seq} /\ slot'.id = method'
                          /\ slotAt' = "queued" => slot'.alt = None
                          /\ AnsweredSlot' => Fetched(slot)'
      BY <1>0, <1>2, <2>3, <3>1, <3>2 DEF OnePull
    <3> QED
      BY <2>2, <3>3, <3>4 DEF OnePull
  <2>4. CASE ~FetchInSlot'
    <3>1. pullPending' => pullSeq' = 0 /\ pullJob' = {}
      BY <1>0, <1>2 DEF OnePull
    <3> QED
      BY <2>2, <2>4, <3>1 DEF OnePull
  <2> QED
    BY <1>2, <2>3, <2>4
<1>3. ASSUME NEW seq, Finalize(seq), SameRecords, PullNoMore PROVE OnePull'
  BY <1>0, <1>2, <1>3, FinalizedSlot DEF FetchInSlot
<1>4. CASE Elsewhere
  <2>1. UNCHANGED <<method, pullPending, pullSeq, pullJob>>
    BY <1>4 DEF Elsewhere, pullVars
  <2>2. CASE Fetch
    <3>1. FetchInSlot /\ slot.id \in Ids /\ slot.id = method /\ pullJob = {}
      BY <1>0, <2>2 DEF Fetch, FetchInSlot, SlotTypes, Jobs, OnePull
    <3>2. Fetched(slot)'
      <4>1. UNCHANGED server /\ newer' = {}
        BY <2>2 DEF Fetch
      <4>2. PICK reached \in BOOLEAN, altReached \in BOOLEAN :
              LET found == IF reached THEN server[slot.id] ELSE None
                  alt == IF smart /\ altReached THEN server[OtherMethod(slot.id)] ELSE None
              IN slot' = [slot EXCEPT !.remote = found, !.alt = alt,
                                      !.result = CASE ~reached -> "failed"
                                                   [] reached /\ found = None -> "notFound"
                                                   [] OTHER -> "ok"]
        BY <2>2 DEF Fetch
      <4>3. slot'.id = slot.id /\ (slot'.alt # None => slot'.alt = server[OtherMethod(slot.id)])
        BY <1>0, <4>2 DEF SlotTypes, Jobs
      <4>4. /\ slot'.result = "ok" => slot'.remote = server[slot.id]
            /\ slot'.result = "notFound" => server[slot.id] = None
        <5>1. CASE reached
          BY <1>0, <4>2, <5>1 DEF SlotTypes, Jobs
        <5>2. CASE ~reached
          BY <1>0, <4>2, <5>2 DEF SlotTypes, Jobs
        <5> QED
          BY <5>1, <5>2
      <4> QED
        BY <2>1, <3>1, <4>1, <4>3, <4>4 DEF Fetched
    <3>3. slot'.id = slot.id /\ slot'.seq = slot.seq /\ slotAt' = "answered"
      BY <1>0, <2>2 DEF Fetch, SlotTypes, Jobs
    <3> QED
      BY <1>0, <2>1, <3>1, <3>2, <3>3 DEF OnePull, FetchInSlot
  <2>3. CASE Store
    <3>1. PushInSlot /\ slot'.kind = "push"
      BY <1>0, <2>3 DEF Store, PushInSlot, SlotTypes, Jobs
    <3> QED
      BY <1>0, <1>1, <2>1, <3>1 DEF PushMine, FetchInSlot
  <2>4. CASE Unreachable
    <3>1. /\ slot'.id = slot.id /\ slot'.seq = slot.seq /\ slot'.kind = slot.kind /\ slot'.alt = slot.alt
          /\ slot'.result = "failed" /\ UNCHANGED <<server, theirs, newer>> /\ slotAt = "queued" /\ slotAt' = "answered"
      BY <1>0, <2>4 DEF Unreachable, SlotTypes, Jobs, serverVars
    <3>2. CASE slot.kind = "fetch"
      <4>1. FetchInSlot /\ slot.alt = None
        BY <1>0, <3>1, <3>2 DEF FetchInSlot, OnePull
      <4>2. Fetched(slot)'
        BY <3>1, <4>1 DEF Fetched
      <4> QED
        BY <1>0, <2>1, <3>1, <4>1, <4>2 DEF OnePull
    <3>3. CASE slot.kind = "push"
      BY <1>0, <1>1, <2>1, <3>1, <3>3 DEF PushMine, PushInSlot, FetchInSlot
    <3> QED
      BY <1>0, <3>2, <3>3 DEF SlotTypes, Jobs
  <2>5. CASE Finish
    <3>1. UNCHANGED <<slot, server, theirs, newer>> /\ slotAt = "answered" /\ slotAt' = "done"
      BY <2>5 DEF Finish, serverVars
    <3>2. FetchInSlot => Fetched(slot)'
      BY <1>0, <2>1, <3>1 DEF OnePull, AnsweredSlot, Fetched
    <3>3. \A job \in pullJob : Fetched(job)'
      BY <1>0, <2>1, <3>1 DEF OnePull, Fetched
    <3> QED
      BY <1>0, <2>1, <3>1, <3>2, <3>3 DEF OnePull, FetchInSlot
  <2>6. ASSUME NEW id \in Ids, NEW p \in Pages, OtherDevice(id, p) PROVE OnePull'
    <3>1. UNCHANGED <<slotAt, slot>>
      BY <2>6 DEF OtherDevice, slotVars
    <3>2. /\ newer \subseteq theirs => newer' \subseteq theirs'
          /\ \A i \in Ids : i \notin newer' => i \notin newer /\ server'[i] = server[i]
      BY <1>0, <2>6 DEF OtherDevice, RestTypes
    <3>3. \A job \in Jobs : Fetched(job) => Fetched(job)'
      <4>1. \A job \in Jobs : job.id \in Ids /\ OtherMethod(job.id) \in Ids
        BY DEF Jobs, OtherMethod
      <4> QED
        BY <2>1, <3>2, <4>1 DEF Fetched
    <3>4. slot \in Jobs /\ pullJob \subseteq Jobs
      BY <1>0 DEF SlotTypes, RestTypes
    <3>5. Fetched(slot) => Fetched(slot)'
      BY <2>1, <3>1, <3>3, <3>4 DEF Fetched
    <3> QED
      BY <1>0, <2>1, <3>1, <3>3, <3>4, <3>5 DEF OnePull, FetchInSlot, AnsweredSlot
  <2> QED
    BY <1>4, <2>2, <2>3, <2>4, <2>5, <2>6 DEF Elsewhere
<1>5. CASE MaybeAutoPullOnWake
  <2>1. pullJob = {} /\ UNCHANGED <<method, pullJob>> /\ pullPending' = FALSE /\ pullSeq' = nextSeq
    BY <1>0, <1>5 DEF MaybeAutoPullOnWake, OnePull
  <2>2. slotAt' = "queued" /\ slot'.seq = nextSeq /\ slot'.id = method /\ slot'.alt = None
    BY <1>5 DEF MaybeAutoPullOnWake, Post, NoJob
  <2> QED
    BY <2>1, <2>2 DEF OnePull, AnsweredSlot
<1>6. CASE CollectPull
  <2>1. SameRecords /\ UNCHANGED pullPending
    BY <1>6 DEF CollectPull, serverVars
  <2>2. CASE pullSeq # 0 /\ IsDone(pullSeq)
    <3>1. pullSeq' = 0 /\ pullJob' = {Consumed(pullSeq)} /\ Consume(pullSeq) /\ ~pullPending
      BY <1>0, <1>6, <2>2 DEF CollectPull, OnePull
    <3>2. CASE slotAt = "done" /\ slot.seq = pullSeq
      <4>1. FetchInSlot
        BY <1>0, <2>2, <3>2 DEF FetchInSlot, PushMine, PushInSlot, SlotTypes, Jobs
      <4>2. Fetched(slot) /\ Consumed(pullSeq) = slot /\ slotAt' = "free"
        BY <1>0, <3>1, <3>2, <4>1 DEF OnePull, AnsweredSlot, Consumed, Consume
      <4>3. \A job \in pullJob' : Fetched(job)'
        BY <2>1, <3>1, <4>2 DEF Fetched
      <4> QED
        BY <2>1, <3>1, <4>2, <4>3 DEF OnePull, FetchInSlot
    <3>3. CASE ~(slotAt = "done" /\ slot.seq = pullSeq)
      <4>1. ~FetchInSlot
        BY <1>0, <2>2, <3>3 DEF FetchInSlot, OnePull, IsDone, Busy, SlotTypes
      <4>2. Consumed(pullSeq) = LostJob /\ UNCHANGED <<slotAt, slot>>
        BY <3>1, <3>3 DEF Consumed, Consume, slotVars
      <4>3. Fetched(LostJob)'
        BY DEF Fetched, LostJob, NoJob
      <4>4. \A job \in pullJob' : Fetched(job)'
        BY <3>1, <4>2, <4>3
      <4> QED
        BY <2>1, <3>1, <4>1, <4>2, <4>4 DEF OnePull, FetchInSlot
    <3> QED
      BY <3>2, <3>3
  <2>3. CASE ~(pullSeq # 0 /\ IsDone(pullSeq))
    BY <1>2, <1>6, <2>1, <2>3 DEF CollectPull, slotVars
  <2> QED
    BY <2>2, <2>3
<1>7. CASE PollAutoSyncPull
  <2>1. UNCHANGED <<pullPending, pullSeq>>
    BY <1>7 DEF PollAutoSyncPull
  <2>2. ASSUME NEW job \in pullJob, pullJob' = {}, Evaluate(job) PROVE OnePull'
    <3>1. ~FetchInSlot /\ ~pullPending
      BY <1>0, <2>2 DEF OnePull
    <3>2. UNCHANGED slotVars \/ \E id : PushSilentAsync(id, page)
      BY <2>2 DEF Evaluate, SilentUpload
    <3>3. ~FetchInSlot'
      BY <1>0, <3>1, <3>2, PushedAlone DEF FetchInSlot, slotVars
    <3> QED
      BY <1>1, <2>1, <2>2, <3>1, <3>3
  <2>3. CASE UNCHANGED <<pullJob, readerVars, state, card, pushSeq, slotVars, method, crossed, theirs>>
    BY <1>2, <1>7, <2>1, <2>3 DEF PollAutoSyncPull, slotVars
  <2> QED
    BY <1>7, <2>2, <2>3 DEF PollAutoSyncPull
<1>8. CASE PollAutoSyncJob
  BY <1>2, <1>3, <1>8 DEF PollAutoSyncJob, serverVars, pullVars, slotVars
<1>9. CASE \/ NotePage \/ MaybeAutoPushOnSleep \/ TurnPage \/ RenderPass \/ (\E why \in DOMAIN After : Exit(why))
           \/ UNCHANGED vars
  BY <1>2, <1>9 DEF NotePage, MaybeAutoPushOnSleep, TurnPage, RenderPass, Exit, vars, pullVars, slotVars, serverVars
<1>10. CASE MaybeAutoPushInterval
  <2>1. SameRecords /\ PullNoMore /\ UNCHANGED <<pullPending, pullSeq>>
    BY <1>10 DEF MaybeAutoPushInterval, serverVars, pullVars
  <2> QED
    BY <1>0, <1>2, <1>10, <2>1, PushedAlone DEF MaybeAutoPushInterval, slotVars, FetchInSlot
<1>11. CASE ReleaseAutoSyncSlot
  <2>1. SameRecords /\ PullNoMore
    BY <1>11 DEF ReleaseAutoSyncSlot, serverVars
  <2> QED
    BY <1>2, <1>3, <1>11, <2>1 DEF ReleaseAutoSyncSlot, Consume, FetchInSlot, slotVars
<1>12. CASE PushStashed \/ RetryStashed
  <2>1. SameRecords /\ PullNoMore
    BY <1>12 DEF PushStashed, RetryStashed, serverVars, pullVars
  <2>2. CASE Post("push", method, stash)
    <3>1. ~FetchInSlot'
      BY <1>0, <2>2, PostSlot DEF FetchInSlot
    <3> QED
      BY <1>2, <2>1, <3>1
  <2>3. CASE UNCHANGED slotVars
    BY <1>2, <2>1, <2>3 DEF slotVars
  <2> QED
    BY <1>12, <2>2, <2>3 DEF PushStashed, RetryStashed
<1>13. CASE JoinStashed
  <2>1. SameRecords /\ PullNoMore
    BY <1>13 DEF JoinStashed, serverVars, pullVars
  <2> QED
    BY <1>2, <1>3, <1>13, <2>1 DEF JoinStashed, slotVars
<1>14. CASE Reopen
  BY <1>2, <1>14 DEF Reopen, OpenReader, slotVars, serverVars
<1>15. CASE Wake \/ Reset \/ CompareScreen \/ AutoPushScreen
  BY <1>1, <1>15 DEF Wake, Reset, CompareScreen, AutoPushScreen, Boot, OpenReader, FetchInSlot
<1> QED
  BY <1>4, <1>5, <1>6, <1>7, <1>8, <1>9, <1>10, <1>11, <1>12, <1>13, <1>14, <1>15 DEF Next

LEMMA ScreenOutcome ==
  ASSUME StateTypes, NEW p \in Pages
  PROVE  /\ Kept(MarkSynced(state, p)).pending = FALSE /\ Kept(MarkSynced(state, p)).lastPushed = p
         /\ Kept([state EXCEPT !.failed = TRUE]).pending = state.pending
         /\ Kept([state EXCEPT !.failed = TRUE]).lastPushed = state.lastPushed
<1>1. 0 \in 0..Interval
  BY Sizes
<1>2. /\ MarkSynced(state, p) \in States /\ [state EXCEPT !.failed = TRUE] \in States
      /\ MarkSynced(state, p).pending = FALSE /\ MarkSynced(state, p).lastPushed = p
      /\ [state EXCEPT !.failed = TRUE].pending = state.pending
      /\ [state EXCEPT !.failed = TRUE].lastPushed = state.lastPushed
  BY <1>1 DEF StateTypes, MarkSynced, States
<1> QED
  BY <1>2 DEF Kept, States

LEMMA SentIsStoredStep == ASSUME StoredInv, [Next]_vars, crossed' = {} PROVE SentIsStored'
<1>0. /\ crossed = {} /\ PushMine /\ OnePull /\ SentIsStored
      /\ SlotTypes /\ StateTypes /\ RestTypes /\ SameOutcome
  BY UncrossedFacts
<1> DEFINE SameState == (state.pending => state'.pending) /\ state'.lastPushed = state.lastPushed
           SameRecords == UNCHANGED <<method, server, theirs>>
<1>1. ASSUME UNCHANGED <<method, server>>, theirs \subseteq theirs', SameState PROVE SentIsStored'
  BY <1>0, <1>1 DEF SentIsStored
<1>2. ASSUME MarkSyncFailed \/ UNCHANGED state PROVE SameState
  BY <1>0, <1>2, FailedOutcome
<1>3. ASSUME NEW seq, Finalize(seq), SameRecords PROVE SentIsStored'
  <2>1. CASE slotAt = "done" /\ slot.seq = seq /\ slot.kind = "push"
    <3>1. Consumed(seq) = slot
      BY <2>1 DEF Consumed
    <3>2. CASE slot.result = "ok"
      <4>1. slot.page \in {None} \cup Pages
        BY <1>0 DEF SlotTypes, Jobs
      <4>2. Saved(MarkSynced(state, slot.page))
        BY <1>3, <2>1, <3>1, <3>2 DEF Finalize
      <4>3. state'.lastPushed = slot.page
        BY <1>0, <4>1, <4>2, SyncedOutcome
      <4>4. method \notin theirs => server[method] = slot.page
        BY <1>0, <2>1, <3>2 DEF PushMine, PushInSlot, AnsweredSlot
      <4> QED
        BY <1>3, <4>3, <4>4 DEF SentIsStored
    <3>3. CASE slot.result # "ok"
      BY <1>1, <1>2, <1>3, <2>1, <3>1, <3>3 DEF Finalize
    <3> QED
      BY <3>2, <3>3
  <2>2. CASE ~(slotAt = "done" /\ slot.seq = seq /\ slot.kind = "push")
    BY <1>0, <1>1, <1>2, <1>3, <2>2, FinalizeOutcome
  <2> QED
    BY <2>1, <2>2
<1>4. CASE Elsewhere
  <2>1. UNCHANGED <<method, state>>
    BY <1>4 DEF Elsewhere, stateVars
  <2>2. CASE Fetch \/ Unreachable \/ Finish
    BY <1>1, <2>1, <2>2 DEF Fetch, Unreachable, Finish, serverVars
  <2>3. CASE Store
    <3>1. PushInSlot
      BY <2>3 DEF Store, PushInSlot
    <3>2. slot.id = method /\ (state.pending \/ slot.page = state.lastPushed)
      BY <1>0, <3>1 DEF PushMine
    <3>3. server'[method] = slot.page
      BY <1>0, <2>3, <3>2 DEF Store, RestTypes
    <3> QED
      BY <2>1, <3>2, <3>3 DEF SentIsStored
  <2>4. ASSUME NEW id \in Ids, NEW p \in Pages, OtherDevice(id, p) PROVE SentIsStored'
    <3>1. method \notin theirs' => method \notin theirs /\ server'[method] = server[method]
      BY <1>0, <2>4 DEF OtherDevice, RestTypes
    <3> QED
      BY <1>0, <2>1, <3>1 DEF SentIsStored
  <2> QED
    BY <1>4, <2>2, <2>3, <2>4 DEF Elsewhere
<1>5. CASE PollAutoSyncPull
  <2>1. ASSUME NEW job \in pullJob, Evaluate(job), method' = Learned(job), UNCHANGED server,
               theirs' = IF server[method'] = state'.lastPushed THEN theirs \ {method'}
                         ELSE theirs \cup (IF section' THEN {method'} \ {method} ELSE {method'})
        PROVE  SentIsStored'
    <3>1. CASE server[method'] = state'.lastPushed
      BY <2>1, <3>1 DEF SentIsStored
    <3>2. CASE server[method'] # state'.lastPushed /\ Adopts(job)
      <4>1. method' # method
        BY <1>0, <2>1, <3>2 DEF Learned, OtherMethod, RestTypes
      <4> QED
        BY <2>1, <3>2, <4>1 DEF SentIsStored
    <3>3. CASE server[method'] # state'.lastPushed /\ ~Adopts(job)
      <4>1. method' = method /\ theirs \subseteq theirs'
        BY <2>1, <3>3 DEF Learned
      <4>2. CASE MarkSyncFailed \/ UNCHANGED state
        BY <1>1, <1>2, <2>1, <4>1, <4>2
      <4>3. CASE section' = FALSE
        BY <2>1, <3>3, <4>1, <4>3 DEF SentIsStored
      <4>4. CASE ~(MarkSyncFailed \/ UNCHANGED state) /\ section' # FALSE
        <5>1. Answered(job) /\ Saved(MarkSynced(state, Answer(job)))
          BY <2>1, <4>4 DEF Evaluate, SilentApplyRemote
        <5>2. job.result = "ok" /\ Answer(job) = job.remote /\ job \in Jobs
          BY <1>0, <2>1, <3>3, <5>1 DEF Answered, Answer, RestTypes
        <5>3. job.id = method /\ (method \notin theirs => server[method] = job.remote)
          BY <1>0, <2>1, <5>2 DEF OnePull, Fetched
        <5>4. job.remote \in {None} \cup Pages
          BY <5>2 DEF Jobs
        <5>5. state'.lastPushed = job.remote
          BY <1>0, <5>1, <5>2, <5>4, SyncedOutcome
        <5> QED
          BY <2>1, <4>1, <5>3, <5>5 DEF SentIsStored
      <4> QED
        BY <4>2, <4>3, <4>4
    <3> QED
      BY <3>1, <3>2, <3>3
  <2>2. CASE UNCHANGED <<pullJob, readerVars, state, card, pushSeq, slotVars, method, crossed, theirs>>
    BY <1>1, <1>5, <2>2 DEF PollAutoSyncPull
  <2> QED
    BY <1>5, <2>1, <2>2 DEF PollAutoSyncPull
<1>6. CASE PollAutoSyncJob \/ ReleaseAutoSyncSlot
  BY <1>1, <1>3, <1>6 DEF PollAutoSyncJob, ReleaseAutoSyncSlot, serverVars
<1>7. CASE NotePage \/ MaybeAutoPushOnSleep
  <2>1. SameState
    BY <1>0, <1>7, NotedOutcome DEF NotePage, NoteProgress, MaybeAutoPushOnSleep, Saved, stateVars, RestTypes
  <2> QED
    BY <1>1, <1>7, <2>1 DEF NotePage, MaybeAutoPushOnSleep, serverVars
<1>8. CASE \/ MaybeAutoPullOnWake \/ CollectPull \/ MaybeAutoPushInterval \/ TurnPage \/ RenderPass
           \/ (\E why \in DOMAIN After : Exit(why)) \/ PushStashed \/ UNCHANGED vars
  BY <1>1, <1>8 DEF MaybeAutoPullOnWake, CollectPull, MaybeAutoPushInterval, TurnPage, RenderPass, Exit, PushStashed,
    vars, serverVars, stateVars
<1>9. CASE RetryStashed
  BY <1>1, <1>2, <1>9 DEF RetryStashed, serverVars
<1>10. CASE JoinStashed
  BY <1>1, <1>2, <1>3, <1>10 DEF JoinStashed, serverVars
<1>11. CASE Reopen
  <2>1. SameState
    BY <1>0, <1>11 DEF Reopen, StateTypes, States
  <2> QED
    BY <1>1, <1>11, <2>1 DEF Reopen, serverVars
<1>12. ASSUME Boot(TRUE) \/ Boot(FALSE), StateTypes'
       PROVE  state'.pending = card'.pending /\ state'.lastPushed = card'.lastPushed
  BY <1>12 DEF Boot, StateTypes, States
<1>13. StateTypes'
  BY TypesStep, TypePartsNext DEF StoredInv, SleepInv
<1>14. CASE Wake \/ Reset
  <2>1. UNCHANGED <<card, method, server, theirs>> /\ (Boot(TRUE) \/ Boot(FALSE))
    BY <1>14 DEF Wake, Reset
  <2> QED
    BY <1>0, <1>1, <1>12, <1>13, <2>1 DEF SameOutcome
<1>15. CASE CompareScreen \/ AutoPushScreen
  <2>1. /\ state'.pending = card'.pending /\ state'.lastPushed = card'.lastPushed
        /\ page \in Pages /\ page' \in Pages /\ method' \in Ids
    <3>1. RestTypes' /\ Boot(FALSE)
      BY <1>15, TypesStep, TypePartsNext DEF StoredInv, SleepInv, CompareScreen, AutoPushScreen
    <3> QED
      BY <1>0, <1>12, <1>13, <3>1 DEF RestTypes
  <2>2. CASE UNCHANGED server /\ page' = server[method'] /\ card' = Kept(MarkSynced(state, page'))
    BY <1>0, <2>1, <2>2, ScreenOutcome DEF SentIsStored
  <2>3. CASE server' = [server EXCEPT ![method'] = page] /\ card' = Kept(MarkSynced(state, page))
    <3>1. server'[method'] = page
      BY <1>0, <2>1, <2>3 DEF RestTypes
    <3> QED
      BY <1>0, <2>1, <2>3, <3>1, ScreenOutcome DEF SentIsStored
  <2>4. CASE /\ card' \in {card, Kept([state EXCEPT !.failed = TRUE])} /\ UNCHANGED server
             /\ theirs' = theirs \cup ({method'} \ {method})
    <3>1. card'.pending = state.pending /\ card'.lastPushed = state.lastPushed
      BY <1>0, <2>1, <2>4, ScreenOutcome DEF SameOutcome
    <3> QED
      BY <1>0, <2>1, <2>4, <3>1 DEF SentIsStored
  <2> QED
    BY <1>15, <2>2, <2>3, <2>4 DEF CompareScreen, AutoPushScreen
<1> QED
  BY <1>4, <1>5, <1>6, <1>7, <1>8, <1>9, <1>10, <1>11, <1>14, <1>15 DEF Next

LEMMA InitStored == ASSUME Init PROVE StoredInv
<1>1. SleepInv
  BY InitSleep
<1> QED
  BY <1>1 DEF Init, StoredInv, NotedAtInterval, Uncrossed, PushMine, PushInSlot, OnePull, FetchInSlot, SentIsStored,
    StashPending

LEMMA StoredStep == ASSUME StoredInv, [Next]_vars PROVE StoredInv'
<1>1. SleepInv'
  BY SleepStep DEF StoredInv
<1> QED
  BY <1>1, NotedAtIntervalStep, PushMineStep, OnePullStep, SentIsStoredStep, StashPendingStep DEF StoredInv, Uncrossed

LEMMA StoredSettles == ASSUME StoredInv PROVE SettledMeansStored
<1>1. page \in Pages /\ page # None
  <2>1. RestTypes
    BY TypeParts DEF StoredInv, SleepInv
  <2> QED
    BY <2>1 DEF RestTypes, Pages
<1> QED
  BY <1>1 DEF StoredInv, NotedAtInterval, Uncrossed, SentIsStored, SettledMeansStored

\* A page that is noted and not pending is on the server, whatever answers were lost,
\* late or overwritten on the way and whatever resets came between: markSynced() and
\* noteProgress() (KOReaderAutoSync.cpp) with the calls of serviceAutoSync()
\* (EpubReaderAutoSync.cpp) never leave a page that would not be sent.
THEOREM SettledIsStored == Spec => []SettledMeansStored
<1>1. Init => StoredInv
  BY InitStored
<1>2. StoredInv /\ [Next]_vars => StoredInv'
  BY StoredStep
<1>3. StoredInv => SettledMeansStored
  BY StoredSettles
<1> QED
  BY <1>1, <1>2, <1>3, PTL DEF Spec

----------------------------------------------------------------------------
(* A wake pull's upload.  While nothing has crossed, the answer in hand is *)
(* what the server still holds under the id the book then goes by.         *)

LEMMA UploadStep ==
  ASSUME StoredInv, [Next]_vars, at = "evaluate", nextSeq' # nextSeq, slot'.id \notin newer, crossed = {}
  PROVE  server[slot'.id] < slot'.page
<1>0. /\ OnePull /\ SlotTypes /\ RestTypes /\ page \in Nat /\ page > 0
  <2>1. OnePull /\ SlotTypes /\ RestTypes
    BY TypeParts DEF StoredInv, SleepInv, Uncrossed
  <2> QED
    BY <2>1, Sizes DEF RestTypes, Pages
<1>1. PollAutoSyncPull
  <2>1. ~Elsewhere /\ ~Reset /\ ~UNCHANGED vars
    BY DEF Elsewhere, Fetch, Store, Unreachable, Finish, OtherDevice, Reset, Boot, vars, slotVars
  <2> QED
    BY <2>1 DEF Next, MaybeAutoPullOnWake, CollectPull, PollAutoSyncJob, NotePage, MaybeAutoPushInterval, TurnPage,
      RenderPass, Exit, MaybeAutoPushOnSleep, ReleaseAutoSyncSlot, PushStashed, RetryStashed, JoinStashed, Reopen,
      Wake, CompareScreen, AutoPushScreen
<1>2. PICK job \in pullJob : Evaluate(job)
  BY <1>1 DEF PollAutoSyncPull, slotVars
<1>3. Fetched(job) /\ job \in Jobs
  BY <1>0 DEF OnePull, RestTypes
<1>4. /\ SilentUpload(Learned(job))
      /\ \/ ~Answered(job) /\ job.result = "notFound"
         \/ Answered(job) /\ Answer(job) < page
  BY <1>2 DEF Evaluate, slotVars, LocalPage
<1>5. slot'.id = Learned(job) /\ slot'.page = page
  BY <1>4 DEF SilentUpload, PushSilentAsync, Post, NoJob, slotVars
<1>6. CASE Adopts(job)
  <2>1. job.alt # None /\ Learned(job) = OtherMethod(method) /\ Answer(job) = job.alt /\ Answered(job)
    BY <1>6 DEF Adopts, Learned, Answer, Answered
  <2> QED
    BY <1>3, <1>4, <1>5, <2>1 DEF Fetched
<1>7. CASE ~Adopts(job)
  <2>1. Learned(job) = method /\ Answer(job) = job.remote /\ (Answered(job) <=> job.result = "ok")
    BY <1>7 DEF Learned, Answer, Answered
  <2> QED
    BY <1>0, <1>3, <1>4, <1>5, <2>1 DEF Fetched
<1> QED
  BY <1>6, <1>7

\* However long a wake pull's answer waits for the lock and however the pages turn, what
\* evaluateAutoSyncPull() (EpubReaderAutoSync.cpp) uploads without asking is further than
\* the record it replaces, under either id.
THEOREM UploadsGoFurther == Spec => UploadGoesFurther
<1>1. Init => StoredInv
  BY InitStored
<1>2. StoredInv /\ [Next]_vars => StoredInv'
  BY StoredStep
<1>3. StoredInv /\ [Next]_vars
        => [at = "evaluate" /\ nextSeq' # nextSeq /\ slot'.id \notin newer /\ crossed = {}
              => server[slot'.id] < slot'.page]_vars
  BY UploadStep
<1> QED
  BY <1>1, <1>2, <1>3, PTL DEF Spec, UploadGoesFurther
=============================================================================

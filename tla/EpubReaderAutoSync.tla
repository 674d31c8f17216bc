------------------------ MODULE EpubReaderAutoSync ------------------------
(***************************************************************************)
(* The EPUB reader's automatic sync (EpubReaderAutoSync.cpp) and the state *)
(* it keeps on the card (AutoSyncState in KOReaderAutoSync.cpp), with the  *)
(* worker's slot, the server, and another device that reads the same book. *)
(*                                                                         *)
(* The LOOP task runs serviceAutoSync() once a tick, one call after the    *)
(* other; the worker and the render task move between any two calls.  A    *)
(* call that tries the render lock may find it held, or a section being    *)
(* built: it then does nothing.                                            *)
(* A position is a page of the one book, and "further" is <: what the      *)
(* comparison can tell apart.  The server keeps one record under each of   *)
(* the book's two document ids.  How the worker comes, goes and uses the   *)
(* radio is KOReaderSyncWorker's subject: here it is the slot and what a   *)
(* job does to the server.                                                 *)
(***************************************************************************)
EXTENDS Naturals

CONSTANTS
  MaxPage,
  Interval,   \* "Send while reading": every so many page turns
  MaxPosts,   \* bounds: the jobs posted, the pages turned,
  MaxTurns,
  MaxOthers,  \* what the other device sends,
  MaxBoots    \* and the wakes and resets

ASSUME SizesAssumption ==
  /\ {MaxPage, Interval, MaxPosts} \subseteq Nat \ {0}
  /\ {MaxTurns, MaxOthers, MaxBoots} \subseteq Nat

VARIABLES
  server,                  \* id -> page
  others,                  \* how often the other device wrote
  theirs,                  \* history: the ids it wrote, we moved to, or jumped to the record
                           \* of, and have not exchanged our page under since
  newer,                   \* history: the ids it wrote since a fetch was last answered
  slotAt, slot, nextSeq,   \* the worker's slot: "free", "queued", "answered", "done"
  smart,                   \* the sync behaviour
  method,                  \* the id this book goes by
  page, section, linkOpen, \* the reader; section is whether the page's is loaded
  pullPending, pullSeq, pullJob, pushSeq,
  state, card,             \* AutoSyncState in RAM and in autosync.json
  wasTurn,                 \* lastNoteWasTurn
  stash, sleepSeq,         \* pendingSleepPush; the number it was posted under
  unsent,                  \* history: a push due on sleep was never made up
  at, leaving,             \* the call the loop task makes next; why the reader closes
  turns, boots,
  crossed                  \* history: how a push and the state came apart, see PushSilentAsync

serverVars == <<server, others, theirs, newer>>
slotVars   == <<slotAt, slot, nextSeq>>
readerVars == <<page, section, linkOpen, turns>>
pullVars   == <<pullPending, pullSeq, pullJob>>
stateVars  == <<state, card, wasTurn>>
sleepVars  == <<stash, sleepSeq, leaving, unsent>>
vars == <<serverVars, slotVars, smart, method, readerVars, pullVars, pushSeq, stateVars,
          sleepVars, at, boots, crossed>>

None == 0
Pages == 1..MaxPage
Ids == {"filename", "binary"}
OtherMethod(id) == CHOOSE i \in Ids : i # id

\* page is what a push sends; remote and alt are what a fetch found.
Jobs == [kind : {"fetch", "push"}, seq : 0..MaxPosts, id : Ids, page : {None} \cup Pages,
         result : {"ok", "notFound", "failed"}, remote : {None} \cup Pages,
         alt : {None} \cup Pages]

\* KOReaderSyncJob{}, and what consume() returns for a number the slot does not hold.
NoJob == [kind |-> "fetch", seq |-> 0, id |-> "binary", page |-> None, result |-> "ok",
          remote |-> None, alt |-> None]
LostJob == [NoJob EXCEPT !.result = "failed"]

States == [lastPushed : {None} \cup Pages, pending : BOOLEAN, failed : BOOLEAN,
           lastSeen : {None} \cup Pages, turnsSince : 0..Interval]

Init ==
  /\ server = [i \in Ids |-> None] /\ others = 0 /\ theirs = {} /\ newer = {}
  /\ slotAt = "free" /\ slot = NoJob /\ nextSeq = 1
  /\ smart \in BOOLEAN /\ method = "binary"
  /\ page = 1 /\ section = FALSE /\ linkOpen = FALSE
  /\ pullPending = TRUE /\ pullSeq = 0 /\ pullJob = {} /\ pushSeq = 0
  /\ card = [lastPushed |-> None, pending |-> FALSE, failed |-> FALSE, lastSeen |-> None,
             turnsSince |-> 0]
  /\ state = [card EXCEPT !.lastSeen = 1] /\ wasTurn = FALSE
  /\ stash = None /\ sleepSeq = 0 /\ leaving = "close" /\ unsent = FALSE
  /\ at = "idle" /\ turns = 0 /\ boots = 0
  /\ crossed = {}

-----------------------------------------------------------------------------
(* The worker, the server and the other device.                            *)

Busy == slotAt \in {"queued", "answered"}   \* jobActive()
IsDone(seq) == ~(Busy /\ slot.seq = seq)
Consumed(seq) == IF slotAt = "done" /\ slot.seq = seq THEN slot ELSE LostJob

\* consume(seq), for a call that goes on with the job it returns.
Consume(seq) ==
  IF slotAt = "done" /\ slot.seq = seq
  THEN slotAt' = "free" /\ slot' = NoJob /\ UNCHANGED nextSeq
  ELSE UNCHANGED slotVars

Post(kind, id, p) ==
  /\ ~Busy /\ nextSeq <= MaxPosts
  /\ slotAt' = "queued"
  /\ slot' = [NoJob EXCEPT !.kind = kind, !.seq = nextSeq, !.id = id, !.page = p]
  /\ nextSeq' = nextSeq + 1

\* Fetch: the record under the job's id and, in smart mode, under the other.  Each
\* is a request of its own, and may fail without the other.
Fetch ==
  /\ slotAt = "queued" /\ slot.kind = "fetch"
  /\ \E reached, altReached \in BOOLEAN :
       LET found == IF reached THEN server[slot.id] ELSE None
           alt == IF smart /\ altReached THEN server[OtherMethod(slot.id)] ELSE None
       IN slot' = [slot EXCEPT !.remote = found, !.alt = alt,
                               !.result = CASE ~reached -> "failed"
                                            [] reached /\ found = None -> "notFound"
                                            [] OTHER -> "ok"]
  /\ slotAt' = "answered" /\ newer' = {}
  /\ UNCHANGED <<server, others, theirs, nextSeq, crossed>>

\* Push: stored; the answer may be lost on its way back.
Store ==
  /\ slotAt = "queued" /\ slot.kind = "push"
  /\ server' = [server EXCEPT ![slot.id] = slot.page]
  /\ theirs' = theirs \ {slot.id}
  /\ slotAt' = "answered"
  /\ \E result \in {"ok", "failed"} : slot' = [slot EXCEPT !.result = result]
  /\ UNCHANGED <<others, newer, nextSeq, crossed>>

\* No network, a network screen owns the radio, or the server refuses.
Unreachable ==
  /\ slotAt = "queued"
  /\ slotAt' = "answered" /\ slot' = [slot EXCEPT !.result = "failed"]
  /\ UNCHANGED <<serverVars, nextSeq, crossed>>

Finish ==
  /\ slotAt = "answered" /\ slotAt' = "done"
  /\ UNCHANGED <<serverVars, slot, nextSeq, crossed>>

OtherDevice(id, p) ==
  /\ others < MaxOthers /\ others' = others + 1
  /\ server' = [server EXCEPT ![id] = p]
  /\ theirs' = theirs \cup {id} /\ newer' = newer \cup {id}
  /\ UNCHANGED <<slotVars, crossed>>

Elsewhere ==
  /\ \/ Fetch \/ Store \/ Unreachable \/ Finish
     \/ \E id \in Ids, p \in Pages : OtherDevice(id, p)
  /\ UNCHANGED <<smart, method, readerVars, pullVars, pushSeq, stateVars, sleepVars, at, boots>>

-----------------------------------------------------------------------------
(* AutoSyncState.  Each takes the state and returns it changed; Saved is   *)
(* the pair of assignments of a change that also writes the file.          *)

\* lastSeen is written too, but always seeded anew before it is next read.
Kept(s) == [s EXCEPT !.lastSeen = None]
Saved(s) == state' = s /\ card' = Kept(s)

MarkSynced(s, p) ==
  [s EXCEPT !.pending = FALSE, !.failed = FALSE, !.lastPushed = p, !.lastSeen = p,
            !.turnsSince = 0]

\* Written only when it was not set before.
MarkSyncFailed == IF state.failed THEN UNCHANGED <<state, card>>
                  ELSE Saved([state EXCEPT !.failed = TRUE])

Noted(p) ==
  LET turn == p # state.lastSeen
      counted == IF turn /\ state.turnsSince < Interval THEN state.turnsSince + 1
                 ELSE state.turnsSince
  IN [state EXCEPT !.lastSeen = p, !.turnsSince = counted,
                   !.pending = state.pending \/ p # state.lastPushed]

\* It writes the file only when it sets pending; flush() writes it in any case.
NoteProgress(p) ==
  /\ wasTurn' = (p # state.lastSeen)
  /\ state' = Noted(p)
  /\ card' = IF Noted(p).pending /\ ~state.pending THEN Kept(Noted(p)) ELSE card

\* finalizeSilentPush() that does not look at the result.
FinalizeAnyResult(seq) ==
  LET job == Consumed(seq)
  IN /\ Consume(seq)
     /\ \/ job.kind # "push" /\ UNCHANGED <<state, card>>
        \/ job.kind = "push" /\ Saved(MarkSynced(state, job.page))

\* finalizeSilentPush(): an answer that is not there leaves the state alone.
Finalize(seq) ==
  LET job == Consumed(seq)
  IN /\ Consume(seq)
     /\ \/ job.kind # "push" /\ UNCHANGED <<state, card>>
        \/ job.kind = "push" /\ job.result # "ok" /\ MarkSyncFailed
        \/ job.kind = "push" /\ job.result = "ok" /\ Saved(MarkSynced(state, job.page))

-----------------------------------------------------------------------------
(* serviceAutoSync(), call by call.                                        *)

\* pushSilentAsync(): 0 when the heap is short, the hash fails or post() refuses.  The
\* push may go out while a pull is under way, whose older answer is then compared as if
\* it were fresh, or before its page has been noted.
PushSilentAsync(id, p) ==
  \/ /\ Post("push", id, p) /\ pushSeq' = nextSeq
     /\ crossed' = crossed \cup (IF pullSeq # 0 \/ pullJob' # {} THEN {"pull"} ELSE {})
                            \cup (IF ~state.pending /\ p # state.lastPushed THEN {"note"} ELSE {})
  \/ pushSeq' = 0 /\ UNCHANGED <<slotVars, crossed>>

\* A resumed reader asks the server once its page is up and the slot is free.
MaybeAutoPullOnWake ==
  /\ at = "idle" /\ at' = "evaluate"
  /\ pullPending /\ section /\ Post("fetch", method, None)
  /\ pullPending' = FALSE /\ pullSeq' = nextSeq
  /\ UNCHANGED <<serverVars, smart, method, readerVars, pullJob, pushSeq, stateVars, sleepVars,
                 boots, crossed>>

\* No pull to post, or not now; pollAutoSyncPull() takes an answer out of the slot.
CollectPull ==
  /\ at = "idle" /\ at' = "evaluate"
  /\ IF pullSeq # 0 /\ IsDone(pullSeq)
     THEN /\ pullJob' = {Consumed(pullSeq)} /\ pullSeq' = 0
          /\ Consume(pullSeq)
     ELSE UNCHANGED <<pullJob, pullSeq, slotVars>>
  /\ UNCHANGED <<serverVars, smart, method, readerVars, pullPending, pushSeq, stateVars,
                 sleepVars, boots, crossed>>

\* The other id's record is taken unless ours is as far: where ours was not read,
\* an empty one stands for it.
Adopts(job) == smart /\ job.alt # None /\ (job.result = "notFound" \/ job.alt > job.remote)
Answer(job) == IF Adopts(job) THEN job.alt ELSE job.remote
Answered(job) == job.result = "ok" \/ Adopts(job)

\* The id adopted is learned before anything is uploaded.
Learned(job) == IF Adopts(job) THEN OtherMethod(method) ELSE method

SilentUpload(id) ==
  IF pushSeq # 0 THEN UNCHANGED <<pushSeq, slotVars, crossed>> ELSE PushSilentAsync(id, page)

\* silentApplyRemote() that counts the record's page from one.
ApplyPageAfter ==
  \E mapped \in Pages :
    /\ page' = mapped + 1 /\ section' = FALSE
    /\ Saved(MarkSynced(state, mapped))
    /\ UNCHANGED <<linkOpen, turns>>

\* silentApplyRemote(): nothing, when the record is in no chapter of the book, or a jump.
\* Where it goes is read from the record otherwise than the comparison read it, and what
\* the loaded section shows for that may be another page again: each may be any page.
SilentApplyRemote ==
  \/ UNCHANGED <<readerVars, state, card>>
  \/ \E mapped \in Pages :
       /\ page' \in Pages /\ section' = FALSE
       /\ Saved(MarkSynced(state, mapped))
       /\ UNCHANGED <<linkOpen, turns>>

\* The page an answer is compared with: the one noted last.
LastNotedPage == state.lastSeen

\* The page an answer is compared with: the one on show.
LocalPage == page

\* evaluateAutoSyncPull(), under the render lock.
Evaluate(job) ==
  LET remote == Answer(job)
  IN \/ /\ ~Answered(job) /\ job.result = "notFound" /\ smart
        /\ SilentUpload(Learned(job)) /\ at' = "push" /\ UNCHANGED <<readerVars, state, card>>
     \/ /\ ~Answered(job) /\ job.result = "failed" /\ MarkSyncFailed
        /\ at' = "push" /\ UNCHANGED <<readerVars, pushSeq, slotVars, crossed>>
     \/ /\ Answered(job) /\ remote = LocalPage /\ Saved(MarkSynced(state, LocalPage))
        /\ at' = "push" /\ UNCHANGED <<readerVars, pushSeq, slotVars, crossed>>
     \/ /\ Answered(job) /\ remote < LocalPage /\ smart
        /\ SilentUpload(Learned(job)) /\ at' = "push" /\ UNCHANGED <<readerVars, state, card>>
     \/ /\ Answered(job) /\ remote > LocalPage /\ smart
        /\ SilentApplyRemote
        /\ at' = "push" /\ UNCHANGED <<pushSeq, slotVars, crossed>>
     \/ \* Anything else is for the user; so is a record nothing can be said about.
        /\ (~smart /\ job.result = "notFound") \/ Answered(job)
        /\ at' = "compare" /\ UNCHANGED <<readerVars, state, card, pushSeq, slotVars, crossed>>

PollAutoSyncPull ==
  /\ at = "evaluate"
  /\ \/ \E job \in pullJob :
          /\ section
          /\ pullJob' = {} /\ Evaluate(job)
          /\ method' = Learned(job)
          /\ theirs' = IF server[method'] = state'.lastPushed THEN theirs \ {method'}
                        ELSE theirs \cup (IF section' THEN {method'} \ {method} ELSE {method'})
     \/ at' = "push"   \* nothing to decide, or the lock is held
        /\ UNCHANGED <<pullJob, readerVars, state, card, pushSeq, slotVars, method, crossed,
                       theirs>>
  /\ UNCHANGED <<server, others, newer, smart, pullPending, pullSeq, wasTurn, sleepVars, boots>>

PollAutoSyncJob ==
  /\ at = "push" /\ at' = "note"
  /\ IF pushSeq # 0 /\ IsDone(pushSeq)
     THEN Finalize(pushSeq) /\ pushSeq' = 0
     ELSE UNCHANGED <<slotVars, state, card, pushSeq>>
  /\ UNCHANGED <<serverVars, smart, method, readerVars, pullVars, wasTurn, sleepVars, boots,
                 crossed>>

NotePage ==
  /\ at = "note"
  /\ \/ section /\ NoteProgress(page) /\ at' = "interval"
     \/ at' = "idle" /\ UNCHANGED stateVars
  /\ UNCHANGED <<serverVars, slotVars, smart, method, readerVars, pullVars, pushSeq, sleepVars,
                 boots, crossed>>

\* maybeAutoPushInterval(); too soon after the last one is one of its ways out.
MaybeAutoPushInterval ==
  /\ at = "interval" /\ at' = "idle" /\ UNCHANGED pullVars
  /\ \/ /\ wasTurn /\ state.turnsSince >= Interval /\ ~Busy
        /\ section /\ PushSilentAsync(method, page)
     \/ UNCHANGED <<pushSeq, slotVars, crossed>>
  /\ UNCHANGED <<serverVars, smart, method, readerVars, stateVars, sleepVars, boots>>
-----------------------------------------------------------------------------
(* The user, the render task, and the ways out of the reader.              *)

TurnPage ==
  /\ at = "idle" /\ section /\ turns < MaxTurns
  /\ page' \in {page - 1, page + 1} \cap Pages
  /\ \/ section' \in BOOLEAN /\ UNCHANGED linkOpen   \* within the chapter, or out of it
     \/ section' = FALSE /\ linkOpen' = (page' > page) /\ linkOpen # linkOpen'   \* a link
  /\ turns' = turns + 1
  /\ UNCHANGED <<serverVars, slotVars, smart, method, pullVars, pushSeq, stateVars, sleepVars,
                 at, boots, crossed>>

\* A render pass loads the section (at other times of the tick it changes nothing
\* more: each call may find the lock held).
RenderPass ==
  /\ at \in {"idle", "note"}
  /\ ~section /\ section' = TRUE
  /\ UNCHANGED <<serverVars, slotVars, smart, method, page, linkOpen, turns, pullVars, pushSeq,
                 stateVars, sleepVars, at, boots, crossed>>

\* Closing a book pushes through the sync screen unless the page counts as synced.
Exit(why) ==
  /\ at = "idle" /\ at' = "exit" /\ leaving' = why
  /\ why = "push" => section /\ page # state.lastPushed
  /\ UNCHANGED <<serverVars, slotVars, smart, method, readerVars, pullVars, pushSeq, stateVars,
                 stash, sleepSeq, unsent, boots, crossed>>

\* maybeAutoPushOnSleep(), from onExit(): note, flush, and stash the push.  There may be
\* none to stash: "Send on sleep" is off, the section has no pages yet, or the position
\* has no XPath and the book no hash, which stashSleepPush() says and nobody asks.
MaybeAutoPushOnSleep ==
  LET noted == IF section THEN Noted(page) ELSE state
      due == leaving = "sleep" /\ noted.pending /\ ~linkOpen /\ section
  IN /\ at = "exit" /\ at' = "release"
     /\ Saved(noted) /\ wasTurn' = IF section THEN page # state.lastSeen ELSE wasTurn
     /\ stash' \in IF due THEN {page, None} ELSE {None}
     /\ unsent' = (due /\ stash' = None)
     /\ UNCHANGED <<serverVars, slotVars, smart, method, readerVars, pullVars, pushSeq,
                    sleepSeq, leaving, boots, crossed>>

After == [sleep |-> "sleepPost", push |-> "autoPush", close |-> "closed"]

\* The answers still in hand, or in the slot, are let go of; a push's is reported, and
\* takes the pending mark off the page that is being slept on.
ReleaseAutoSyncSlot ==
  /\ at = "release"
  /\ IF pushSeq # 0 THEN Finalize(pushSeq)
     ELSE IF pullSeq # 0 THEN Consume(pullSeq) /\ UNCHANGED <<state, card>>
     ELSE UNCHANGED <<slotVars, state, card>>
  /\ crossed' = crossed \cup (IF stash # None /\ state.pending /\ ~state'.pending THEN {"sleep"} ELSE {})
  /\ pushSeq' = 0
  /\ pullSeq' = IF pushSeq # 0 THEN pullSeq ELSE 0
  /\ pullJob' = IF pushSeq # 0 THEN pullJob ELSE {}
  /\ at' = IF pushSeq # 0 THEN "release" ELSE After[leaving]
  /\ UNCHANGED <<serverVars, smart, method, readerVars, pullPending, wasTurn, sleepVars, boots>>

\* pushStashedSleepPushAsync(): a post refused leaves the push stashed.
PushStashed ==
  /\ at = "sleepPost" /\ at' = "join"
  /\ \/ stash # None /\ Post("push", method, stash) /\ sleepSeq' = nextSeq /\ stash' = None
     \/ sleepSeq' = 0 /\ UNCHANGED <<slotVars, stash>>
  /\ UNCHANGED <<serverVars, smart, method, readerVars, pullVars, pushSeq, stateVars, leaving,
                 unsent, boots, crossed>>

\* joinStashedSleepPush(), a push still stashed: the slot has drained, or time is up.
RetryStashed ==
  /\ at = "join" /\ sleepSeq = 0 /\ stash # None
  /\ stash' = None
  /\ \/ Post("push", method, stash) /\ sleepSeq' = nextSeq /\ at' = "join" /\ UNCHANGED <<state, card>>
     \/ MarkSyncFailed /\ at' = "asleep" /\ UNCHANGED <<slotVars, sleepSeq>>
  /\ UNCHANGED <<serverVars, smart, method, readerVars, pullVars, pushSeq, wasTurn, leaving,
                 unsent, boots, crossed>>

\* joinStashedSleepPush() that takes a number of 0 for nothing to send.
JoinForgetsStash ==
  /\ at = "join" /\ at' = "asleep"
  /\ \/ sleepSeq = 0 /\ UNCHANGED <<slotVars, state, card>>
     \/ sleepSeq # 0 /\ IsDone(sleepSeq) /\ Finalize(sleepSeq)
     \/ sleepSeq # 0 /\ ~IsDone(sleepSeq) /\ MarkSyncFailed /\ UNCHANGED slotVars
  /\ UNCHANGED <<serverVars, smart, method, readerVars, pullVars, pushSeq, wasTurn, sleepVars,
                 boots, crossed>>

\* joinStashedSleepPush() to its end: the answer, or the deadline.
JoinStashed ==
  /\ at = "join" /\ ~(sleepSeq = 0 /\ stash # None) /\ at' = "asleep"
  /\ \/ sleepSeq = 0 /\ UNCHANGED <<slotVars, state, card>>
     \/ sleepSeq # 0 /\ IsDone(sleepSeq) /\ Finalize(sleepSeq)
     \/ sleepSeq # 0 /\ ~IsDone(sleepSeq) /\ MarkSyncFailed /\ UNCHANGED slotVars
  /\ UNCHANGED <<serverVars, smart, method, readerVars, pullVars, pushSeq, wasTurn, sleepVars,
                 boots, crossed>>

OpenReader(resume) ==
  /\ at' = "idle" /\ section' = FALSE /\ linkOpen' = FALSE
  /\ pullPending' = resume /\ pullSeq' = 0 /\ pullJob' = {} /\ pushSeq' = 0
  /\ wasTurn' = FALSE /\ leaving' = "close" /\ unsent' = FALSE

\* The book is opened again in the same session.
Reopen ==
  /\ at = "closed" /\ OpenReader(FALSE)
  /\ state' = [state EXCEPT !.lastSeen = page]
  /\ UNCHANGED <<serverVars, slotVars, smart, method, page, turns, card, stash, sleepSeq,
                 boots, crossed>>

\* Everything but the card starts anew: a wake, a reset, or a sync screen's reboot.
Boot(resume) ==
  /\ OpenReader(resume)
  /\ slotAt' = "free" /\ slot' = NoJob /\ UNCHANGED nextSeq
  /\ stash' = None /\ sleepSeq' = 0
  /\ state' = [card' EXCEPT !.lastSeen = page']
  /\ UNCHANGED <<smart, turns, others, newer>>

Wake ==
  /\ at = "asleep" /\ boots < MaxBoots /\ boots' = boots + 1
  /\ UNCHANGED <<card, page>> /\ Boot(TRUE)
  /\ UNCHANGED <<server, theirs, method, crossed>>

Reset ==
  /\ boots < MaxBoots /\ boots' = boots + 1
  /\ UNCHANGED <<card, page>> /\ Boot(FALSE)
  /\ UNCHANGED <<server, theirs, method, crossed>>

\* The sync screens move to the other id's record when ours is missing or behind.
ScreenMethods ==
  {method} \cup {m \in Ids : server[m] > server[method] /\ (smart \/ server[method] = None)}

\* The compare screen takes the server's position, stores ours, does neither, or fails.
CompareScreen ==
  /\ at = "compare"
  /\ method' \in ScreenMethods
  /\ \/ /\ server[method'] # None
        /\ page' = server[method'] /\ card' = Kept(MarkSynced(state, page'))
        /\ theirs' = theirs \ {method'} /\ UNCHANGED server
     \/ /\ server' = [server EXCEPT ![method'] = page]
        /\ card' = Kept(MarkSynced(state, page))
        /\ theirs' = theirs \ {method'} /\ UNCHANGED page
     \/ /\ card' \in {card, Kept([state EXCEPT !.failed = TRUE])}
        /\ theirs' = theirs \cup ({method'} \ {method}) /\ UNCHANGED <<server, page>>
  /\ boots < MaxBoots /\ boots' = boots + 1
  /\ Boot(FALSE)
  /\ UNCHANGED crossed

\* The push of a book being closed stores our page unless the server is as far.
AutoPushScreen ==
  /\ at = "autoPush"
  /\ method' \in ScreenMethods
  /\ \/ /\ page > server[method']
        /\ server' = [server EXCEPT ![method'] = page]
        /\ card' = Kept(MarkSynced(state, page)) /\ theirs' = theirs \ {method'}
     \/ /\ card' \in {card, Kept([state EXCEPT !.failed = TRUE])}
        /\ theirs' = theirs \cup ({method'} \ {method}) /\ UNCHANGED server
  /\ UNCHANGED page
  /\ boots < MaxBoots /\ boots' = boots + 1
  /\ Boot(FALSE)
  /\ UNCHANGED crossed

Next ==
  \/ Elsewhere
  \/ MaybeAutoPullOnWake \/ CollectPull \/ PollAutoSyncPull \/ PollAutoSyncJob
  \/ NotePage \/ MaybeAutoPushInterval
  \/ TurnPage \/ RenderPass \/ (\E why \in DOMAIN After : Exit(why))
  \/ MaybeAutoPushOnSleep \/ ReleaseAutoSyncSlot
  \/ PushStashed \/ RetryStashed \/ JoinStashed
  \/ Reopen \/ Wake \/ Reset \/ CompareScreen \/ AutoPushScreen

Spec == Init /\ [][Next]_vars

-----------------------------------------------------------------------------
(* Properties.                                                             *)

AutoTypeOK ==
  /\ server \in [Ids -> {None} \cup Pages] /\ others \in 0..MaxOthers
  /\ slotAt \in {"free", "queued", "answered", "done"} /\ slot \in Jobs
  /\ nextSeq \in 1..MaxPosts + 1
  /\ smart \in BOOLEAN /\ method \in Ids
  /\ page \in Pages /\ section \in BOOLEAN /\ linkOpen \in BOOLEAN
  /\ pullPending \in BOOLEAN /\ {pullSeq, pushSeq, sleepSeq} \subseteq 0..MaxPosts
  /\ pullJob \subseteq Jobs
  /\ {state, card} \subseteq States /\ wasTurn \in BOOLEAN
  /\ stash \in {None} \cup Pages /\ unsent \in BOOLEAN
  /\ turns \in 0..MaxTurns /\ boots \in 0..MaxBoots
  /\ crossed \subseteq {"pull", "note", "sleep"} /\ {theirs, newer} \subseteq SUBSET Ids

\* Going to sleep with a page read on leaves that page marked synced, or the sync
\* marked failed: the stashed push is never dropped without a word, not when an older
\* push held the slot, and not when that one's answer has taken the pending mark.
\* Excepted are a push that crossed a pull or went before its note, and a sleep for
\* which no push was made up: that page stays pending, and nothing says so.
SleepAccounts ==
  at = "asleep" /\ section /\ ~linkOpen /\ ~unsent /\ crossed \subseteq {"sleep"}
    => card.lastPushed = page \/ card.failed

\* Right after a page is noted, one that is not pending is what the server holds under
\* this book's id: no lost answer, reset or late result leaves a page that would never
\* be sent.  Excepted are an id we moved to or jumped to the record of, or another device
\* has written, without an exchange since, and what crossed notes: with a reset after it,
\* a push whose answer was lost may then be known to nobody.
SettledMeansStored ==
  at = "interval" /\ ~state.pending /\ method \notin theirs /\ crossed = {}
    => server[method] = page

\* The upload a wake pull makes without asking takes the record it goes to further,
\* however long the answer waited and however many pages were turned, back too, since it
\* was asked for, and whichever of the two ids it adopts.  Excepted are an id another
\* device wrote after the answer was read, and what crossed notes.
UploadGoesFurther ==
  [][at = "evaluate" /\ nextSeq' # nextSeq /\ slot'.id \notin newer /\ crossed = {}
       => server[slot'.id] < slot'.page]_vars
=============================================================================

--------------------------- MODULE SerialTransfer ---------------------------
(***************************************************************************)
(* The USB transfer: the device's SerialTransferProtocol, driven by its    *)
(* screen's loop, and the host's tools/serial_transfer.py, on a link of    *)
(* one byte stream each way.  A message has no number: a side knows what   *)
(* it reads from what it waits for, and each gives up on the other after a *)
(* time.  A token of the model is a command's header, a chunk of a file, a *)
(* length, a CRC, an ACK or a text line; a file is a sequence of chunks    *)
(* and its CRC is that sequence, so no two files share one.  No byte of a  *)
(* file, a length or a CRC is taken for an ACK, nor four for a magic.      *)
(*                                                                         *)
(* In a session, from opening the port to the next opening (which resets   *)
(* the device), one thing may go wrong (`fault`):                          *)
(*   lost, mangled   a token                                               *)
(*   misnamed        a command's path comes over as another name: nothing  *)
(*                   in a header tells                                     *)
(*   stall           of either side, for longer than the other waits       *)
(*   late            the host has given up on a stalled device, whose      *)
(*                   answers are still to come                             *)
(*   card            an operation of the device's card fails               *)
(*   unsaved         the card fails when a whole upload is to be put in    *)
(*                   place                                                 *)
(***************************************************************************)
EXTENDS Naturals, Sequences

CONSTANTS
  Paths,     \* the files' names
  Files,     \* their contents, sequences of chunks
  None,      \* no file
  Mangled,   \* a chunk or a CRC that came over wrong, a path with a control byte
  Tries,     \* how often a download is asked for (3)
  MaxOps     \* bound: operations of the host

ASSUME TriesAssumption == Tries \in Nat \ {0} /\ MaxOps \in Nat
Chunks == UNION {{f[i] : i \in DOMAIN f} : f \in Files}
ASSUME FilesAssumption ==
  /\ Files \subseteq Seq(Chunks) /\ None \notin Files
  /\ Mangled \notin Paths \cup Seq(Chunks \cup {Mangled})

VARIABLES
  toDev, toHost,   \* the two streams
  dev,             \* what the device is at; file: received so far, or being sent
  host,            \* the host's operation and, from its end on, the result; as, a
                   \* history: the name its request has been sent, or come over, with
  card,            \* the device's files
  fault,           \* what went wrong in this session, "none" before
  slow,            \* who is stalled now: "none", "device" or "host"
  ops              \* operations begun

vars == <<toDev, toHost, dev, host, card, fault, slow, ops>>

Tok(k, v) == [t |-> k, v |-> v]
Line(k) == Tok(k, 0)
Lines == {"READY", "OK", "ERR", "END"}
Headers == {"put", "get", "rm", "books"}

Polling == [pc |-> "poll", path |-> None, file |-> <<>>, n |-> 0]
NoOp ==
  [pc |-> "idle", op |-> "open", path |-> None, as |-> None, file |-> <<>>, n |-> 0, tries |-> 0, res |-> "none"]

Init ==
  /\ toDev = <<>> /\ toHost = <<>>
  /\ dev = Polling /\ host = NoOp
  /\ card \in [Paths -> Files \cup {None}]
  /\ fault = "none" /\ slow = "none" /\ ops = 0

\* The session's one fault happens now.
Fault(f) == fault = "none" /\ fault' = f
NoFault == UNCHANGED fault

(***************************************************************************)
(* The device.  Each step reads the token at the head of its stream.       *)
(***************************************************************************)
DevTakes == toDev # <<>> /\ toDev' = Tail(toDev)
DevSays(s) == toHost' = toHost \o s
DevTurns == slow # "device" /\ UNCHANGED <<host, slow, ops>>
BackToPoll == dev' = Polling
Refuse == DevSays(<<Line("ERR")>>) /\ BackToPoll /\ UNCHANGED card

\* poll() finds no magic and the loop drops a byte, then the next.
Skip ==
  /\ DevTurns /\ dev.pc = "poll" /\ DevTakes /\ Head(toDev).t \notin Headers
  /\ UNCHANGED <<toHost, dev, card, fault>>

\* receiveFile() waits for the CRC once every chunk is there.
Receiving(p, f, n) == [pc |-> IF Len(f) = n THEN "crc" ELSE "chunk", path |-> p, file |-> f, n |-> n]

HandleWrite(p, n) ==
  \/ p = Mangled /\ Refuse /\ NoFault
  \/ p # Mangled /\ Refuse /\ Fault("card")
  \/ /\ p # Mangled /\ NoFault
     /\ DevSays(<<Line("READY")>>) /\ dev' = Receiving(p, <<>>, n) /\ UNCHANGED card

\* One chunk of a download and the wait for its ACK, or the CRC after the last.
Sends(s, p, f, n) ==
  IF n = Len(f) THEN DevSays(Append(s, Tok("crc", f))) /\ BackToPoll
  ELSE /\ DevSays(Append(s, Tok("data", f[n + 1])))
       /\ dev' = [pc |-> "ack", path |-> p, file |-> f, n |-> n + 1]

\* refuseBadPath(), or no file of that name.
NoSuchFile(p) == IF p = Mangled THEN TRUE ELSE card[p] = None

HandleDownload(p) ==
  \/ NoSuchFile(p) /\ Refuse /\ NoFault
  \/ ~NoSuchFile(p) /\ Refuse /\ Fault("card")
  \/ /\ ~NoSuchFile(p) /\ NoFault /\ UNCHANGED card
     /\ Sends(<<Line("READY"), Tok("size", Len(card[p]))>>, p, card[p], 0)

HandleRemove(p) ==
  \/ NoSuchFile(p) /\ Refuse /\ NoFault
  \/ ~NoSuchFile(p) /\ Refuse /\ Fault("card")
  \/ /\ ~NoSuchFile(p) /\ NoFault
     /\ card' = [card EXCEPT ![p] = None]
     /\ DevSays(<<Line("OK")>>) /\ BackToPoll

\* listBooks() walks the whole card before the first book's line.
HandleBooks == dev' = [Polling EXCEPT !.pc = "walk"] /\ UNCHANGED <<toHost, card>> /\ NoFault
Listed ==
  /\ DevTurns /\ dev.pc = "walk"
  /\ DevSays(<<Line("END")>>) /\ BackToPoll /\ UNCHANGED <<toDev, card, fault>>

Poll ==
  /\ DevTurns /\ dev.pc = "poll" /\ DevTakes
  /\ LET c == Head(toDev) IN
       \/ c.t = "put" /\ HandleWrite(c.v.path, c.v.n)
       \/ c.t = "get" /\ HandleDownload(c.v)
       \/ c.t = "rm" /\ HandleRemove(c.v)
       \/ c.t = "books" /\ HandleBooks

\* A chunk of receiveFile().  The bytes of any other token are taken for the
\* chunk's: they fill it (what is left of them is dropped later on), or only a
\* part of it.
Chunk ==
  /\ DevTurns /\ dev.pc \in {"chunk", "part"} /\ DevTakes /\ UNCHANGED card
  /\ LET c == Head(toDev)
         whole == c.t = "data" /\ dev.pc = "chunk" IN
       \/ /\ dev' = Receiving(dev.path, Append(dev.file, IF whole THEN c.v ELSE Mangled), dev.n)
          /\ DevSays(<<Line("ack")>>) /\ NoFault
       \/ ~whole /\ dev' = [dev EXCEPT !.pc = "part"] /\ UNCHANGED <<toHost, fault>>
       \/ Refuse /\ Fault("card")

\* fileEnd(true): the last flush, the close and FileReplace::replace().  What
\* they return is not asked for: the answer is "OK".
FileEnd ==
  /\ \/ card' = [card EXCEPT ![dev.path] = dev.file] /\ NoFault
     \/ UNCHANGED card /\ Fault("unsaved")
  /\ DevSays(<<Line("OK")>>)

\* Mutants: the CRC is read and not compared; it is, but the answer is the same.
CrcUnchecked == DevTurns /\ dev.pc = "crc" /\ DevTakes /\ BackToPoll /\ FileEnd
CrcAnswersOk ==
  /\ DevTurns /\ dev.pc = "crc" /\ DevTakes /\ BackToPoll
  /\ IF Head(toDev).t = "crc" /\ Head(toDev).v = dev.file THEN FileEnd
     ELSE DevSays(<<Line("OK")>>) /\ UNCHANGED <<card, fault>>

Crc ==
  /\ DevTurns /\ dev.pc = "crc" /\ DevTakes /\ BackToPoll
  /\ IF Head(toDev).t = "crc" /\ Head(toDev).v = dev.file THEN FileEnd
     ELSE DevSays(<<Line("ERR")>>) /\ UNCHANGED <<card, fault>>

\* handleDownload() after a chunk: an ACK, or any other byte, at which it ends
\* without a word; so it does when the card gives no more.
Acked ==
  /\ DevTurns /\ dev.pc = "ack" /\ DevTakes /\ UNCHANGED card
  /\ \/ Head(toDev).t = "ack" /\ Sends(<<>>, dev.path, dev.file, dev.n) /\ NoFault
     \/ Head(toDev).t # "ack" /\ BackToPoll /\ UNCHANGED <<toHost, fault>>
     \/ Head(toDev).t = "ack" /\ dev.n < Len(dev.file) /\ BackToPoll /\ UNCHANGED toHost /\ Fault("card")

\* readByte() has waited 2 s.  A host that is not stalled has answered
\* by then what it was sent.
NoByte == toDev = <<>> /\ (slow = "host" \/ host.pc = "idle" \/ toHost = <<>>)
GivesUp ==
  /\ BackToPoll /\ UNCHANGED <<toDev, card, fault>>
  /\ IF dev.pc = "ack" THEN UNCHANGED toHost ELSE DevSays(<<Line("ERR")>>)

\* Mutant: the ACK is waited for without a limit.
DevTimeoutNotForAck == DevTurns /\ dev.pc \in {"chunk", "part", "crc"} /\ NoByte /\ GivesUp
DevTimeout == DevTurns /\ dev.pc \in {"chunk", "part", "crc", "ack"} /\ NoByte /\ GivesUp

Device == Skip \/ Poll \/ Listed \/ Chunk \/ Crc \/ Acked \/ DevTimeout

(***************************************************************************)
(* The host.                                                               *)
(***************************************************************************)
Header(h) ==
  Tok(h.op, CASE h.op = "put" -> [path |-> h.path, n |-> Len(h.file)]
              [] h.op = "books" -> 0
              [] OTHER -> h.path)
\* What the answer to the header is waited for.
Asking(op) == IF op \in {"put", "get"} THEN "ready" ELSE "answer"

\* reset_input_buffer(), then the header.
Ask(h, stream) == toHost' = <<>> /\ toDev' = Append(stream, Header(h)) /\ host' = h

Begin(op, p, f) ==
  /\ host.pc = "idle" /\ ops < MaxOps /\ ops' = ops + 1
  /\ Ask([pc |-> Asking(op), op |-> op, path |-> p, as |-> p, file |-> f, n |-> 0, tries |-> 1, res |-> "none"],
         toDev)
  /\ UNCHANGED <<dev, card, fault, slow>>

\* Opening the port resets the device; _wait_ready() then asks for its status
\* until it answers.
Open ==
  /\ host.pc = "idle" /\ ops \in 1 .. MaxOps - 1
  /\ toDev' = <<>> /\ toHost' = <<>> /\ dev' = Polling /\ host' = NoOp /\ fault' = "none" /\ slow' = "none"
  /\ UNCHANGED <<card, ops>>

HostTurns == host.pc # "idle" /\ slow # "host" /\ UNCHANGED <<dev, card, slow, ops>>
HostTakes == toHost # <<>> /\ toHost' = Tail(toHost)
Ends(r) == host' = [host EXCEPT !.pc = "idle", !.res = r] /\ UNCHANGED toDev
Waits(pc) == host' = [host EXCEPT !.pc = pc] /\ UNCHANGED toDev

\* Mutant: only one more try.
FailsSooner(stream) ==
  IF host.op = "get" /\ host.tries < Tries - 1
  THEN Ask([host EXCEPT !.pc = "ready", !.as = host.path, !.file = <<>>, !.tries = @ + 1], toDev)
  ELSE Ends("err") /\ toHost' = stream

\* A TransferError: a download is asked for again, anything else has failed.
Fails(stream) ==
  IF host.op = "get" /\ host.tries < Tries
  THEN Ask([host EXCEPT !.pc = "ready", !.as = host.path, !.file = <<>>, !.tries = @ + 1], toDev)
  ELSE Ends("err") /\ toHost' = stream

\* upload(): the next chunk and the wait for its ACK, or the CRC.
Uploads ==
  IF host.n = Len(host.file)
  THEN toDev' = Append(toDev, Tok("crc", host.file)) /\ host' = [host EXCEPT !.pc = "answer"]
  ELSE /\ toDev' = Append(toDev, Tok("data", host.file[host.n + 1]))
       /\ host' = [host EXCEPT !.pc = "ack", !.n = @ + 1]

\* _read_until(): other lines are passed over.  A byte that is no part of a line
\* spoils the line it comes before, or was itself the end of one.
Passes ==
  \/ UNCHANGED <<host, toDev>> /\ HostTakes
  \/ /\ Head(toHost).t \notin Lines /\ Len(toHost) > 1
     /\ toHost' = Tail(Tail(toHost)) /\ UNCHANGED <<host, toDev>>

ReadReady ==
  /\ HostTurns /\ host.pc = "ready" /\ toHost # <<>>
  /\ CASE Head(toHost).t = "READY" -> HostTakes /\ (IF host.op = "put" THEN Uploads ELSE Waits("size"))
       [] Head(toHost).t = "ERR" -> Fails(Tail(toHost))
       [] OTHER -> Passes

ReadAnswer ==
  /\ HostTurns /\ host.pc = "answer" /\ toHost # <<>>
  /\ CASE Head(toHost).t = (IF host.op = "books" THEN "END" ELSE "OK") -> HostTakes /\ Ends("ok")
       [] Head(toHost).t = "ERR" /\ host.op # "books" -> HostTakes /\ Ends("err")
       [] OTHER -> Passes

\* upload() after a chunk: one byte is read, and is the ACK or not.
ReadAck ==
  /\ HostTurns /\ host.pc = "ack" /\ HostTakes
  /\ IF Head(toHost).t = "ack" THEN Uploads ELSE Ends("err")

Compares == IF Head(toHost).v = host.file THEN Ends("ok") ELSE Waits("lost")

\* _download_once() when what it reads is what it waits for.
Downloads(pc) ==
  IF Head(toHost).t # pc THEN Waits("lost")
  ELSE CASE pc = "size" -> /\ host' = [host EXCEPT !.n = Head(toHost).v,
                                                   !.pc = IF Head(toHost).v = 0 THEN "crc" ELSE "data"]
                           /\ UNCHANGED toDev
         [] pc = "data" -> /\ toDev' = Append(toDev, Line("ack"))
                           /\ host' = [host EXCEPT !.file = Append(@, Head(toHost).v),
                                                   !.pc = IF Len(host.file) + 1 = host.n THEN "crc" ELSE "data"]
         [] pc = "crc" -> Compares

ReadDownload ==
  /\ HostTurns /\ host.pc \in {"size", "data", "crc"} /\ HostTakes /\ Downloads(host.pc)

\* Out of step with the device: the bytes are read as what they are not, until
\* the CRC does not match.  With those of a chunk there may be as many as are
\* acknowledged.
ReadLost ==
  /\ HostTurns /\ host.pc = "lost"
  /\ \/ HostTakes /\ UNCHANGED <<host, toDev>>
     \/ HostTakes /\ UNCHANGED host /\ Head(toHost).t = "data" /\ toDev' = Append(toDev, Line("ack"))
     \/ Fails(toHost)

\* No byte for 5 to 30 s.  The device is then at its poll with nothing more
\* to read, or stalled.  What books has so far is its result.
HostTimeout ==
  /\ HostTurns /\ toHost = <<>>
  /\ slow = "device" \/ (dev.pc = "poll" /\ toDev = <<>>)
  /\ fault' = IF slow = "device" THEN "late" ELSE fault
  /\ IF host.op = "books" THEN Ends("ok") /\ UNCHANGED toHost ELSE Fails(<<>>)

HostReads == ((ReadReady \/ ReadAnswer \/ ReadAck \/ ReadDownload \/ ReadLost) /\ NoFault) \/ HostTimeout

(***************************************************************************)
(* The link, and a side that stalls.                                       *)
(***************************************************************************)
Lose ==
  /\ Fault("lost")
  /\ \/ toDev # <<>> /\ toDev' = Tail(toDev) /\ UNCHANGED toHost
     \/ toHost # <<>> /\ toHost' = Tail(toHost) /\ UNCHANGED toDev
  /\ UNCHANGED <<dev, host, card, slow, ops>>

\* A command's header that comes over with the name q, and a token that comes
\* over wrong: a name with a control byte, which refuseBadPath() sees.
Renamed(c, q) == IF c.t = "put" THEN Tok("put", [c.v EXCEPT !.path = q]) ELSE Tok(c.t, q)
MangledTok(c) == Renamed(c, Mangled)

Mangle ==
  /\ Fault("mangled")
  /\ \/ /\ toDev # <<>> /\ Head(toDev).t \in {"put", "get", "rm", "data", "crc"}
        /\ toDev' = <<MangledTok(Head(toDev))>> \o Tail(toDev) /\ UNCHANGED toHost
     \/ /\ toHost # <<>> /\ Head(toHost).t \in {"data", "crc"}
        /\ toHost' = <<MangledTok(Head(toHost))>> \o Tail(toHost) /\ UNCHANGED toDev
  /\ UNCHANGED <<dev, host, card, slow, ops>>

\* A name that comes over as another name is a name: no check finds it.
Misname ==
  /\ Fault("misnamed") /\ toDev # <<>> /\ Head(toDev).t \in {"put", "get", "rm"}
  /\ \E q \in Paths \ {host.path} :
       toDev' = <<Renamed(Head(toDev), q)>> \o Tail(toDev) /\ host' = [host EXCEPT !.as = q]
  /\ UNCHANGED <<toHost, dev, card, slow, ops>>

Stall(s) == Fault("stall") /\ slow' = s /\ UNCHANGED <<toDev, toHost, dev, host, card, ops>>
Resume == slow # "none" /\ slow' = "none" /\ UNCHANGED <<toDev, toHost, dev, host, card, fault, ops>>

Next ==
  \/ Device \/ HostReads \/ Open
  \/ \E p \in Paths : Begin("rm", p, <<>>) \/ Begin("get", p, <<>>) \/ \E f \in Files : Begin("put", p, f)
  \/ Begin("books", None, <<>>)
  \/ Lose \/ Mangle \/ Misname \/ (\E s \in {"device", "host"} : Stall(s)) \/ Resume

\* The device's loop and the host's program run on, every wait has its end, and
\* so has a stall.
Fairness == WF_vars(Device) /\ WF_vars(HostReads) /\ WF_vars(Resume)
Spec == Init /\ [][Next]_vars /\ Fairness

(***************************************************************************)
(* What is promised.                                                       *)
(***************************************************************************)
\* The types; and a file of the card is one the host sent whole, never a part
\* of one or of two: SerialTransferProtocol's CRC and SerialTransferDevice's
\* .part see to that through every fault of the link.
TypeOK ==
  /\ card \in [Paths -> Files \cup {None}]
  /\ dev.pc \in {"poll", "walk", "chunk", "part", "crc", "ack"}
  /\ host.pc \in {"idle", "ready", "size", "data", "crc", "ack", "answer", "lost"}
  /\ host.tries \in 0 .. Tries /\ ops \in 0 .. MaxOps
  /\ slow \in {"none", "device", "host"} /\ (slow # "none" => fault \in {"stall", "late"})

Finished(op, r) == host.pc = "idle" /\ host.op = op /\ host.res = r

\* What the tool reports done is done: an upload is on the card as it was sent, a
\* download is the file of that name, a removal has removed it.  It is done to the
\* name the request has come over with: a header has no checksum, and only a name
\* with a control byte is refused.  Exceptions: the card failing at an upload's end
\* (see ConfirmedMeansStored); and what follows a request given up on, whose answer
\* may come late and be taken for the next one's.  Even then a download that is
\* reported done is one whole file, no part and no mixture.
Meant == IF fault = "misnamed" THEN host.as ELSE host.path
AnswersAreTrue ==
  /\ Finished("get", "ok") => host.file \in Files
  /\ fault # "late" =>
       /\ Finished("put", "ok") => card[Meant] = host.file \/ fault = "unsaved"
       /\ Finished("get", "ok") => card[Meant] = host.file
       /\ Finished("rm", "ok") => card[Meant] = None

\* "The device recovers, so a re-request succeeds": one token lost, mangled or
\* misnamed, whichever and whenever, or the card failing once, never fails a download of a
\* file there is, nor does a stall the host has sat out; and an upload fails of
\* nothing but a fault.
OneHiccupForgiven ==
  /\ Finished("get", "err") => card[host.path] = None \/ fault = "late"
  /\ Finished("put", "err") => fault # "none"

\* The host's tool always comes to an end, and the device back to its loop, where
\* Back is looked at: neither waits on the other for good.
NoneWaitsForever ==
  /\ host.pc # "idle" ~> host.pc = "idle"
  /\ dev.pc # "poll" ~> dev.pc = "poll"

\* What "OK" says on the wire: the upload is in place.  The code answers it
\* when the flush, the close or the replacement failed too.
ConfirmedMeansStored == Finished("put", "ok") => card[host.path] = host.file
=============================================================================

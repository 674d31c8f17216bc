------------------------ MODULE SerialTransfer_proofs ------------------------
(***************************************************************************)
(* Proofs about SerialTransfer for any files, any number of operations and *)
(* of tries: whatever the link and the two sides do, no part of a file and *)
(* no mixture of two ever gets a file's name on the card; and, for three   *)
(* tries or more, what the host reports done is done, and one hiccup fails *)
(* no download.  The second half follows both sides through an operation:  *)
(* StepInv has a disjunct for each way they can stand to each other.       *)
(***************************************************************************)
EXTENDS SerialTransfer, SequenceTheorems, TLAPS

-----------------------------------------------------------------------------
(* The inductive invariant. *)

\* What may be on its way to the device.  A CRC is that of a file the host has, or wrong.
DevTokens ==
       [t : {"put"}, v : [path : Paths \cup {Mangled}, n : Nat]]
  \cup [t : {"get", "rm"}, v : Paths \cup {Mangled}]
  \cup [t : {"data"}, v : Chunks \cup {Mangled}]
  \cup [t : {"crc"}, v : Files \cup {Mangled}]
  \cup [t : {"books", "ack"}, v : {0}]

\* An upload under way has a name, and what it has received is chunks.
DevInv ==
  /\ dev = [pc |-> dev.pc, path |-> dev.path, file |-> dev.file, n |-> dev.n]
  /\ dev.pc \in {"poll", "walk", "chunk", "part", "crc", "ack"}
  /\ dev.pc \in {"chunk", "part", "crc"} =>
       dev.path \in Paths /\ dev.file \in Seq(Chunks \cup {Mangled})

\* The host is at an ACK only in an upload, of a file of which it has sent n chunks.
HostInv ==
  /\ host = [pc |-> host.pc, op |-> host.op, path |-> host.path, as |-> host.as, file |-> host.file,
             n |-> host.n, tries |-> host.tries, res |-> host.res]
  /\ host.pc \in {"idle", "ready", "size", "data", "crc", "ack", "answer", "lost"}
  /\ host.tries \in 0 .. Tries
  /\ host.op \in {"open", "put", "get", "rm", "books"}
  /\ host.op \in {"put", "get", "rm"} => host.path \in Paths /\ host.as \in Paths
  /\ host.op = "put" => host.file \in Files /\ host.n \in 0 .. Len(host.file) /\ (host.pc = "ready" => host.n = 0)
  /\ host.pc \in {"size", "data", "crc"} => host.op = "get"
  /\ host.pc = "ack" => host.op = "put"
  /\ host.pc = "ready" => host.op \in {"put", "get"}

LinkInv == toDev \in Seq(DevTokens)
CardInv == card \in [Paths -> Files \cup {None}]
StallInv == slow \in {"none", "device", "host"} /\ (slow # "none" => fault \in {"stall", "late"})
OpsInv == ops \in 0 .. MaxOps
\* A request comes over with its name, short of the one fault that gives it another.
NameInv == host.as = host.path \/ fault = "misnamed"

IInv == DevInv /\ HostInv /\ LinkInv /\ CardInv /\ StallInv /\ OpsInv /\ NameInv

-----------------------------------------------------------------------------
(* Where the two sides are, as long as no stalled answer is outstanding. *)

\* What may be on its way to the host.
HostTokens ==
       [t : Lines \cup {"ack"}, v : {0}]
  \cup [t : {"size"}, v : Nat]
  \cup [t : {"data"}, v : Chunks \cup {Mangled}]
  \cup [t : {"crc"}, v : Files \cup {Mangled}]
Saying(kinds) == {c \in HostTokens : c.t \in kinds}
Wordless == Saying({"size", "data", "crc"})
Leftover == {c \in DevTokens : c.t \notin Headers}

\* The file that is asked for, or replaced, or removed, by the name the request has
\* come over with; and the one the host means.
Named == card[host.as]
Wanted == card[host.path]
\* The header with that name.
Request ==
  Tok(host.op, CASE host.op = "put" -> [path |-> host.as, n |-> Len(host.file)]
                 [] host.op = "books" -> 0
                 [] OTHER -> host.as)

\* A request is on its way, perhaps behind what is left of an earlier one.  Only
\* the second try of a download meets a device that still sends the first.
Sent(stream, c) ==
  /\ stream # <<>> /\ stream[Len(stream)] = c
  /\ \A i \in 1 .. Len(stream) - 1 : stream[i] \in Leftover
Overlap == host.op = "get" /\ host.tries = 2 /\ Named # None

Asked ==
  /\ host.op \in {"put", "get", "rm", "books"} /\ host.pc = Asking(host.op)
  /\ host.op = "get" => host.file = <<>>
  /\ \/ Sent(toDev, Request)
     \/ /\ host.op # "books" /\ fault = "mangled" /\ Sent(toDev, MangledTok(Request))
        /\ host.op = "get" /\ Named # None => host.tries = 1
  /\ \/ dev.pc = "poll" /\ toHost = <<>>
     \/ Overlap /\ dev.pc \in {"poll", "ack"} /\ toHost \in Seq(Wordless)

\* An upload in step.  What has come is a part of the file unless something was
\* mangled, and at the end its CRC tells.
AsSent == fault = "none" => \A i \in 1 .. Len(dev.file) : dev.file[i] = host.file[i]
Uploading ==
  /\ host.op = "put" /\ dev.path = host.as /\ dev.n = Len(host.file) /\ AsSent
  /\ dev.pc = (IF Len(dev.file) = dev.n THEN "crc" ELSE "chunk")
  /\ \/ host.pc = "ready" /\ dev.file = <<>> /\ toDev = <<>> /\ toHost = <<Line("READY")>>
     \/ /\ host.pc = "ack" /\ Len(dev.file) = host.n - 1 /\ toHost = <<>>
        /\ \E v \in Chunks \cup {Mangled} :
             toDev = <<Tok("data", v)>> /\ (fault = "none" => v = host.file[host.n])
     \/ host.pc = "ack" /\ Len(dev.file) = host.n /\ toDev = <<>> /\ toHost = <<Line("ack")>>
     \/ /\ host.pc = "answer" /\ Len(dev.file) = dev.n /\ toHost = <<>>
        /\ \E v \in {host.file, Mangled} :
             toDev = <<Tok("crc", v)>> /\ (fault = "none" => v = host.file)
Uploaded ==
  /\ host.op = "put" /\ host.pc = "answer" /\ dev.pc = "poll"
  /\ toDev = <<>> /\ toHost = <<Line("OK")>> /\ (Named = host.file \/ fault = "unsaved")
\* A fault has stopped it: no OK will come.
UploadLost ==
  /\ host.op = "put" /\ host.pc \in {"ready", "ack", "answer"} /\ fault # "none"
  /\ dev.pc \in {"poll", "chunk", "crc"} /\ (dev.pc # "poll" => toDev = <<>> /\ toHost = <<>>)
  /\ toDev \in Seq(Leftover) /\ toHost \in Seq(HostTokens \ Saying({"OK"}))

Removing ==
  /\ host.op = "rm" /\ host.pc = "answer" /\ dev.pc = "poll"
  /\ toDev \in Seq(Leftover) /\ toHost \in Seq(HostTokens)
  /\ Named = None \/ toHost \in Seq(HostTokens \ Saying({"OK"}))
Listing ==
  /\ host.op = "books" /\ host.pc = "answer" /\ dev.pc \in {"poll", "walk"}
  /\ toDev \in Seq(Leftover) /\ toHost \in Seq(HostTokens) /\ (dev.pc = "walk" => toHost = <<>>)

\* A download in step.  A second try, or a third, has no fault left to meet.
Again == host.tries >= 2 => fault # "none" /\ slow # "host"
\* What follows the size: the first chunk, or the CRC of an empty file.
AtFirst(c) ==
  IF Len(Named) = 0 THEN c = Tok("crc", Named) /\ dev.pc = "poll"
  ELSE c = Tok("data", Named[1]) /\ dev.pc = "ack" /\ dev.n = 1
Agreed ==
  /\ host.n = Len(Named) /\ Len(host.file) <= Len(Named)
  /\ \A i \in 1 .. Len(host.file) : host.file[i] = Named[i]
  /\ host.pc = (IF Len(host.file) = host.n THEN "crc" ELSE "data")
Downloading ==
  /\ host.op = "get" /\ Named # None /\ Again /\ toHost \in Seq(HostTokens)
  /\ \/ /\ host.pc = "ready" /\ toDev = <<>> /\ host.file = <<>>
        /\ Len(toHost) >= 3 /\ (Len(toHost) > 3 => host.tries = 2)
        /\ \A i \in 1 .. Len(toHost) - 3 : toHost[i] \in Wordless
        /\ toHost[Len(toHost) - 2] = Line("READY") /\ toHost[Len(toHost) - 1] = Tok("size", Len(Named))
        /\ AtFirst(toHost[Len(toHost)])
     \/ /\ host.pc = "size" /\ toDev = <<>> /\ host.file = <<>>
        /\ Len(toHost) = 2 /\ toHost[1] = Tok("size", Len(Named)) /\ AtFirst(toHost[2])
     \/ /\ Agreed /\ host.pc = "data" /\ dev.pc = "ack" /\ dev.n = Len(host.file) + 1
        /\ toDev = <<>> /\ toHost = <<Tok("data", Named[dev.n])>>
     \/ /\ Agreed /\ dev.pc = "ack" /\ dev.n = Len(host.file)
        /\ toDev = <<Line("ack")>> /\ toHost = <<>>
     \/ /\ Agreed /\ host.pc = "crc" /\ dev.pc = "poll" /\ toDev = <<>> /\ toHost = <<Tok("crc", Named)>>
\* The first try is lost; and what else is read cannot pass for the file.
FirstTryLost ==
  /\ host.op = "get" /\ Named # None /\ host.tries = 1 /\ fault \notin {"none", "misnamed"}
  /\ host.pc \in {"ready", "size", "data", "crc", "lost"}
  /\ dev.pc \in {"poll", "ack"} /\ toDev \in Seq(Leftover) /\ toHost \in Seq(HostTokens)
  /\ \A i \in 1 .. Len(toHost) : toHost[i].t = "crc" => toHost[i].v \in {Named, Mangled} /\ dev.pc = "poll"
\* The second has its request taken for an ACK, or its READY spoilt: nothing comes
\* that the host could take for an answer, and the third finds the device at its poll.
SecondTryLost ==
  /\ Overlap /\ host.pc = "ready" /\ Again
  /\ dev.pc \in {"poll", "ack"} /\ toDev \in Seq(Leftover) /\ toHost \in Seq(Wordless)
NoneToSend ==
  /\ host.op = "get" /\ Named = None /\ host.pc = "ready" /\ dev.pc = "poll"
  /\ toDev \in Seq(Leftover) /\ toHost \in Seq(Saying({"ERR"}))

Idle == host.pc = "idle" /\ dev.pc = "poll" /\ toDev \in Seq(Leftover)

\* The device sends the named file to a host that downloads, and none else; what the
\* host has of it is chunks.
SendInv ==
  /\ dev.pc = "ack" => host.op = "get" /\ host.pc # "idle" /\ Named # None
                       /\ dev.file = Named /\ dev.n \in 1 .. Len(Named)
  /\ host.op = "get" => host.file \in Seq(Chunks \cup {Mangled}) /\ host.tries >= 1
  /\ host.op = "get" /\ host.pc # "idle" /\ Named # None => Again

StepInv ==
  /\ SendInv
  /\ \/ Idle \/ Asked
     \/ Uploading \/ Uploaded \/ UploadLost \/ Removing \/ Listing
     \/ Downloading \/ FirstTryLost \/ SecondTryLost \/ NoneToSend

\* A download asked for again is asked for by its own name; the last try comes over
\* with another only if there is nothing to download.
Misled == host.op = "get" /\ host.as # host.path => Wanted = None \/ host.tries = 1

\* What the host reports, of both theorems.
Done ==
  /\ Finished("put", "ok") => card[Meant] = host.file \/ fault = "unsaved"
  /\ Finished("get", "ok") => card[Meant] = host.file
  /\ Finished("rm", "ok") => card[Meant] = None
Told == Done /\ OneHiccupForgiven

JInv == fault # "late" => StepInv /\ Misled /\ Told
-----------------------------------------------------------------------------
(* Sequences and tokens. *)

LEMMA TokensKept ==
  ASSUME LinkInv
  PROVE  /\ toDev # <<>> => Head(toDev) \in DevTokens /\ Tail(toDev) \in Seq(DevTokens)
         /\ \A c \in DevTokens : Append(toDev, c) \in Seq(DevTokens)
         /\ <<>> \in Seq(DevTokens)
  BY DEF LinkInv

\* What a token of each kind carries.
LEMMA TokenKinds ==
  ASSUME NEW c \in DevTokens
  PROVE  /\ c = [t |-> c.t, v |-> c.v]
         /\ c.t = "put" => c.v.path \in Paths \cup {Mangled} /\ c.v.n \in Nat
                           /\ c.v \in [path : Paths \cup {Mangled}, n : Nat]
         /\ c.t \in {"get", "rm"} => c.v \in Paths \cup {Mangled}
         /\ c.t = "data" => c.v \in Chunks \cup {Mangled}
         /\ c.t = "crc" => c.v \in Files \cup {Mangled}
  BY DEF DevTokens

LEMMA RenamedKept ==
  ASSUME NEW c \in DevTokens, c.t \in {"put", "get", "rm"}, NEW q \in Paths \cup {Mangled}
  PROVE  Renamed(c, q) \in DevTokens
<1>1. CASE c.t = "put"
  <2>1. c.v \in [path : Paths \cup {Mangled}, n : Nat]
    BY <1>1, TokenKinds
  <2>2. [c.v EXCEPT !.path = q] \in [path : Paths \cup {Mangled}, n : Nat]
    BY <2>1
  <2> QED
    BY <1>1, <2>2 DEF Renamed, Tok, DevTokens
<1>2. CASE c.t # "put"
  BY <1>2 DEF Renamed, Tok, DevTokens
<1> QED
  BY <1>1, <1>2

LEMMA MangledKept ==
  ASSUME NEW c \in DevTokens, c.t \in {"put", "get", "rm", "data", "crc"}
  PROVE  MangledTok(c) \in DevTokens
<1>1. CASE c.t \in {"put", "get", "rm"}
  BY <1>1, RenamedKept DEF MangledTok
<1>2. CASE c.t \in {"data", "crc"}
  BY <1>2 DEF MangledTok, Renamed, Tok, DevTokens
<1> QED
  BY <1>1, <1>2

\* A file's chunks are chunks, and its CRC a CRC.
LEMMA FileTokens ==
  ASSUME NEW f \in Files
  PROVE  /\ Len(f) \in Nat /\ f \in Seq(Chunks) /\ f # Mangled
         /\ \A i \in 1 .. Len(f) : Tok("data", f[i]) \in DevTokens
         /\ Tok("crc", f) \in DevTokens
<1>1. f \in Seq(Chunks) /\ f \in Seq(Chunks \cup {Mangled})
  BY FilesAssumption
<1>2. \A i \in 1 .. Len(f) : f[i] \in Chunks
  BY <1>1
<1> QED
  BY <1>1, <1>2, FilesAssumption DEF Tok, DevTokens

LEMMA HeaderToken ==
  ASSUME NEW h, h.op \in {"put", "get", "rm", "books"},
         h.op # "books" => h.path \in Paths, h.op = "put" => h.file \in Files
  PROVE  Header(h) \in DevTokens
<1>1. CASE h.op = "put"
  <2>1. Header(h) = Tok("put", [path |-> h.path, n |-> Len(h.file)]) /\ Len(h.file) \in Nat
    BY <1>1, FileTokens DEF Header
  <2>2. [path |-> h.path, n |-> Len(h.file)] \in [path : Paths \cup {Mangled}, n : Nat]
    BY <1>1, <2>1
  <2> QED
    BY <2>1, <2>2 DEF Tok, DevTokens
<1>2. CASE h.op = "books"
  BY <1>2 DEF Header, Tok, DevTokens
<1>3. CASE h.op \in {"get", "rm"}
  <2>1. Header(h) = Tok(h.op, h.path)
    BY <1>3 DEF Header
  <2> QED
    BY <1>3, <2>1 DEF Tok, DevTokens
<1> QED
  BY <1>1, <1>2, <1>3

-----------------------------------------------------------------------------
(* The device's steps. *)

LEMMA InitInv == Init => IInv
  BY TriesAssumption
     DEF Init, IInv, DevInv, HostInv, LinkInv, CardInv, StallInv, OpsInv, NameInv, Polling, NoOp

\* A step of the device leaves the host, the stall and the count as they are, and
\* a fault that has happened.
OneFault == fault' = fault \/ fault = "none"
LEMMA DeviceLeaves ==
  ASSUME IInv, DevTurns, OneFault
  PROVE  HostInv' /\ StallInv' /\ OpsInv' /\ NameInv'
  BY DEF IInv, HostInv, StallInv, OpsInv, NameInv, DevTurns, OneFault

LEMMA PollKept == BackToPoll => DevInv'
  BY DEF BackToPoll, DevInv, Polling

LEMMA TakenKept == ASSUME LinkInv, DevTakes PROVE LinkInv'
  BY TokensKept DEF LinkInv, DevTakes

LEMMA CardStays == ASSUME CardInv, UNCHANGED card PROVE CardInv'
  BY DEF CardInv

LEMMA ReceivingKept ==
  ASSUME NEW p \in Paths, NEW f \in Seq(Chunks \cup {Mangled}), NEW n, dev' = Receiving(p, f, n)
  PROVE  DevInv'
  BY DEF Receiving, DevInv

LEMMA SendsKept ==
  ASSUME NEW s, NEW p, NEW f, NEW n, Sends(s, p, f, n)
  PROVE  DevInv'
<1>1. CASE n = Len(f)
  BY <1>1, PollKept DEF Sends
<1>2. CASE n # Len(f)
  BY <1>2 DEF Sends, DevInv
<1> QED
  BY <1>1, <1>2

LEMMA PollStep == ASSUME IInv, Poll PROVE IInv'
<1> DEFINE c == Head(toDev)
<1>1. DevTurns /\ DevTakes /\ toDev # <<>>
  BY DEF Poll, DevTakes
<1>2. c \in DevTokens
  BY <1>1, TokensKept DEF IInv
<1>3. LinkInv'
  BY <1>1, TakenKept DEF IInv
<1>4. ASSUME Refuse, NoFault \/ Fault("card") PROVE DevInv' /\ CardInv' /\ OneFault
  BY <1>4, PollKept, CardStays DEF Refuse, IInv, OneFault, NoFault, Fault
<1>5. DevInv' /\ CardInv' /\ OneFault
  <2>1. CASE c.t = "put" /\ HandleWrite(c.v.path, c.v.n)
    <3>1. CASE Refuse /\ (NoFault \/ Fault("card"))
      BY <3>1, <1>4
    <3>2. CASE c.v.path # Mangled /\ NoFault /\ dev' = Receiving(c.v.path, <<>>, c.v.n) /\ UNCHANGED card
      <4>1. c.v.path \in Paths
        BY <2>1, <3>2, <1>2, TokenKinds
      <4>2. DevInv'
        BY <4>1, <3>2 DEF Receiving, DevInv
      <4> QED
        BY <4>2, <3>2, CardStays DEF IInv, OneFault, NoFault, Fault
    <3> QED
      BY <2>1, <3>1, <3>2 DEF HandleWrite
  <2>2. CASE c.t = "get" /\ HandleDownload(c.v)
    <3>1. CASE Refuse /\ (NoFault \/ Fault("card"))
      BY <3>1, <1>4
    <3>2. CASE NoFault /\ UNCHANGED card
               /\ Sends(<<Line("READY"), Tok("size", Len(card[c.v]))>>, c.v, card[c.v], 0)
      BY <3>2, SendsKept, CardStays DEF IInv, OneFault, NoFault, Fault
    <3> QED
      BY <2>2, <3>1, <3>2 DEF HandleDownload
  <2>3. CASE c.t = "rm" /\ HandleRemove(c.v)
    <3>1. CASE Refuse /\ (NoFault \/ Fault("card"))
      BY <3>1, <1>4
    <3>2. CASE NoFault /\ card' = [card EXCEPT ![c.v] = None] /\ BackToPoll
      <4>1. CardInv'
        BY <3>2 DEF IInv, CardInv
      <4> QED
        BY <4>1, <3>2, PollKept DEF OneFault, NoFault
    <3> QED
      BY <2>3, <3>1, <3>2 DEF HandleRemove
  <2>4. CASE HandleBooks
    BY <2>4, CardStays DEF HandleBooks, DevInv, Polling, IInv, OneFault, NoFault
  <2> QED
    BY <2>1, <2>2, <2>3, <2>4 DEF Poll
<1> QED
  BY <1>1, <1>3, <1>5, DeviceLeaves DEF IInv

LEMMA ChunkStep == ASSUME IInv, Chunk PROVE IInv'
<1> DEFINE c == Head(toDev)
           whole == c.t = "data" /\ dev.pc = "chunk"
<1>1. DevTurns /\ DevTakes /\ toDev # <<>> /\ dev.pc \in {"chunk", "part"} /\ UNCHANGED card
  BY DEF Chunk, DevTakes
<1>2. c \in DevTokens
  BY <1>1, TokensKept DEF IInv
<1>3. LinkInv' /\ CardInv'
  BY <1>1, TakenKept, CardStays DEF IInv
<1>4. dev.path \in Paths /\ dev.file \in Seq(Chunks \cup {Mangled})
  BY <1>1 DEF IInv, DevInv
<1>5. DevInv' /\ OneFault
  <2>1. CASE NoFault /\ dev' = Receiving(dev.path, Append(dev.file, IF whole THEN c.v ELSE Mangled), dev.n)
    <3>1. (IF whole THEN c.v ELSE Mangled) \in Chunks \cup {Mangled}
      BY <1>2, TokenKinds
    <3>2. Append(dev.file, IF whole THEN c.v ELSE Mangled) \in Seq(Chunks \cup {Mangled})
      BY <3>1, <1>4
    <3> QED
      BY <2>1, <3>2, <1>4, ReceivingKept DEF OneFault, NoFault
  <2>2. CASE dev' = [dev EXCEPT !.pc = "part"] /\ NoFault
    BY <2>2, <1>4 DEF IInv, DevInv, OneFault, NoFault
  <2>3. CASE Refuse /\ Fault("card")
    BY <2>3, PollKept DEF Refuse, OneFault, Fault
  <2> QED
    BY <2>1, <2>2, <2>3 DEF Chunk, NoFault
<1> QED
  BY <1>1, <1>3, <1>5, DeviceLeaves DEF IInv

\* The CRC that equals what was received is no wrong one: it is a file's, and what
\* was received is that file.
LEMMA CrcStep == ASSUME IInv, Crc PROVE IInv'
<1> DEFINE c == Head(toDev)
<1>1. DevTurns /\ DevTakes /\ toDev # <<>> /\ dev.pc = "crc" /\ BackToPoll
  BY DEF Crc, DevTakes
<1>2. c \in DevTokens
  BY <1>1, TokensKept DEF IInv
<1>3. LinkInv' /\ DevInv'
  BY <1>1, TakenKept, PollKept DEF IInv
<1>4. CardInv' /\ OneFault
  <2>1. CASE c.t = "crc" /\ c.v = dev.file /\ card' = [card EXCEPT ![dev.path] = dev.file] /\ NoFault
    <3>1. dev.path \in Paths /\ dev.file \in Seq(Chunks \cup {Mangled})
      BY <1>1 DEF IInv, DevInv
    <3>2. dev.file # Mangled
      BY <3>1, FilesAssumption
    <3>3. dev.file \in Files
      BY <2>1, <3>2, <1>2, TokenKinds
    <3> QED
      BY <2>1, <3>1, <3>3 DEF IInv, CardInv, OneFault, NoFault
  <2>2. CASE UNCHANGED card /\ (NoFault \/ Fault("unsaved"))
    BY <2>2, CardStays DEF IInv, OneFault, NoFault, Fault
  <2> QED
    BY <2>1, <2>2 DEF Crc, FileEnd, NoFault
<1> QED
  BY <1>1, <1>3, <1>4, DeviceLeaves DEF IInv

LEMMA AckedStep == ASSUME IInv, Acked PROVE IInv'
<1>1. DevTurns /\ DevTakes /\ UNCHANGED card
  BY DEF Acked
<1>2. LinkInv' /\ CardInv'
  BY <1>1, TakenKept, CardStays DEF IInv
<1>3. DevInv'
  BY SendsKept, PollKept DEF Acked
<1>4. OneFault
  BY DEF Acked, OneFault, NoFault, Fault
<1> QED
  BY <1>1, <1>2, <1>3, <1>4, DeviceLeaves DEF IInv

LEMMA DeviceStep == ASSUME IInv, Device PROVE IInv'
<1>1. CASE Skip
  <2>1. DevTurns /\ DevTakes /\ NoFault /\ UNCHANGED card /\ UNCHANGED dev
    BY <1>1 DEF Skip, NoFault
  <2>2. DevInv'
    BY <2>1 DEF IInv, DevInv
  <2> QED
    BY <2>1, <2>2, TakenKept, CardStays, DeviceLeaves DEF IInv, OneFault, NoFault
<1>2. CASE Listed
  <2>1. DevTurns /\ BackToPoll /\ NoFault /\ UNCHANGED card /\ UNCHANGED toDev
    BY <1>2 DEF Listed, NoFault
  <2>2. LinkInv'
    BY <2>1 DEF IInv, LinkInv
  <2> QED
    BY <2>1, <2>2, PollKept, CardStays, DeviceLeaves DEF IInv, OneFault, NoFault
<1>3. CASE DevTimeout
  <2>1. DevTurns /\ BackToPoll /\ NoFault /\ UNCHANGED card /\ UNCHANGED toDev
    BY <1>3 DEF DevTimeout, GivesUp, NoFault
  <2>2. LinkInv'
    BY <2>1 DEF IInv, LinkInv
  <2> QED
    BY <2>1, <2>2, PollKept, CardStays, DeviceLeaves DEF IInv, OneFault, NoFault
<1> QED
  BY <1>1, <1>2, <1>3, PollStep, ChunkStep, CrcStep, AckedStep DEF Device

-----------------------------------------------------------------------------
(* The host's steps. *)

\* A step of the host leaves the device and its card as they are.
LEMMA HostLeaves ==
  ASSUME IInv, UNCHANGED <<dev, card, slow>>, fault' \in {fault, "late"}
  PROVE  DevInv' /\ CardInv' /\ StallInv'
  BY DEF IInv, DevInv, CardInv, StallInv

\* An operation that asks: its header goes out, the rest follows from it.
LEMMA AskKept ==
  ASSUME NEW op \in {"put", "get", "rm", "books"}, NEW p, NEW f, NEW tries \in 0 .. Tries, NEW pc, NEW n, NEW r,
         NEW stream, NEW h,
         h = [pc |-> pc, op |-> op, path |-> p, as |-> p, file |-> f, n |-> n, tries |-> tries, res |-> r],
         pc = Asking(op), op # "books" => p \in Paths, op = "put" => f \in Files /\ n = 0,
         toDev \in Seq(DevTokens), Ask(h, toDev)
  PROVE  HostInv' /\ LinkInv' /\ NameInv'
<1>1. Header(h) \in DevTokens
  BY HeaderToken
<1>2. LinkInv'
  BY <1>1 DEF Ask, LinkInv
<1>3. op = "put" => 0 \in 0 .. Len(f)
  BY FileTokens
<1>4. HostInv'
  BY <1>3 DEF Ask, Asking, HostInv
<1>5. NameInv'
  BY DEF Ask, NameInv
<1> QED
  BY <1>2, <1>4, <1>5

LEMMA BeginStep ==
  ASSUME IInv, NEW op \in {"put", "get", "rm", "books"}, NEW p, NEW f, Begin(op, p, f),
         op # "books" => p \in Paths, op = "put" => f \in Files
  PROVE  IInv'
<1>1. OpsInv'
  BY TriesAssumption DEF Begin, IInv, OpsInv
<1>2. 1 \in 0 .. Tries
  BY TriesAssumption
<1>3. HostInv' /\ LinkInv' /\ NameInv'
  BY <1>2, AskKept DEF Begin, IInv, LinkInv
<1> QED
  BY <1>1, <1>3, HostLeaves DEF Begin, IInv

LEMMA OpenStep == ASSUME IInv, Open PROVE IInv'
  BY TriesAssumption
     DEF Open, IInv, DevInv, HostInv, LinkInv, CardInv, StallInv, OpsInv, NameInv, Polling, NoOp

LEMMA EndsKept == ASSUME IInv, NEW r, Ends(r) PROVE HostInv' /\ LinkInv'
  BY DEF IInv, HostInv, LinkInv, Ends

LEMMA FailsKept == ASSUME IInv, NEW stream, Fails(stream) PROVE HostInv' /\ LinkInv'
<1>1. CASE host.op = "get" /\ host.tries < Tries
  <2> DEFINE h == [host EXCEPT !.pc = "ready", !.as = host.path, !.file = <<>>, !.tries = @ + 1]
  <2>1. Ask(h, toDev)
    BY <1>1 DEF Fails
  <2>2. host.tries + 1 \in 0 .. Tries /\ host.path \in Paths
    BY <1>1, TriesAssumption DEF IInv, HostInv
  <2>3. h.op = "get" /\ h.path = host.path
    BY <1>1 DEF IInv, HostInv
  <2>4. Header(h) \in DevTokens
    <3> HIDE DEF h
    <3> QED
      BY <2>2, <2>3, HeaderToken
  <2>5. LinkInv'
    BY <2>1, <2>4 DEF Ask, IInv, LinkInv
  <2>6. host' = [host EXCEPT !.pc = "ready", !.as = host.path, !.file = <<>>, !.tries = @ + 1]
    BY <2>1 DEF Ask
  <2>7. HostInv'
    BY <1>1, <2>2, <2>6 DEF IInv, HostInv
  <2> QED
    BY <2>5, <2>7
<1>2. CASE ~(host.op = "get" /\ host.tries < Tries)
  BY <1>2, EndsKept DEF Fails
<1> QED
  BY <1>1, <1>2

LEMMA UploadsKept ==
  ASSUME IInv, host.op = "put", Uploads
  PROVE  HostInv' /\ LinkInv'
<1>1. host.file \in Files /\ host.n \in 0 .. Len(host.file) /\ Len(host.file) \in Nat
  BY FileTokens DEF IInv, HostInv
<1>2. CASE host.n = Len(host.file)
  <2>1. Tok("crc", host.file) \in DevTokens
    BY <1>1, FileTokens
  <2>2. LinkInv'
    BY <1>2, <2>1 DEF Uploads, IInv, LinkInv
  <2> QED
    BY <1>1, <1>2, <2>2 DEF Uploads, IInv, HostInv
<1>3. CASE host.n # Len(host.file)
  <2>1. host.n + 1 \in 1 .. Len(host.file) /\ host.n + 1 \in 0 .. Len(host.file)
    BY <1>1, <1>3
  <2>2. Tok("data", host.file[host.n + 1]) \in DevTokens
    BY <1>1, <2>1, FileTokens
  <2>3. LinkInv'
    BY <1>3, <2>2 DEF Uploads, IInv, LinkInv
  <2>4. host' = [host EXCEPT !.pc = "ack", !.n = @ + 1]
    BY <1>3 DEF Uploads
  <2>5. HostInv'
    BY <1>1, <2>1, <2>4 DEF IInv, HostInv
  <2> QED
    BY <2>3, <2>5
<1> QED
  BY <1>2, <1>3

LEMMA WaitsKept ==
  ASSUME IInv, NEW pc \in {"size", "lost"}, Waits(pc), pc = "size" => host.op = "get"
  PROVE  HostInv' /\ LinkInv'
  BY DEF IInv, HostInv, LinkInv, Waits

LEMMA SameKept == ASSUME IInv, UNCHANGED <<host, toDev>> PROVE HostInv' /\ LinkInv'
  BY DEF IInv, HostInv, LinkInv

\* An ACK goes out and the host stays as it is.
LEMMA AckToken == Line("ack") \in DevTokens
  BY DEF Line, Tok, DevTokens

LEMMA PassesKept == ASSUME IInv, Passes PROVE HostInv' /\ LinkInv'
  BY SameKept DEF Passes

LEMMA ReadReadyKept == ASSUME IInv, ReadReady PROVE HostInv' /\ LinkInv'
<1>1. CASE Head(toHost).t = "READY"
  <2>1. CASE host.op = "put"
    BY <1>1, <2>1, UploadsKept DEF ReadReady
  <2>2. CASE host.op # "put"
    <3>1. Waits("size") /\ host.pc = "ready"
      BY <1>1, <2>2 DEF ReadReady
    <3>2. host.op = "get"
      BY <2>2, <3>1 DEF IInv, HostInv
    <3> QED
      BY <3>1, <3>2, WaitsKept
  <2> QED
    BY <2>1, <2>2
<1>2. CASE Head(toHost).t = "ERR"
  BY <1>2, FailsKept DEF ReadReady
<1>3. CASE Head(toHost).t \notin {"READY", "ERR"}
  BY <1>3, PassesKept DEF ReadReady
<1> QED
  BY <1>1, <1>2, <1>3

LEMMA ReadAnswerKept == ASSUME IInv, ReadAnswer PROVE HostInv' /\ LinkInv'
  BY EndsKept, PassesKept DEF ReadAnswer

LEMMA ReadAckKept == ASSUME IInv, ReadAck PROVE HostInv' /\ LinkInv'
<1>1. host.op = "put"
  BY DEF ReadAck, IInv, HostInv
<1> QED
  BY <1>1, UploadsKept, EndsKept DEF ReadAck

LEMMA ReadDownloadKept == ASSUME IInv, ReadDownload PROVE HostInv' /\ LinkInv'
<1>1. host.op = "get" /\ host.pc \in {"size", "data", "crc"}
  BY DEF ReadDownload, IInv, HostInv
<1>2. CASE Head(toHost).t # host.pc
  <2>1. Waits("lost")
    BY <1>2 DEF ReadDownload, Downloads
  <2> QED
    BY <2>1, WaitsKept
<1>3. CASE host.pc = "size" /\ Head(toHost).t = "size"
  <2>1. UNCHANGED toDev
        /\ host' = [host EXCEPT !.n = Head(toHost).v, !.pc = IF Head(toHost).v = 0 THEN "crc" ELSE "data"]
    BY <1>3 DEF ReadDownload, Downloads
  <2> QED
    BY <1>1, <2>1 DEF IInv, HostInv, LinkInv
<1>4. CASE host.pc = "data" /\ Head(toHost).t = "data"
  <2>1. /\ toDev' = Append(toDev, Line("ack"))
        /\ host' = [host EXCEPT !.file = Append(@, Head(toHost).v),
                                !.pc = IF Len(host.file) + 1 = host.n THEN "crc" ELSE "data"]
    BY <1>4 DEF ReadDownload, Downloads
  <2>2. LinkInv'
    BY <2>1, AckToken DEF IInv, LinkInv
  <2> QED
    BY <1>1, <2>1, <2>2 DEF IInv, HostInv
<1>5. CASE host.pc = "crc" /\ Head(toHost).t = "crc"
  BY <1>5, EndsKept, WaitsKept DEF ReadDownload, Downloads, Compares
<1> QED
  BY <1>1, <1>2, <1>3, <1>4, <1>5

LEMMA ReadLostKept == ASSUME IInv, ReadLost PROVE HostInv' /\ LinkInv'
<1>1. CASE UNCHANGED <<host, toDev>>
  BY <1>1, SameKept
<1>2. CASE UNCHANGED host /\ toDev' = Append(toDev, Line("ack"))
  BY <1>2, AckToken DEF IInv, HostInv, LinkInv
<1>3. CASE Fails(toHost)
  BY <1>3, FailsKept
<1> QED
  BY <1>1, <1>2, <1>3 DEF ReadLost

LEMMA HostTimeoutKept == ASSUME IInv, HostTimeout PROVE HostInv' /\ LinkInv'
  BY EndsKept, FailsKept DEF HostTimeout

\* The request's name stays, or is the operation's again when it is asked anew.
Same == host'.op = host.op /\ host'.path = host.path
Asis == Same /\ host'.as = host.as /\ host'.tries = host.tries
LEMMA NamesKept ==
  ASSUME IInv, HostReads
  PROVE  Same /\ (host'.as = host.path \/ Asis)
<1>1. HostInv
  BY DEF IInv
<1>2. \A r : Ends(r) => Asis
  BY <1>1 DEF Ends, HostInv, Asis, Same
<1>3. \A pc : Waits(pc) => Asis
  BY <1>1 DEF Waits, HostInv, Asis, Same
<1>4. ASSUME NEW t, Fails(t) PROVE Same /\ (host'.as = host.path \/ Asis)
  <2>1. CASE Ends("err")
    BY <1>2, <2>1 DEF Asis
  <2>2. CASE host' = [host EXCEPT !.pc = "ready", !.as = host.path, !.file = <<>>, !.tries = @ + 1]
    BY <1>1, <2>2 DEF HostInv, Same
  <2> QED
    BY <1>4, <2>1, <2>2 DEF Fails, Ask
<1>5. Uploads => Asis
  BY <1>1 DEF Uploads, HostInv, Asis, Same
<1>6. Passes => Asis
  BY DEF Passes, Asis, Same
<1>7. CASE ReadReady
  BY <1>3, <1>4, <1>5, <1>6, <1>7 DEF ReadReady, Asis
<1>8. CASE ReadAnswer
  BY <1>2, <1>6, <1>8 DEF ReadAnswer, Asis
<1>9. CASE ReadAck
  BY <1>2, <1>5, <1>9 DEF ReadAck, Asis
<1>10. CASE ReadDownload
  <2>1. host.pc \in {"size", "data", "crc"} /\ Downloads(host.pc)
    BY <1>10 DEF ReadDownload
  <2>2. CASE Waits("lost") \/ Ends("ok")
    BY <1>2, <1>3, <2>2 DEF Asis
  <2>3. CASE \E a, b : host' = [host EXCEPT !.n = a, !.pc = b]
    BY <1>1, <2>3 DEF HostInv, Asis, Same
  <2>4. CASE \E a, b : host' = [host EXCEPT !.file = a, !.pc = b]
    BY <1>1, <2>4 DEF HostInv, Asis, Same
  <2> QED
    BY <2>1, <2>2, <2>3, <2>4 DEF Downloads, Compares, Asis
<1>11. CASE ReadLost
  BY <1>4, <1>11 DEF ReadLost, Asis, Same
<1>12. CASE HostTimeout
  BY <1>2, <1>4, <1>12 DEF HostTimeout, Asis
<1> QED
  BY <1>7, <1>8, <1>9, <1>10, <1>11, <1>12 DEF HostReads

LEMMA HostStep == ASSUME IInv, HostReads PROVE IInv'
<1>1. UNCHANGED <<dev, card, slow, ops>> /\ fault' \in {fault, "late"}
  BY DEF HostReads, ReadReady, ReadAnswer, ReadAck, ReadDownload, ReadLost, HostTimeout, HostTurns, NoFault
<1>2. HostInv' /\ LinkInv'
  BY ReadReadyKept, ReadAnswerKept, ReadAckKept, ReadDownloadKept, ReadLostKept, HostTimeoutKept DEF HostReads
<1>3. OpsInv'
  BY <1>1 DEF IInv, OpsInv
<1>4. fault = "misnamed" => fault' = "misnamed"
  <2>1. slow = "device" => fault # "misnamed"
    BY DEF IInv, StallInv
  <2>2. fault' = "late" => fault = "late" \/ slow = "device"
    BY DEF HostReads, NoFault, HostTimeout
  <2> QED
    BY <1>1, <2>1, <2>2
<1>5. NameInv'
  BY <1>4, NamesKept DEF IInv, NameInv, Same, Asis
<1> QED
  BY <1>1, <1>2, <1>3, <1>5, HostLeaves DEF IInv

-----------------------------------------------------------------------------
(* The link. *)

LEMMA LinkLeaves ==
  ASSUME IInv, UNCHANGED <<dev, host, card, ops>>, OneFault
  PROVE  DevInv' /\ HostInv' /\ CardInv' /\ OpsInv' /\ NameInv'
  BY DEF IInv, DevInv, HostInv, CardInv, OpsInv, NameInv, OneFault

LEMMA LoseStep == ASSUME IInv, Lose PROVE IInv'
<1>1. LinkInv'
  BY TokensKept DEF Lose, IInv, LinkInv
<1>2. StallInv'
  BY DEF Lose, Fault, IInv, StallInv
<1> QED
  BY <1>1, <1>2, LinkLeaves DEF Lose, Fault, OneFault, IInv

LEMMA MangleStep == ASSUME IInv, Mangle PROVE IInv'
<1>1. LinkInv'
  <2>1. CASE /\ toDev # <<>> /\ Head(toDev).t \in {"put", "get", "rm", "data", "crc"}
             /\ toDev' = <<MangledTok(Head(toDev))>> \o Tail(toDev)
    <3>1. Head(toDev) \in DevTokens /\ Tail(toDev) \in Seq(DevTokens)
      BY <2>1, TokensKept DEF IInv
    <3>2. MangledTok(Head(toDev)) \in DevTokens
      BY <2>1, <3>1, MangledKept
    <3> QED
      BY <2>1, <3>1, <3>2 DEF LinkInv
  <2>2. CASE UNCHANGED toDev
    BY <2>2 DEF IInv, LinkInv
  <2> QED
    BY <2>1, <2>2 DEF Mangle
<1>2. StallInv'
  BY DEF Mangle, Fault, IInv, StallInv
<1> QED
  BY <1>1, <1>2, LinkLeaves DEF Mangle, Fault, OneFault, IInv

LEMMA MisnameStep == ASSUME IInv, Misname PROVE IInv'
<1>1. PICK q \in Paths \ {host.path} :
        toDev' = <<Renamed(Head(toDev), q)>> \o Tail(toDev) /\ host' = [host EXCEPT !.as = q]
  BY DEF Misname
<1>2. toDev # <<>> /\ Head(toDev).t \in {"put", "get", "rm"} /\ fault = "none" /\ fault' = "misnamed"
      /\ UNCHANGED <<toHost, dev, card, slow, ops>>
  BY DEF Misname, Fault
<1>3. LinkInv'
  <2>1. Head(toDev) \in DevTokens /\ Tail(toDev) \in Seq(DevTokens)
    BY <1>2, TokensKept DEF IInv
  <2>2. Renamed(Head(toDev), q) \in DevTokens
    BY <1>2, <2>1, RenamedKept
  <2> QED
    BY <1>1, <2>1, <2>2 DEF LinkInv
<1>4. HostInv'
  BY <1>1 DEF IInv, HostInv
<1>5. StallInv' /\ NameInv'
  BY <1>2 DEF IInv, StallInv, NameInv
<1>6. DevInv' /\ CardInv' /\ OpsInv'
  BY <1>2 DEF IInv, DevInv, CardInv, OpsInv
<1> QED
  BY <1>3, <1>4, <1>5, <1>6 DEF IInv

LEMMA StallStep == ASSUME IInv, (\E s \in {"device", "host"} : Stall(s)) \/ Resume PROVE IInv'
<1>1. LinkInv'
  BY DEF Stall, Resume, IInv, LinkInv
<1>2. StallInv'
  BY DEF Stall, Resume, Fault, IInv, StallInv
<1> QED
  BY <1>1, <1>2, LinkLeaves DEF Stall, Resume, Fault, OneFault, IInv

-----------------------------------------------------------------------------
(* The theorem. *)

LEMMA NextInv == ASSUME IInv, [Next]_vars PROVE IInv'
<1>1. CASE UNCHANGED vars
  BY <1>1 DEF vars, IInv, DevInv, HostInv, LinkInv, CardInv, StallInv, OpsInv, NameInv
<1>2. CASE Next
  <2>1. ASSUME NEW p \in Paths, Begin("rm", p, <<>>) \/ Begin("get", p, <<>>) PROVE IInv'
    BY <2>1, BeginStep
  <2>2. ASSUME NEW p \in Paths, NEW f \in Files, Begin("put", p, f) PROVE IInv'
    BY <2>2, BeginStep
  <2>3. CASE Begin("books", None, <<>>)
    BY <2>3, BeginStep
  <2> QED
    BY <1>2, <2>1, <2>2, <2>3, DeviceStep, HostStep, OpenStep, LoseStep, MangleStep,
       MisnameStep, StallStep DEF Next
<1> QED
  BY <1>1, <1>2

LEMMA IInvTypes == IInv => TypeOK
  BY DEF IInv, DevInv, HostInv, CardInv, StallInv, OpsInv, TypeOK

\* Whatever the link loses, mangles, misnames or delays, and whatever the card refuses, each
\* name on the card is that of a file the host sent whole, or of none
\* (SerialTransferProtocol's receiveFile(), SerialTransferDevice's fileEnd()).
THEOREM WholeFilesOnly == Spec => []TypeOK
<1>1. Init => IInv
  BY InitInv
<1>2. IInv /\ [Next]_vars => IInv'
  BY NextInv
<1>3. IInv => TypeOK
  BY IInvTypes
<1> QED
  BY <1>1, <1>2, <1>3, PTL DEF Spec

-----------------------------------------------------------------------------
(* A device's step, seen by both. *)

Here == IInv /\ StepInv /\ Misled /\ fault # "late"

\* A request that comes over with its own name is the header that was sent.
LEMMA NameIs ==
  ASSUME IInv
  PROVE  /\ fault # "misnamed" => host.as = host.path /\ Named = Wanted
         /\ Meant = host.as
  BY DEF IInv, NameInv, Named, Wanted, Meant

LEMMA RequestKind ==
  ASSUME IInv, host.op \in {"put", "get", "rm", "books"}
  PROVE  /\ Request \in DevTokens /\ Request.t = host.op
         /\ host.op # "books" => MangledTok(Request) \in DevTokens /\ MangledTok(Request).t = host.op
<1>1. host.op \in {"get", "rm", "put"} => host.as \in Paths
  BY DEF IInv, HostInv
<1>2. Request \in DevTokens
  <2>1. CASE host.op = "put"
    <3>1. Len(host.file) \in Nat
      BY <2>1, FileTokens DEF IInv, HostInv
    <3>2. [path |-> host.as, n |-> Len(host.file)] \in [path : Paths \cup {Mangled}, n : Nat]
      BY <1>1, <2>1, <3>1
    <3> QED
      BY <2>1, <3>2 DEF Request, Tok, DevTokens
  <2>2. CASE host.op # "put"
    BY <1>1, <2>2 DEF Request, Tok, DevTokens
  <2> QED
    BY <2>1, <2>2
<1>3. Request.t = host.op
  BY DEF Request, Tok
<1> QED
  BY <1>2, <1>3, MangledKept DEF MangledTok, Renamed, Tok

LEMMA SameRequest == host' = host => Request' = Request
  BY DEF Request

\* A stream without its head.
LEMMA StreamTail ==
  ASSUME NEW S, NEW s \in Seq(S), s # <<>>
  PROVE  /\ Len(s) \in Nat \ {0} /\ Head(s) = s[1] /\ Head(s) \in S
         /\ Tail(s) \in Seq(S) /\ Len(Tail(s)) = Len(s) - 1
         /\ \A i \in 1 .. Len(s) - 1 : Tail(s)[i] = s[i + 1]
         /\ (Len(s) = 1) <=> (Tail(s) = <<>>)
<1>1. /\ Head(s) \in S /\ Tail(s) \in Seq(S) /\ Len(Tail(s)) = Len(s) - 1
      /\ \A i \in 1 .. Len(Tail(s)) : Tail(s)[i] = s[i + 1]
  BY HeadTailProperties
<1>2. Len(s) \in Nat \ {0}
  BY EmptySeq
<1>3. (Len(Tail(s)) = 0) <=> (Tail(s) = <<>>)
  BY <1>1, EmptySeq
<1>4. Head(s) = s[1]
  BY <1>2
<1> QED
  BY <1>1, <1>2, <1>3, <1>4

\* What a request is preceded by has nothing of its kind.
LEMMA SentRest ==
  ASSUME NEW s \in Seq(DevTokens), NEW c, Sent(s, c)
  PROVE  \/ Head(s) = c /\ Tail(s) = <<>>
         \/ Head(s) \in Leftover /\ Sent(Tail(s), c)
<1>1. s # <<>>
  BY DEF Sent
<1>2. CASE Len(s) = 1
  BY <1>1, <1>2, StreamTail DEF Sent
<1>3. CASE Len(s) # 1
  <2>1. Len(Tail(s)) = Len(s) - 1 /\ Len(s) - 1 \in Nat \ {0} /\ Tail(s) # <<>> /\ Head(s) = s[1]
    BY <1>1, <1>3, StreamTail
  <2>2. Tail(s)[Len(s) - 1] = s[Len(s)] /\ \A i \in 1 .. Len(s) - 2 : Tail(s)[i] = s[i + 1]
    BY <1>1, <2>1, StreamTail
  <2> QED
    BY <2>1, <2>2 DEF Sent
<1> QED
  BY <1>2, <1>3

LEMMA SentTail ==
  ASSUME NEW s \in Seq(DevTokens), NEW c, c.t \in Headers, Sent(s, c), Head(s).t \notin Headers
  PROVE  Sent(Tail(s), c)
  BY SentRest

LEMMA SentHead ==
  ASSUME NEW s \in Seq(DevTokens), NEW c, Sent(s, c), Head(s).t \in Headers
  PROVE  Head(s) = c /\ Tail(s) = <<>>
  BY SentRest DEF Leftover

LEMMA SentNext ==
  ASSUME NEW s \in Seq(Leftover), NEW c
  PROVE  Sent(Append(s, c), c)
  BY DEF Sent

LEMMA LeftoverTail ==
  ASSUME NEW s \in Seq(Leftover), s # <<>>
  PROVE  Head(s) \in Leftover /\ Head(s).t \notin Headers /\ Tail(s) \in Seq(Leftover)
  BY DEF Leftover

\* The two sides' agreement survives whatever makes the device poll.
LEMMA SendKept ==
  ASSUME SendInv, UNCHANGED <<host, slow>>, Named' = Named, OneFault, dev'.pc # "ack"
  PROVE  SendInv'
  BY DEF SendInv, Again, OneFault, Named

LEMMA SkipAnswers == ASSUME Here, Skip PROVE StepInv'
<1>1. /\ toDev # <<>> /\ toDev' = Tail(toDev) /\ Head(toDev).t \notin Headers /\ dev.pc = "poll"
      /\ UNCHANGED <<toHost, dev, card, fault, host, slow>>
  BY DEF Skip, DevTurns, DevTakes
<1>2. SendInv' /\ Named' = Named
  BY <1>1, SendKept DEF Here, StepInv, Named, OneFault
<1>3. toDev \in Seq(DevTokens)
  BY DEF Here, IInv, LinkInv
<1>4. ASSUME toDev \in Seq(Leftover) PROVE toDev' \in Seq(Leftover)
  BY <1>1, <1>4, LeftoverTail
<1>5. CASE Asked
  <2>1. Request \in DevTokens /\ Request.t \in Headers
    BY <1>5, RequestKind DEF Here, Asked, Headers
  <2>2. host.op # "books" => MangledTok(Request).t \in Headers
    BY <1>5, RequestKind DEF Here, Asked, Headers
  <2>3. Sent(toDev, Request) => Sent(toDev', Request)
    BY <1>1, <1>3, <2>1, SentTail
  <2>4. host.op # "books" /\ Sent(toDev, MangledTok(Request)) => Sent(toDev', MangledTok(Request))
    BY <1>1, <1>3, <2>2, SentTail
  <2>5. Asked'
    BY <1>1, <1>2, <1>5, <2>3, <2>4, SameRequest DEF Asked, Overlap
  <2> QED
    BY <1>2, <2>5 DEF StepInv
<1>6. CASE Idle
  BY <1>1, <1>2, <1>4, <1>6 DEF StepInv, Idle
<1>7. CASE UploadLost
  BY <1>1, <1>2, <1>4, <1>7 DEF StepInv, UploadLost
<1>8. CASE Removing
  BY <1>1, <1>2, <1>4, <1>8 DEF StepInv, Removing
<1>9. CASE Listing
  BY <1>1, <1>2, <1>4, <1>9 DEF StepInv, Listing
<1>10. CASE FirstTryLost
  BY <1>1, <1>2, <1>4, <1>10 DEF StepInv, FirstTryLost
<1>11. CASE SecondTryLost
  BY <1>1, <1>2, <1>4, <1>11 DEF StepInv, SecondTryLost, Overlap, Again
<1>12. CASE NoneToSend
  BY <1>1, <1>2, <1>4, <1>12 DEF StepInv, NoneToSend
<1>13. ~Uploading /\ ~Uploaded /\ ~Downloading
  BY <1>1 DEF Uploading, Uploaded, Downloading, Line, Tok, AtFirst
<1> QED
  BY <1>5, <1>6, <1>7, <1>8, <1>9, <1>10, <1>11, <1>12, <1>13 DEF Here, StepInv

\* listBooks() has walked the card.
LEMMA ListedAnswers == ASSUME Here, Listed PROVE StepInv'
<1>1. /\ dev.pc = "walk" /\ dev' = Polling /\ toHost' = toHost \o <<Line("END")>>
      /\ UNCHANGED <<toDev, card, fault, host, slow>>
  BY DEF Listed, DevTurns, DevSays, BackToPoll
<1>2. SendInv'
  BY <1>1, SendKept DEF Here, StepInv, Named, OneFault, Polling
<1>3. Listing
  BY <1>1 DEF Here, StepInv, Idle, Asked, Uploading, Uploaded, UploadLost, Removing,
              Downloading, Agreed, AtFirst, FirstTryLost, SecondTryLost, NoneToSend
<1>4. Line("END") \in HostTokens
  BY DEF Line, Tok, HostTokens, Lines
<1> QED
  BY <1>1, <1>2, <1>3, <1>4 DEF StepInv, Listing, Polling

LEMMA SaysOne ==
  ASSUME NEW S, NEW s \in Seq(S), NEW c \in S
  PROVE  /\ s \o <<c>> \in Seq(S) /\ Len(s \o <<c>>) = Len(s) + 1 /\ Len(s) \in Nat
         /\ \A i \in 1 .. Len(s) : (s \o <<c>>)[i] = s[i]
         /\ (s \o <<c>>)[Len(s) + 1] = c
<1>1. <<c>> \in Seq(S) /\ Len(<<c>>) = 1 /\ <<c>>[1] = c
  OBVIOUS
<1>2. Len(s) \in Nat
  OBVIOUS
<1> QED
  BY <1>1, <1>2, ConcatProperties

LEMMA SaysFirst ==
  ASSUME NEW c
  PROVE  <<>> \o <<c>> = <<c>>
  BY <<c>> \in Seq({c}), ConcatEmptySeq

\* The lines, and an ACK, the device says.
LEMMA LineTokens ==
  ASSUME NEW k \in Lines \cup {"ack"}
  PROVE  Line(k) \in HostTokens /\ Line(k).t = k
  BY DEF Line, Tok, HostTokens

LEMMA NoOk ==
  ASSUME NEW c \in HostTokens, c.t # "OK"
  PROVE  c \in HostTokens \ Saying({"OK"})
  BY DEF Saying

\* receiveFile() reads the chunk the host has sent it.
LEMMA ChunkAnswers == ASSUME Here, Chunk PROVE StepInv'
<1>1. /\ toDev # <<>> /\ toDev' = Tail(toDev) /\ dev.pc \in {"chunk", "part"}
      /\ UNCHANGED <<card, host, slow>>
  BY DEF Chunk, DevTurns, DevTakes
<1>2. /\ Uploading /\ dev.pc = "chunk" /\ host.pc = "ack" /\ Len(dev.file) = host.n - 1 /\ toHost = <<>>
      /\ \E v \in Chunks \cup {Mangled} :
           toDev = <<Tok("data", v)>> /\ (fault = "none" => v = host.file[host.n])
  BY <1>1 DEF Here, StepInv, Idle, Asked, Uploading, Uploaded, UploadLost, Removing, Listing,
              Downloading, Agreed, AtFirst, FirstTryLost, SecondTryLost, NoneToSend
<1>3. PICK v \in Chunks \cup {Mangled} :
        toDev = <<Tok("data", v)>> /\ (fault = "none" => v = host.file[host.n])
  BY <1>2
<1>4. Head(toDev) = Tok("data", v) /\ toDev' = <<>>
  BY <1>1, <1>3
<1>5. Head(toDev).t = "data" /\ Head(toDev).v = v
  BY <1>4 DEF Tok
<1>6. dev.file \in Seq(Chunks \cup {Mangled}) /\ dev.path = host.as /\ dev.n = Len(host.file) /\ AsSent
  BY <1>2 DEF Here, IInv, DevInv, Uploading
<1>7. CASE /\ dev' = Receiving(dev.path, Append(dev.file, v), dev.n) /\ UNCHANGED fault
           /\ toHost' = toHost \o <<Line("ack")>>
  <2> DEFINE g == Append(dev.file, v)
  <2>0. host.n \in Nat
    BY <1>2, FileTokens DEF Here, IInv, HostInv, Uploading
  <2>1. /\ Len(g) = host.n /\ Len(g) = Len(dev.file) + 1 /\ Len(dev.file) \in Nat
        /\ \A i \in 1 .. Len(dev.file) : g[i] = dev.file[i]
        /\ g[host.n] = v
    BY <1>2, <1>6, <2>0
  <2>2. /\ dev'.file = g /\ dev'.path = dev.path /\ dev'.n = dev.n
        /\ dev'.pc = (IF Len(g) = dev.n THEN "crc" ELSE "chunk")
    BY <1>7 DEF Receiving
  <2>3. fault' = "none" => \A i \in 1 .. Len(g) : g[i] = host.file[i]
    <3> SUFFICES ASSUME fault = "none", NEW i \in 1 .. Len(g) PROVE g[i] = host.file[i]
      BY <1>7
    <3>1. CASE i = host.n
      BY <3>1, <2>1, <1>3
    <3>2. CASE i # host.n
      <4>1. i \in 1 .. Len(dev.file)
        BY <3>2, <2>1
      <4> QED
        BY <4>1, <2>1, <1>6 DEF AsSent
    <3> QED
      BY <3>1, <3>2
  <2>4. toHost' = <<Line("ack")>>
    BY <1>2, <1>7, SaysFirst
  <2> HIDE DEF g
  <2>5. AsSent'
    BY <2>2, <2>3, <1>1 DEF AsSent
  <2>6. Uploading'
    BY <1>1, <1>2, <1>4, <1>6, <2>1, <2>2, <2>4, <2>5 DEF Uploading
  <2>7. SendInv'
    BY <1>1, <1>2, <1>7, <2>2, SendKept DEF Here, StepInv, OneFault, Named
  <2> QED
    BY <2>6, <2>7 DEF StepInv
<1>8. CASE Refuse /\ Fault("card")
  <2>1. toHost' = <<Line("ERR")>> /\ dev' = Polling /\ fault' = "card" /\ fault = "none"
    BY <1>8, <1>2, SaysFirst DEF Refuse, DevSays, BackToPoll, Fault
  <2>2. Line("ERR") \in HostTokens \ Saying({"OK"})
    BY LineTokens, NoOk DEF Lines
  <2>3. UploadLost'
    BY <1>1, <1>2, <1>4, <2>1, <2>2 DEF Uploading, UploadLost, Polling
  <2>4. SendInv'
    BY <1>1, <2>1, SendKept DEF Here, StepInv, OneFault, Named, Polling
  <2> QED
    BY <2>3, <2>4 DEF StepInv
<1> QED
  BY <1>2, <1>5, <1>7, <1>8 DEF Chunk, DevSays, NoFault

\* Without a fault, what has come whole is the file.
LEMMA WholeIsFile ==
  ASSUME Here, Uploading, dev.pc = "crc"
  PROVE  /\ fault = "none" => dev.file = host.file
         /\ dev.file # Mangled
<1>1. /\ dev.file \in Seq(Chunks \cup {Mangled}) /\ host.file \in Files /\ Len(dev.file) = Len(host.file)
      /\ fault = "none" => \A i \in 1 .. Len(dev.file) : dev.file[i] = host.file[i]
  BY DEF Here, IInv, DevInv, HostInv, Uploading, AsSent
<1>2. host.file \in Seq(Chunks \cup {Mangled})
  BY <1>1, FileTokens, SeqMonotonic, Chunks \subseteq Chunks \cup {Mangled}
<1> QED
  BY <1>1, <1>2, SeqEqual, FilesAssumption

\* The CRC is the file's, or was mangled: then it is no file's.
LEMMA CrcAnswers == ASSUME Here, Crc PROVE StepInv'
<1>1. /\ toDev # <<>> /\ toDev' = Tail(toDev) /\ dev.pc = "crc" /\ dev' = Polling
      /\ UNCHANGED <<host, slow>>
  BY DEF Crc, DevTurns, DevTakes, BackToPoll
<1>2. /\ Uploading /\ host.pc = "answer" /\ toHost = <<>>
      /\ \E v \in {host.file, Mangled} :
           toDev = <<Tok("crc", v)>> /\ (fault = "none" => v = host.file)
  <2>1. Uploading
    BY <1>1 DEF Here, StepInv, Idle, Asked, Uploaded, UploadLost, Removing, Listing,
                Downloading, Agreed, AtFirst, FirstTryLost, SecondTryLost, NoneToSend
  <2>2. Len(dev.file) = Len(host.file) /\ host.n \in 0 .. Len(host.file) /\ Len(host.file) \in Nat
    BY <1>1, <2>1, FileTokens DEF Here, IInv, HostInv, Uploading
  <2>3. Len(dev.file) # host.n - 1
    BY <2>2
  <2> QED
    BY <1>1, <2>1, <2>3 DEF Uploading
<1>3. PICK v \in {host.file, Mangled} :
        toDev = <<Tok("crc", v)>> /\ (fault = "none" => v = host.file)
  BY <1>2
<1>4. Head(toDev) = Tok("crc", v) /\ toDev' = <<>>
  BY <1>1, <1>3
<1>5. Head(toDev).t = "crc" /\ Head(toDev).v = v
  BY <1>4 DEF Tok
<1>6. (fault = "none" => dev.file = host.file) /\ dev.file # Mangled
  BY <1>1, <1>2, WholeIsFile
<1>7. host.op = "put" /\ dev.path = host.as /\ host.as \in Paths /\ card \in [Paths -> Files \cup {None}]
  BY <1>2 DEF Here, IInv, HostInv, CardInv, Uploading
<1>8. SendInv'
  BY <1>1, <1>7 DEF Here, StepInv, SendInv, Polling
<1>9. CASE v = dev.file /\ FileEnd
  <2>1. v = host.file
    BY <1>3, <1>6, <1>9
  <2>2. toHost' = <<Line("OK")>>
    BY <1>2, <1>9, SaysFirst DEF FileEnd, DevSays
  <2>3. card'[host.as] = host.file \/ fault' = "unsaved"
    BY <1>7, <1>9, <2>1 DEF FileEnd, Fault
  <2>4. Uploaded'
    BY <1>1, <1>2, <1>4, <1>7, <2>2, <2>3 DEF Uploaded, Polling, Named
  <2> QED
    BY <1>8, <2>4 DEF StepInv
<1>10. CASE v # dev.file /\ DevSays(<<Line("ERR")>>) /\ UNCHANGED <<card, fault>>
  <2>1. fault # "none"
    BY <1>3, <1>6, <1>10
  <2>2. toHost' = <<Line("ERR")>>
    BY <1>2, <1>10, SaysFirst DEF DevSays
  <2>3. Line("ERR") \in HostTokens \ Saying({"OK"})
    BY LineTokens, NoOk DEF Lines
  <2>4. UploadLost'
    BY <1>1, <1>2, <1>4, <1>7, <1>10, <2>1, <2>2, <2>3 DEF UploadLost, Polling
  <2> QED
    BY <1>8, <2>4 DEF StepInv
<1> QED
  BY <1>5, <1>9, <1>10 DEF Crc

LEMMA SaysThree ==
  ASSUME NEW S, NEW s \in Seq(S), NEW a \in S, NEW b \in S, NEW c \in S
  PROVE  /\ s \o <<a, b, c>> \in Seq(S) /\ Len(s \o <<a, b, c>>) = Len(s) + 3 /\ Len(s) \in Nat
         /\ \A i \in 1 .. Len(s) : (s \o <<a, b, c>>)[i] = s[i]
         /\ (s \o <<a, b, c>>)[Len(s) + 1] = a /\ (s \o <<a, b, c>>)[Len(s) + 2] = b
         /\ (s \o <<a, b, c>>)[Len(s) + 3] = c
<1> DEFINE t == <<a, b, c>>
<1>1. t \in Seq(S) /\ Len(t) = 3 /\ t[1] = a /\ t[2] = b /\ t[3] = c
  OBVIOUS
<1>2. Len(s) \in Nat
  OBVIOUS
<1> HIDE DEF t
<1>5. /\ s \o t \in Seq(S) /\ Len(s \o t) = Len(s) + Len(t)
      /\ \A i \in 1 .. Len(s) + Len(t) : (s \o t)[i] = IF i <= Len(s) THEN s[i] ELSE t[i - Len(s)]
  BY <1>1, ConcatProperties
<1>3. /\ s \o t \in Seq(S) /\ Len(s \o t) = Len(s) + 3
      /\ \A i \in 1 .. Len(s) + 3 : (s \o t)[i] = IF i <= Len(s) THEN s[i] ELSE t[i - Len(s)]
  BY <1>1, <1>5
<1>4. /\ (s \o t)[Len(s) + 1] = t[1] /\ (s \o t)[Len(s) + 2] = t[2] /\ (s \o t)[Len(s) + 3] = t[3]
      /\ \A i \in 1 .. Len(s) : (s \o t)[i] = s[i]
  BY <1>2, <1>3
<1> QED
  BY <1>1, <1>2, <1>3, <1>4 DEF t

LEMMA AppendThird ==
  ASSUME NEW a, NEW b, NEW c
  PROVE  Append(<<a, b>>, c) = <<a, b, c>>
<1> DEFINE S == {a, b, c}
<1>1. <<a, b>> \in Seq(S) /\ Len(<<a, b>>) = 2 /\ <<a, b>>[1] = a /\ <<a, b>>[2] = b /\ c \in S
  OBVIOUS
<1>2. <<a, b, c>> \in Seq(S) /\ Len(<<a, b, c>>) = 3 /\ <<a, b, c>>[1] = a /\ <<a, b, c>>[2] = b /\ <<a, b, c>>[3] = c
  OBVIOUS
<1> HIDE DEF S
<1>3. /\ Append(<<a, b>>, c) \in Seq(S) /\ Len(Append(<<a, b>>, c)) = 3
      /\ \A i \in 1 .. 3 : Append(<<a, b>>, c)[i] = <<a, b, c>>[i]
  BY <1>1, <1>2, AppendProperties
<1> QED
  BY <1>2, <1>3, SeqEqual

\* The request that a poll finds is the host's, which then waits for its answer.
LEMMA PollFinds ==
  ASSUME Here, toDev # <<>>, Head(toDev).t \in Headers, dev.pc = "poll"
  PROVE  /\ Asked /\ Tail(toDev) = <<>>
         /\ \/ Head(toDev) = Request
            \/ /\ Head(toDev) = MangledTok(Request) /\ host.op # "books" /\ fault = "mangled"
               /\ host.op = "get" /\ Named # None => host.tries = 1
<1>1. toDev \notin Seq(Leftover)
  BY LeftoverTail
<1>2. Asked
  BY <1>1 DEF Here, StepInv, Idle, Uploading, Uploaded, UploadLost, Removing, Listing,
              Downloading, Agreed, AtFirst, FirstTryLost, SecondTryLost, NoneToSend, Line, Tok
<1>3. toDev \in Seq(DevTokens)
  BY DEF Here, IInv, LinkInv
<1> QED
  BY <1>2, <1>3, SentHead DEF Asked

\* What the request says: the name, or that it is no name.
LEMMA RequestIs ==
  ASSUME Here, host.op \in {"put", "get", "rm", "books"}
  PROVE  /\ Request.t = host.op
         /\ host.op # "books" => MangledTok(Request).t = host.op
         /\ host.op = "put" => /\ Request.v.path = host.as /\ Request.v.n = Len(host.file)
                               /\ MangledTok(Request).v.path = Mangled
         /\ host.op \in {"get", "rm"} => /\ Request.v = host.as
                                         /\ MangledTok(Request).v = Mangled
         /\ host.op # "books" => host.as \in Paths /\ host.as # Mangled
<1>1. host.op # "books" => host.as \in Paths /\ host.as # Mangled
  BY FilesAssumption DEF Here, IInv, HostInv
<1>2. CASE host.op = "put"
  BY <1>1, <1>2 DEF Request, MangledTok, Renamed, Tok
<1>3. CASE host.op \in {"get", "rm"}
  BY <1>1, <1>3 DEF Request, MangledTok, Renamed, Tok
<1>4. CASE host.op = "books"
  BY <1>4 DEF Request, Tok
<1> QED
  BY <1>1, <1>2, <1>3, <1>4

\* What a poll's step leaves.
Polls(c) ==
  /\ Here /\ Asked /\ dev.pc = "poll" /\ toDev' = <<>> /\ UNCHANGED <<host, slow>>
  /\ \/ c = Request
     \/ /\ c = MangledTok(Request) /\ host.op # "books" /\ fault = "mangled"
        /\ host.op = "get" /\ Named # None => host.tries = 1

LEMMA PollWrites == ASSUME NEW c, Polls(c), c.t = "put", HandleWrite(c.v.path, c.v.n) PROVE StepInv'
<1>1. host.op = "put"
  BY RequestIs DEF Polls, Asked
<1>2. host.pc = "ready" /\ toHost = <<>>
  BY <1>1 DEF Polls, Asked, Asking, Overlap
<1>3. CASE Refuse /\ (Fault("card") \/ (NoFault /\ c.v.path = Mangled))
  <2>1. toHost' = <<Line("ERR")>> /\ dev' = Polling /\ UNCHANGED card
    BY <1>2, <1>3, SaysFirst DEF Refuse, DevSays, BackToPoll
  <2>2. fault' # "none" /\ OneFault
    BY <1>1, <1>3, RequestIs DEF Fault, NoFault, Polls, OneFault
  <2>3. Line("ERR") \in HostTokens \ Saying({"OK"})
    BY LineTokens, NoOk DEF Lines
  <2>4. UploadLost'
    BY <1>1, <1>2, <2>1, <2>2, <2>3 DEF UploadLost, Polls, Polling
  <2>5. SendInv'
    BY <2>1, <2>2, SendKept DEF Polls, Here, StepInv, Named, Polling
  <2> QED
    BY <2>4, <2>5 DEF StepInv
<1>4. CASE /\ c.v.path # Mangled /\ NoFault /\ DevSays(<<Line("READY")>>)
           /\ dev' = Receiving(c.v.path, <<>>, c.v.n) /\ UNCHANGED card
  <2>1. c.v.path = host.as /\ c.v.n = Len(host.file)
    BY <1>1, <1>4, RequestIs DEF Polls
  <2>2. /\ dev'.path = host.as /\ dev'.n = Len(host.file) /\ dev'.file = <<>> /\ Len(dev'.file) = 0
        /\ dev'.pc = IF Len(dev'.file) = dev'.n THEN "crc" ELSE "chunk"
    BY <1>4, <2>1 DEF Receiving
  <2>3. toHost' = <<Line("READY")>>
    BY <1>2, <1>4, SaysFirst DEF DevSays
  <2>4. AsSent'
    BY <2>2 DEF AsSent
  <2>5. Uploading'
    BY <1>1, <1>2, <2>2, <2>3, <2>4 DEF Uploading, Polls
  <2>6. SendInv'
    BY <1>4, <2>2, SendKept DEF Polls, Here, StepInv, Named, OneFault, NoFault
  <2> QED
    BY <2>5, <2>6 DEF StepInv
<1>5. \/ Refuse /\ (Fault("card") \/ (NoFault /\ c.v.path = Mangled))
      \/ /\ c.v.path # Mangled /\ NoFault /\ DevSays(<<Line("READY")>>)
         /\ dev' = Receiving(c.v.path, <<>>, c.v.n) /\ UNCHANGED card
  BY DEF HandleWrite
<1> QED
  BY <1>3, <1>4, <1>5

LEMMA PollRemoves == ASSUME NEW c, Polls(c), c.t = "rm", HandleRemove(c.v) PROVE StepInv'
<1>1. host.op = "rm"
  BY RequestIs DEF Polls, Asked
<1>2. host.pc = "answer" /\ toHost = <<>>
  BY <1>1 DEF Polls, Asked, Asking, Overlap
<1>3. CASE Refuse
  <2>1. toHost' = <<Line("ERR")>> /\ dev' = Polling
    BY <1>2, <1>3, SaysFirst DEF Refuse, DevSays, BackToPoll
  <2>2. Line("ERR") \in HostTokens \ Saying({"OK"})
    BY LineTokens, NoOk DEF Lines
  <2>3. Removing'
    BY <1>1, <1>2, <2>1, <2>2 DEF Removing, Polls, Polling
  <2>4. SendInv'
    BY <1>1, <2>1 DEF SendInv, Polls, Polling
  <2> QED
    BY <2>3, <2>4 DEF StepInv
<1>4. CASE ~NoSuchFile(c.v) /\ card' = [card EXCEPT ![c.v] = None] /\ DevSays(<<Line("OK")>>) /\ BackToPoll
  <2>1. c.v = host.as /\ host.as \in Paths
    BY <1>1, <1>4, RequestIs DEF Polls, NoSuchFile
  <2>2. card'[host.as] = None
    BY <1>4, <2>1 DEF Polls, Here, IInv, CardInv
  <2>3. toHost' = <<Line("OK")>> /\ dev' = Polling
    BY <1>2, <1>4, SaysFirst DEF DevSays, BackToPoll
  <2>4. Line("OK") \in HostTokens
    BY LineTokens DEF Lines
  <2>5. Removing'
    BY <1>1, <1>2, <2>2, <2>3, <2>4 DEF Removing, Polls, Polling, Named
  <2>6. SendInv'
    BY <1>1, <2>3 DEF SendInv, Polls, Polling
  <2> QED
    BY <2>5, <2>6 DEF StepInv
<1> QED
  BY <1>3, <1>4 DEF HandleRemove

LEMMA PollLists == ASSUME NEW c, Polls(c), c.t = "books", HandleBooks PROVE StepInv'
<1>1. host.op = "books"
  BY RequestIs DEF Polls, Asked
<1>2. host.pc = "answer" /\ toHost = <<>>
  BY <1>1 DEF Polls, Asked, Asking, Overlap
<1>3. Listing'
  BY <1>1, <1>2 DEF Listing, Polls, HandleBooks, Polling
<1>4. SendInv'
  BY <1>1 DEF SendInv, Polls, HandleBooks, Polling
<1> QED
  BY <1>3, <1>4 DEF StepInv

\* A file's size, its first chunk and its CRC are tokens of the stream.
LEMMA SendTokens ==
  ASSUME NEW f \in Files
  PROVE  /\ Len(f) \in Nat
         /\ Tok("size", Len(f)) \in HostTokens /\ Tok("crc", f) \in HostTokens
         /\ \A i \in 1 .. Len(f) : Tok("data", f[i]) \in HostTokens
<1>1. Len(f) \in Nat /\ f \in Seq(Chunks)
  BY FileTokens
<1>2. \A i \in 1 .. Len(f) : f[i] \in Chunks
  BY <1>1
<1> QED
  BY <1>1, <1>2 DEF Tok, HostTokens

LEMMA WordlessIs ==
  /\ \A s \in Seq(Wordless) : s \in Seq(HostTokens) /\ \A i \in 1 .. Len(s) : s[i] \in Wordless
  /\ <<>> \in Seq(HostTokens) /\ \A i \in 1 .. Len(<<>>) : <<>>[i] \in Wordless
<1>1. Wordless \subseteq HostTokens
  BY DEF Wordless, Saying
<1>2. \A s \in Seq(Wordless) : s \in Seq(HostTokens)
  BY <1>1, SeqMonotonic
<1>3. \A s \in Seq(Wordless) : \A i \in 1 .. Len(s) : s[i] \in Wordless
  BY ElementOfSeq
<1>4. <<>> \in Seq(HostTokens) /\ Len(<<>>) = 0
  BY EmptySeq
<1> QED
  BY <1>2, <1>3, <1>4

\* Where both are as long as nothing has gone wrong.
LEMMA FaultRules ==
  ASSUME Here, fault = "none"
  PROVE  /\ ~UploadLost /\ ~FirstTryLost /\ ~SecondTryLost
         /\ Asked => dev.pc = "poll" /\ toHost = <<>> /\ Sent(toDev, Request)
         /\ host.op = "get" /\ Named # None /\ host.pc # "idle" => host.tries = 1
<1>1. host.op = "get" => host.tries \in Nat
  BY TriesAssumption DEF Here, IInv, HostInv
<1>2. host.op = "get" /\ Named # None /\ host.pc # "idle" => host.tries = 1
  BY <1>1 DEF Here, StepInv, SendInv, Again
<1>3. ~UploadLost /\ ~FirstTryLost /\ ~SecondTryLost
  BY <1>2 DEF UploadLost, FirstTryLost, SecondTryLost, Overlap
<1>4. Asked => host.pc # "idle"
  BY DEF Asked, Asking
<1> QED
  BY <1>2, <1>3, <1>4 DEF Asked, Overlap

LEMMA PollSends == ASSUME NEW c, Polls(c), c.t = "get", HandleDownload(c.v) PROVE StepInv'
<1>1. host.op = "get" /\ host.tries \in Nat \ {0} /\ host.as \in Paths /\ host.file = <<>>
  <2>1. Here /\ Asked /\ host.op = "get"
    BY RequestIs DEF Polls, Asked
  <2>2. host.tries \in 0 .. Tries /\ host.tries >= 1 /\ host.as \in Paths
    BY <2>1 DEF Here, IInv, HostInv, StepInv, SendInv
  <2> QED
    BY <2>1, <2>2, TriesAssumption DEF Asked
<1>2. host.pc = "ready" /\ (toHost = <<>> \/ (Overlap /\ toHost \in Seq(Wordless)))
  BY <1>1 DEF Polls, Asked, Asking
<1>3. Named # None => Named \in Files
  BY <1>1 DEF Polls, Here, IInv, CardInv, Named
<1>4. CASE Refuse /\ (Fault("card") \/ (NoFault /\ NoSuchFile(c.v)))
  <2>1. dev' = Polling /\ UNCHANGED card /\ toHost' = toHost \o <<Line("ERR")>> /\ OneFault
    BY <1>4 DEF Refuse, BackToPoll, DevSays, OneFault, Fault, NoFault
  <2>2. SendInv' /\ Named' = Named
    BY <2>1, SendKept DEF Polls, Here, StepInv, Named, Polling
  <2>3. Line("ERR") \in HostTokens /\ Line("ERR") \in Saying({"ERR"}) /\ Line("ERR").t = "ERR"
    BY LineTokens DEF Lines, Saying
  <2>4. CASE Named = None
    <3>1. toHost' = <<Line("ERR")>>
      BY <1>2, <2>1, <2>4, SaysFirst DEF Overlap
    <3>2. toHost' \in Seq(Saying({"ERR"})) /\ toDev' \in Seq(Leftover) /\ dev'.pc = "poll"
      <4>1. <<Line("ERR")>> \in Seq(Saying({"ERR"}))
        BY <2>3
      <4>2. toDev' \in Seq(Leftover) /\ dev'.pc = "poll"
        BY <2>1, EmptySeq DEF Polls, Polling
      <4> QED
        BY <3>1, <4>1, <4>2
    <3>3. host' = host
      BY DEF Polls
    <3>4. NoneToSend'
      BY <1>1, <1>2, <2>2, <2>4, <3>2, <3>3 DEF NoneToSend
    <3> QED
      BY <2>2, <3>4 DEF StepInv
  <2>5. CASE Named # None
    <3>1. host.tries = 1 /\ fault' \notin {"none", "misnamed"}
      <4>1. CASE Fault("card")
        <5>1. fault = "none" /\ fault' = "card" /\ Here
          BY <4>1 DEF Fault, Polls
        <5> QED
          BY <1>1, <1>2, <2>5, <5>1, FaultRules
      <4>2. CASE NoFault /\ NoSuchFile(c.v)
        <5>1. Here /\ Request.v = host.as /\ host.as # Mangled /\ fault' = fault
          BY <1>1, <4>2, RequestIs DEF NoFault, Polls
        <5>2. c # Request
          BY <2>5, <4>2, <5>1 DEF NoSuchFile, Named
        <5>3. fault = "mangled" /\ host.tries = 1
          BY <1>1, <2>5, <5>2 DEF Polls
        <5> QED
          BY <5>1, <5>3
      <4> QED
        BY <1>4, <4>1, <4>2
    <3>2. toHost' = <<Line("ERR")>>
      BY <1>2, <2>1, <3>1, SaysFirst DEF Overlap
    <3>3. toHost' \in Seq(HostTokens) /\ \A i \in 1 .. Len(toHost') : toHost'[i].t # "crc"
      BY <2>3, <3>2
    <3>4. FirstTryLost'
      BY <1>1, <1>2, <2>1, <2>2, <2>5, <3>1, <3>3 DEF FirstTryLost, Polls, Polling
    <3> QED
      BY <2>2, <3>4 DEF StepInv
  <2> QED
    BY <2>4, <2>5
<1>5. CASE /\ ~NoSuchFile(c.v) /\ NoFault /\ UNCHANGED card
           /\ Sends(<<Line("READY"), Tok("size", Len(card[c.v]))>>, c.v, card[c.v], 0)
  <2>1. c.v = host.as /\ Named # None /\ card[c.v] = Named
    BY <1>1, <1>5, RequestIs DEF Polls, NoSuchFile, Named
  <2>2. Named' = Named /\ Named \in Files /\ UNCHANGED <<fault, host, slow>> /\ Again
    BY <1>1, <1>3, <1>5, <2>1 DEF Named, NoFault, Polls, Asked, Here, StepInv, SendInv, Asking
  <2>3. PICK last \in HostTokens :
          /\ toHost' = toHost \o <<Line("READY"), Tok("size", Len(Named)), last>>
          /\ IF Len(Named) = 0 THEN last = Tok("crc", Named) /\ dev'.pc = "poll"
             ELSE last = Tok("data", Named[1]) /\ dev'.pc = "ack" /\ dev'.n = 1 /\ dev'.file = Named
    <3>1. CASE Len(Named) = 0
      <4>1. toHost' = toHost \o <<Line("READY"), Tok("size", Len(Named)), Tok("crc", Named)>> /\ dev'.pc = "poll"
        BY <1>5, <2>1, <3>1 DEF Sends, DevSays, BackToPoll, Polling
      <4> QED
        BY <2>2, <3>1, <4>1, SendTokens
    <3>2. CASE Len(Named) # 0
      <4>1. /\ toHost' = toHost \o <<Line("READY"), Tok("size", Len(Named)), Tok("data", Named[1])>>
            /\ dev'.pc = "ack" /\ dev'.n = 1 /\ dev'.file = Named
        BY <1>5, <2>1, <3>2, AppendThird, 0 + 1 = 1 DEF Sends, DevSays
      <4>2. 1 \in 1 .. Len(Named)
        BY <2>2, <3>2, SendTokens
      <4> QED
        BY <2>2, <3>2, <4>1, <4>2, SendTokens
    <3> QED
      BY <3>1, <3>2
  <2>4. Line("READY") \in HostTokens /\ Tok("size", Len(Named)) \in HostTokens
    BY <2>2, SendTokens, LineTokens DEF Lines
  <2>5. toHost \in Seq(HostTokens) /\ \A i \in 1 .. Len(toHost) : toHost[i] \in Wordless
    BY <1>2, WordlessIs
  <2>6. /\ toHost' \in Seq(HostTokens)
        /\ Len(toHost') = Len(toHost) + 3 /\ Len(toHost) \in Nat
        /\ \A i \in 1 .. Len(toHost) : toHost'[i] = toHost[i]
        /\ toHost'[Len(toHost) + 1] = Line("READY") /\ toHost'[Len(toHost) + 2] = Tok("size", Len(Named))
        /\ toHost'[Len(toHost) + 3] = last
    BY <2>3, <2>4, <2>5, SaysThree
  <2>7. Len(toHost) > 0 => host.tries = 2
    BY <1>2 DEF Overlap
  <2>8. AtFirst(last)'
    BY <2>2, <2>3 DEF AtFirst
  <2>9. Downloading'
    BY <1>1, <1>2, <2>1, <2>2, <2>5, <2>6, <2>7, <2>8 DEF Downloading, Polls, Again
  <2>10. Len(Named) # 0 => 1 \in 1 .. Len(Named)
    BY <2>2, SendTokens
  <2>11. SendInv'
    BY <1>1, <1>2, <2>1, <2>2, <2>3, <2>10 DEF SendInv, Polls, Here, StepInv, Again
  <2> QED
    BY <2>9, <2>11 DEF StepInv
<1>6. \/ Refuse /\ (Fault("card") \/ (NoFault /\ NoSuchFile(c.v)))
      \/ /\ ~NoSuchFile(c.v) /\ NoFault /\ UNCHANGED card
         /\ Sends(<<Line("READY"), Tok("size", Len(card[c.v]))>>, c.v, card[c.v], 0)
  BY DEF HandleDownload
<1> QED
  BY <1>4, <1>5, <1>6

LEMMA PollAnswers == ASSUME Here, Poll PROVE StepInv'
<1> DEFINE c == Head(toDev)
<1>1. /\ toDev # <<>> /\ toDev' = Tail(toDev) /\ dev.pc = "poll" /\ c.t \in Headers
      /\ UNCHANGED <<host, slow>>
  BY DEF Poll, DevTurns, DevTakes, Headers
<1>2. Polls(c)
  BY <1>1, PollFinds DEF Polls
<1> HIDE DEF c
<1> QED
  BY <1>2, PollWrites, PollRemoves, PollLists, PollSends DEF Poll, c

\* What a device at an ACK sends, of which file, and to whom.
LEMMA SenderIs ==
  ASSUME Here, dev.pc = "ack"
  PROVE  /\ host.op = "get" /\ host.pc # "idle" /\ Named # None /\ Named \in Files /\ host.as \in Paths
         /\ dev.file = Named /\ dev.n \in 1 .. Len(Named) /\ Len(Named) \in Nat
         /\ host.tries \in Nat \ {0} /\ Again
<1>1. /\ SendInv /\ host.op = "get" /\ host.pc # "idle" /\ Named # None
      /\ dev.file = Named /\ dev.n \in 1 .. Len(Named)
  BY DEF Here, StepInv, SendInv
<1>2. host.as \in Paths /\ host.tries \in Nat
  BY <1>1, TriesAssumption DEF Here, IInv, HostInv
<1>3. Named \in Files
  BY <1>1, <1>2 DEF Here, IInv, CardInv, Named
<1> QED
  BY <1>1, <1>2, <1>3, FileTokens DEF SendInv

\* The next chunk or the CRC goes out.
SendsOn(c) ==
  /\ c \in Wordless /\ toHost' = toHost \o <<c>>
  /\ IF dev.n = Len(Named) THEN c = Tok("crc", Named) /\ dev' = Polling
     ELSE c = Tok("data", Named[dev.n + 1]) /\ dev'.pc = "ack" /\ dev'.file = Named /\ dev'.n = dev.n + 1

LEMMA SendsNext ==
  ASSUME Here, dev.pc = "ack", Sends(<<>>, dev.path, dev.file, dev.n)
  PROVE  \E c : SendsOn(c)
<1>1. Named \in Files /\ dev.file = Named /\ dev.n \in 1 .. Len(Named) /\ Len(Named) \in Nat
  BY SenderIs
<1>2. \A c : Append(<<>>, c) = <<c>>
  OBVIOUS
<1>3. CASE dev.n = Len(Named)
  <2>1. toHost' = toHost \o <<Tok("crc", Named)>> /\ dev' = Polling
    BY <1>1, <1>2, <1>3 DEF Sends, DevSays, BackToPoll
  <2>2. Tok("crc", Named) \in Wordless
    BY <1>1, SendTokens DEF Wordless, Saying, Tok
  <2> QED
    BY <1>3, <2>1, <2>2 DEF SendsOn
<1>4. CASE dev.n # Len(Named)
  <2>1. /\ toHost' = toHost \o <<Tok("data", Named[dev.n + 1])>>
        /\ dev'.pc = "ack" /\ dev'.file = Named /\ dev'.n = dev.n + 1
    BY <1>1, <1>2, <1>4 DEF Sends, DevSays
  <2>2. dev.n + 1 \in 1 .. Len(Named)
    BY <1>1, <1>4
  <2>3. Tok("data", Named[dev.n + 1]) \in Wordless
    BY <1>1, <2>2, SendTokens DEF Wordless, Saying, Tok
  <2> QED
    BY <1>4, <2>1, <2>3 DEF SendsOn
<1> QED
  BY <1>3, <1>4

LEMMA AckedSends ==
  ASSUME Here, dev.pc = "ack", NEW c, SendsOn(c), UNCHANGED <<host, slow, card, fault>>
  PROVE  SendInv' /\ Named' = Named
<1>1. Named' = Named /\ Again'
  BY SenderIs DEF Named, Again
<1>2. CASE dev.n = Len(Named)
  BY <1>1, <1>2, SendKept DEF SendsOn, Here, StepInv, OneFault, Polling
<1>3. CASE dev.n # Len(Named)
  <2>1. dev.n + 1 \in 1 .. Len(Named)
    BY <1>3, SenderIs
  <2> QED
    BY <1>1, <1>3, <2>1, SenderIs DEF SendsOn, Here, StepInv, SendInv
<1> QED
  BY <1>2, <1>3

\* In step, the ACK is of the chunk the host has, and the next one goes out.
LEMMA AckInStep ==
  ASSUME Here, dev.pc = "ack", Downloading, toDev # <<>>, toDev' = Tail(toDev),
         NEW c, SendsOn(c), UNCHANGED <<host, slow, card, fault>>
  PROVE  Downloading'
<1>1. /\ host.op = "get" /\ Again /\ Agreed /\ dev.n = Len(host.file)
      /\ toDev = <<Line("ack")>> /\ toHost = <<>> /\ Named # None
  BY DEF Downloading
<1>2. toDev' = <<>> /\ toHost' = <<c>> /\ toHost' \in Seq(HostTokens)
  <2>1. toHost' = <<c>> /\ c \in HostTokens
    BY <1>1, SaysFirst DEF SendsOn, Wordless, Saying
  <2> QED
    BY <1>1, <2>1
<1>3. Named' = Named /\ host' = host
  BY DEF Named
<1>4. Agreed' /\ Again'
  BY <1>1, <1>3 DEF Agreed, Again
<1>5. CASE dev.n = Len(Named)
  <2>1. host.pc = "crc" /\ dev'.pc = "poll" /\ c = Tok("crc", Named)
    BY <1>1, <1>5 DEF Agreed, SendsOn, Polling
  <2> QED
    BY <1>1, <1>2, <1>3, <1>4, <2>1 DEF Downloading
<1>6. CASE dev.n # Len(Named)
  <2>1. host.pc = "data" /\ dev'.pc = "ack" /\ dev'.n = Len(host.file) + 1 /\ c = Tok("data", Named[dev'.n])
    BY <1>1, <1>6 DEF Agreed, SendsOn
  <2> QED
    BY <1>1, <1>2, <1>3, <1>4, <2>1 DEF Downloading
<1> QED
  BY <1>5, <1>6

LEMMA FirstTrySays ==
  ASSUME Here, dev.pc = "ack", FirstTryLost, NEW c, SendsOn(c), toDev' \in Seq(Leftover),
         UNCHANGED <<host, slow, card, fault>>
  PROVE  FirstTryLost'
<1>1. c \in HostTokens /\ toHost \in Seq(HostTokens)
  BY DEF SendsOn, Wordless, Saying, FirstTryLost
<1>2. /\ toHost' \in Seq(HostTokens) /\ Len(toHost') = Len(toHost) + 1 /\ Len(toHost) \in Nat
      /\ \A i \in 1 .. Len(toHost) : toHost'[i] = toHost[i]
      /\ toHost'[Len(toHost) + 1] = c
  BY <1>1, SaysOne DEF SendsOn
<1>3. dev'.pc \in {"poll", "ack"}
  BY DEF SendsOn, Polling
<1>4. Named' = Named
  BY DEF Named
<1>5. ASSUME NEW i \in 1 .. Len(toHost'), toHost'[i].t = "crc"
      PROVE  toHost'[i].v \in {Named, Mangled} /\ dev'.pc = "poll"
  <2>1. i = Len(toHost) + 1
    <3> SUFFICES ASSUME i # Len(toHost) + 1 PROVE FALSE
      OBVIOUS
    <3>1. i \in 1 .. Len(toHost) /\ toHost[i].t = "crc"
      BY <1>2, <1>5
    <3> QED
      BY <3>1 DEF FirstTryLost
  <2>2. c.t = "crc"
    BY <1>2, <1>5, <2>1
  <2> QED
    BY <1>2, <2>1, <2>2 DEF SendsOn, Tok, Polling
<1> QED
  BY <1>2, <1>3, <1>4, <1>5 DEF FirstTryLost

\* The bytes of an earlier try, which the device takes for an ACK or for its end.
LEMMA AckedAnswers == ASSUME Here, Acked PROVE StepInv'
<1>1. /\ dev.pc = "ack" /\ toDev # <<>> /\ toDev' = Tail(toDev) /\ UNCHANGED <<card, host, slow>>
  BY DEF Acked, DevTurns, DevTakes
<1>2. /\ host.op = "get" /\ host.pc # "idle" /\ Named # None /\ Named' = Named
      /\ host.tries \in Nat \ {0} /\ Again
  BY <1>1, SenderIs DEF Named
<1>3. toDev \in Seq(DevTokens)
  BY DEF Here, IInv, LinkInv
<1>4. Asked \/ Downloading \/ FirstTryLost \/ SecondTryLost
  BY <1>1 DEF Here, StepInv, Idle, Uploading, Uploaded, UploadLost, Removing, Listing, NoneToSend
<1>5. CASE Head(toDev).t = "ack" /\ Sends(<<>>, dev.path, dev.file, dev.n) /\ UNCHANGED fault
  <2>1. PICK c : SendsOn(c)
    BY <1>1, <1>5, SendsNext
  <2>2. SendInv'
    BY <1>1, <1>5, <2>1, AckedSends
  <2>3. c \in Wordless /\ toHost' = toHost \o <<c>> /\ dev'.pc \in {"poll", "ack"}
    BY <2>1 DEF SendsOn, Polling
  <2>4. CASE Asked
    <3>1. Overlap /\ toHost \in Seq(Wordless) /\ toHost' \in Seq(Wordless)
      BY <1>1, <2>3, <2>4, SaysOne DEF Asked
    <3>2. Request.t = "get" /\ MangledTok(Request).t = "get"
      BY <1>2, RequestIs
    <3>3. Sent(toDev, Request) => Sent(toDev', Request)
      BY <1>1, <1>3, <1>5, <3>2, SentTail DEF Headers
    <3>4. Sent(toDev, MangledTok(Request)) => Sent(toDev', MangledTok(Request))
      BY <1>1, <1>3, <1>5, <3>2, SentTail DEF Headers
    <3>5. Asked'
      BY <1>1, <1>2, <1>5, <2>3, <2>4, <3>1, <3>3, <3>4, SameRequest DEF Asked, Overlap
    <3> QED
      BY <2>2, <3>5 DEF StepInv
  <2>5. CASE Downloading
    BY <1>1, <1>5, <2>1, <2>2, <2>5, AckInStep DEF StepInv
  <2>6. CASE FirstTryLost
    <3>1. toDev' \in Seq(Leftover)
      BY <1>1, <2>6, LeftoverTail DEF FirstTryLost
    <3> QED
      BY <1>1, <1>5, <2>1, <2>2, <2>6, <3>1, FirstTrySays DEF StepInv
  <2>7. CASE SecondTryLost
    <3>1. toDev' \in Seq(Leftover) /\ toHost' \in Seq(Wordless)
      BY <1>1, <2>3, <2>7, LeftoverTail, SaysOne DEF SecondTryLost
    <3>2. SecondTryLost'
      BY <1>1, <1>2, <1>5, <2>3, <2>7, <3>1 DEF SecondTryLost, Overlap, Again
    <3> QED
      BY <2>2, <3>2 DEF StepInv
  <2> QED
    BY <1>4, <2>4, <2>5, <2>6, <2>7
<1>6. CASE /\ dev' = Polling /\ UNCHANGED toHost
           /\ \/ Head(toDev).t # "ack" /\ UNCHANGED fault
              \/ Fault("card")
  <2>2. SendInv'
    BY <1>1, <1>2, <1>6, SendKept DEF Here, StepInv, OneFault, Fault, Polling
  <2>3. CASE Asked
    <3>1. Overlap /\ toHost \in Seq(Wordless)
      BY <1>1, <2>3 DEF Asked
    <3>2. fault # "none" /\ UNCHANGED fault /\ Head(toDev).t # "ack"
      BY <1>2, <1>6, <3>1 DEF Overlap, Again, Fault
    <3>3. ASSUME NEW c, Sent(toDev, c), c.t = "get" PROVE toDev' = <<>> \/ Sent(toDev', c)
      BY <1>1, <1>3, <3>3, SentRest
    <3>4. Request.t = "get" /\ MangledTok(Request).t = "get"
      BY <1>2, RequestIs
    <3>5. CASE toDev' = <<>>
      <4>1. SecondTryLost'
        <5>1. host.pc = "ready" /\ toDev' \in Seq(Leftover) /\ toHost' \in Seq(Wordless) /\ dev'.pc = "poll"
          BY <1>2, <1>6, <2>3, <3>1, <3>5, EmptySeq DEF Asked, Asking, Polling
        <5> QED
          BY <1>1, <1>2, <3>1, <3>2, <5>1 DEF SecondTryLost, Overlap, Again
      <4> QED
        BY <2>2, <4>1 DEF StepInv
    <3>6. CASE toDev' # <<>>
      <4>1. /\ Sent(toDev, Request) => Sent(toDev', Request)
            /\ Sent(toDev, MangledTok(Request)) => Sent(toDev', MangledTok(Request))
        BY <3>3, <3>4, <3>6
      <4>2. Asked'
        BY <1>1, <1>2, <1>6, <2>3, <3>1, <3>2, <4>1, SameRequest DEF Asked, Overlap, Polling
      <4> QED
        BY <2>2, <4>2 DEF StepInv
    <3> QED
      BY <3>5, <3>6
  <2>4. CASE Downloading
    <3>1. /\ Agreed /\ toDev = <<Line("ack")>> /\ toHost = <<>>
      BY <1>1, <2>4 DEF Downloading
    <3>2. Fault("card")
      BY <1>6, <3>1 DEF Line, Tok
    <3>3. host.tries = 1
      BY <1>2, <3>2 DEF Again, Fault
    <3>4. FirstTryLost'
      <4>1. toHost' \in Seq(HostTokens) /\ Len(toHost') = 0 /\ toDev' = <<>> /\ toDev' \in Seq(Leftover)
        BY <1>1, <1>6, <3>1, EmptySeq
      <4> QED
        BY <1>1, <1>2, <1>6, <3>1, <3>2, <3>3, <4>1 DEF FirstTryLost, Agreed, Fault, Polling
    <3> QED
      BY <2>2, <3>4 DEF StepInv
  <2>5. CASE FirstTryLost
    <3>1. toDev' \in Seq(Leftover)
      BY <1>1, <2>5, LeftoverTail DEF FirstTryLost
    <3>2. FirstTryLost'
      BY <1>1, <1>2, <1>6, <2>5, <3>1 DEF FirstTryLost, Fault, Polling
    <3> QED
      BY <2>2, <3>2 DEF StepInv
  <2>6. CASE SecondTryLost
    <3>1. toDev' \in Seq(Leftover)
      BY <1>1, <2>6, LeftoverTail DEF SecondTryLost
    <3>2. fault # "none" /\ UNCHANGED fault
      BY <1>6, <2>6 DEF SecondTryLost, Overlap, Again, Fault
    <3>3. SecondTryLost'
      BY <1>1, <1>2, <1>6, <2>6, <3>1, <3>2 DEF SecondTryLost, Overlap, Again, Polling
    <3> QED
      BY <2>2, <3>3 DEF StepInv
  <2> QED
    BY <1>4, <2>3, <2>4, <2>5, <2>6
<1> QED
  BY <1>5, <1>6 DEF Acked, BackToPoll, NoFault

\* In a download in step the CRC comes last, and from a device that is done.
LEMMA DownloadCrc ==
  ASSUME Here, Downloading, host.tries # 2
  PROVE  \A i \in 1 .. Len(toHost) : toHost[i].t = "crc" => toHost[i].v = Named /\ dev.pc = "poll"
<1>1. host.pc \in {"ready", "size", "data", "crc"}
  BY DEF Downloading, Agreed
<1>2. /\ Line("READY").t # "crc" /\ \A v : Tok("size", v).t # "crc"
      /\ \A v : Tok("data", v).t # "crc"
      /\ \A v : Tok("crc", v).v = v
  BY DEF Line, Tok
<1>3. \A c : AtFirst(c) /\ c.t = "crc" => c.v = Named /\ dev.pc = "poll"
  BY <1>2 DEF AtFirst
<1>4. CASE host.pc = "ready"
  <2>1. /\ toHost \in Seq(HostTokens) /\ Len(toHost) >= 3 /\ (Len(toHost) > 3 => host.tries = 2)
        /\ toHost[Len(toHost) - 2] = Line("READY") /\ toHost[Len(toHost) - 1] = Tok("size", Len(Named))
        /\ AtFirst(toHost[Len(toHost)])
    BY <1>4 DEF Downloading, Agreed
  <2>2. \A n \in Nat : n >= 3 /\ ~(n > 3) => n = 3
    OBVIOUS
  <2>3. Len(toHost) \in Nat
    BY <2>1
  <2>4. Len(toHost) = 3
    BY <2>1, <2>2, <2>3
  <2>5. toHost[1] = Line("READY") /\ toHost[2] = Tok("size", Len(Named)) /\ AtFirst(toHost[3])
    BY <2>1, <2>4
  <2> QED
    BY <1>2, <1>3, <2>4, <2>5
<1>5. CASE host.pc = "size"
  <2>1. Len(toHost) = 2 /\ toHost[1] = Tok("size", Len(Named)) /\ AtFirst(toHost[2])
    BY <1>5 DEF Downloading, Agreed
  <2> QED
    BY <1>2, <1>3, <2>1
<1>6. CASE host.pc \in {"data", "crc"}
  <2>1. \/ toHost = <<Tok("data", Named[dev.n])>> \/ toHost = <<>>
        \/ dev.pc = "poll" /\ toHost = <<Tok("crc", Named)>>
    BY <1>6 DEF Downloading, Agreed
  <2> QED
    BY <1>2, <2>1, EmptySeq
<1> QED
  BY <1>1, <1>4, <1>5, <1>6

\* readByte() has waited long enough.  A host that is not stalled would have
\* answered: so one of the two has met the session's fault.
LEMMA TimeoutAnswers == ASSUME Here, DevTimeout PROVE StepInv'
<1>1. /\ dev.pc \in {"chunk", "part", "crc", "ack"} /\ toDev = <<>> /\ dev' = Polling
      /\ UNCHANGED <<toDev, card, fault, host, slow>>
      /\ slow = "host" \/ host.pc = "idle" \/ toHost = <<>>
  BY DEF DevTimeout, DevTurns, NoByte, GivesUp, BackToPoll
<1>2. toHost' = IF dev.pc = "ack" THEN toHost ELSE toHost \o <<Line("ERR")>>
  BY DEF DevTimeout, GivesUp, DevSays
<1>3. SendInv' /\ Named' = Named
  BY <1>1, SendKept DEF Here, StepInv, OneFault, Named, Polling
<1>4. slow = "host" => fault \notin {"none", "misnamed"}
  BY DEF Here, IInv, StallInv
<1>5. Line("ERR") \in HostTokens \ Saying({"OK"}) /\ Line("READY") \in HostTokens \ Saying({"OK"})
      /\ Line("ack") \in HostTokens \ Saying({"OK"})
  BY LineTokens, NoOk DEF Lines
<1>6. Uploading \/ UploadLost \/ Downloading \/ FirstTryLost \/ SecondTryLost
  BY <1>1 DEF Here, StepInv, Idle, Asked, Uploaded, Removing, Listing, NoneToSend, Sent
<1>7. CASE Uploading \/ UploadLost
  <2>1. dev.pc # "ack" /\ host.op = "put" /\ host.pc \in {"ready", "ack", "answer"} /\ host.pc # "idle"
    BY <1>1, <1>7 DEF Uploading, UploadLost
  <2>2. fault # "none" /\ (Uploading => toHost = <<Line("READY")>> \/ toHost = <<Line("ack")>>)
    <3>1. CASE Uploading
      <4>1. toHost = <<Line("READY")>> \/ toHost = <<Line("ack")>>
        BY <1>1, <3>1 DEF Uploading
      <4>2. toHost # <<>>
        BY <4>1
      <4> QED
        BY <1>1, <1>4, <2>1, <4>1, <4>2
    <3>2. CASE UploadLost /\ ~Uploading
      BY <3>2 DEF UploadLost
    <3> QED
      BY <1>7, <3>1, <3>2
  <2>3. toHost \in Seq(HostTokens \ Saying({"OK"}))
    <3>1. <<Line("READY")>> \in Seq(HostTokens \ Saying({"OK"})) /\ <<Line("ack")>> \in Seq(HostTokens \ Saying({"OK"}))
      BY <1>5
    <3> QED
      BY <1>7, <2>2, <3>1 DEF UploadLost
  <2>4. toHost' \in Seq(HostTokens \ Saying({"OK"}))
    BY <1>2, <1>5, <2>1, <2>3, SaysOne
  <2>5. toDev' \in Seq(Leftover) /\ dev'.pc = "poll"
    BY <1>1, EmptySeq DEF Polling
  <2>6. UploadLost'
    BY <1>1, <2>1, <2>2, <2>4, <2>5 DEF UploadLost
  <2> QED
    BY <1>3, <2>6 DEF StepInv
<1>8. CASE Downloading \/ FirstTryLost \/ SecondTryLost
  <2>1. dev.pc = "ack" /\ toHost' = toHost /\ dev'.pc = "poll" /\ toDev' = <<>> /\ toDev' \in Seq(Leftover)
    BY <1>1, <1>2, <1>8, EmptySeq DEF Downloading, FirstTryLost, SecondTryLost, AtFirst, Agreed, Polling
  <2>2. host.tries \in Nat \ {0} /\ Named \in Files
    BY <2>1, SenderIs
  <2>3. CASE Downloading
    <3>1. host.pc \in {"ready", "size", "data"} /\ toHost # <<>>
      BY <1>1, <2>1, <2>3, EmptySeq DEF Downloading, Agreed
    <3>4. slow = "host" /\ host.tries = 1
      BY <1>1, <2>2, <2>3, <3>1 DEF Downloading, Again
    <3>2. toHost \in Seq(HostTokens) /\ \A i \in 1 .. Len(toHost) : toHost[i].t # "crc"
      BY <2>1, <2>3, <3>4, DownloadCrc DEF Downloading
    <3>3. FirstTryLost'
      BY <1>1, <1>3, <1>4, <2>1, <2>3, <3>1, <3>2, <3>4 DEF FirstTryLost, Downloading
    <3> QED
      BY <1>3, <3>3 DEF StepInv
  <2>4. CASE FirstTryLost
    <3>1. FirstTryLost'
      BY <1>1, <1>3, <2>1, <2>4 DEF FirstTryLost
    <3> QED
      BY <1>3, <3>1 DEF StepInv
  <2>5. CASE SecondTryLost
    <3>1. SecondTryLost'
      BY <1>1, <1>3, <2>1, <2>5 DEF SecondTryLost, Overlap, Again
    <3> QED
      BY <1>3, <3>1 DEF StepInv
  <2> QED
    BY <1>8, <2>3, <2>4, <2>5
<1> QED
  BY <1>6, <1>7, <1>8

-----------------------------------------------------------------------------
(* The link's faults and a stall, seen by both. *)

\* A fault, and the first try of a download is lost.
LEMMA DownloadStops ==
  ASSUME Here, Downloading, fault = "none", fault' \notin {"none", "misnamed"}, UNCHANGED <<host, dev, card, slow>>,
         toDev' \in Seq(Leftover), toHost' \in Seq(HostTokens),
         \A i \in 1 .. Len(toHost') : toHost'[i].t = "crc" => toHost'[i].v \in {Named, Mangled} /\ dev.pc = "poll"
  PROVE  FirstTryLost'
<1>1. /\ host.op = "get" /\ Named # None /\ Again
      /\ host.pc \in {"ready", "size", "data", "crc"} /\ dev.pc \in {"poll", "ack"}
  BY DEF Downloading, Agreed, AtFirst
<1>2. host.tries \in Nat \ {0}
  BY <1>1, TriesAssumption DEF Here, IInv, HostInv, StepInv, SendInv
<1>3. host.tries = 1
  BY <1>1, <1>2 DEF Again
<1>4. Named' = Named
  BY DEF Named
<1> QED
  BY <1>1, <1>3, <1>4 DEF FirstTryLost

\* What a fault of the link or a stall leaves both sides with.
LEMMA FaultSends ==
  ASSUME Here, UNCHANGED <<host, dev, card>>, fault = "none", fault' # "none"
  PROVE  SendInv' /\ Named' = Named
<1>1. Named' = Named
  BY DEF Named
<1>2. host.op = "get" => host.tries \in Nat
  BY TriesAssumption DEF Here, IInv, HostInv
<1> QED
  BY <1>1, <1>2 DEF Here, StepInv, SendInv, Again

\* The request is lost: nothing was begun.
LEMMA RequestLost ==
  ASSUME Here, Asked, fault = "none", fault' \notin {"none", "misnamed"},
         UNCHANGED <<host, dev, card, toHost>>, toDev' = <<>>
  PROVE  StepInv'
<1>1. SendInv' /\ Named' = Named
  BY FaultSends
<1>2. /\ dev'.pc = "poll" /\ toHost' = <<>> /\ toHost' \in Seq(HostTokens)
      /\ toHost' \in Seq(Saying({"ERR"})) /\ toHost' \in Seq(HostTokens \ Saying({"OK"})) /\ toDev' \in Seq(Leftover)
  BY FaultRules, EmptySeq
<1>3. host.op \in {"put", "get", "rm", "books"} /\ host.pc = Asking(host.op) /\ host' = host
  BY DEF Asked
<1>4. CASE host.op = "put"
  <2>1. UploadLost'
    BY <1>2, <1>3, <1>4 DEF UploadLost, Asking
  <2> QED
    BY <1>1, <2>1 DEF StepInv
<1>5. CASE host.op = "rm"
  <2>1. Removing'
    BY <1>2, <1>3, <1>5 DEF Removing, Asking
  <2> QED
    BY <1>1, <2>1 DEF StepInv
<1>6. CASE host.op = "books"
  <2>1. Listing'
    BY <1>2, <1>3, <1>6 DEF Listing, Asking
  <2> QED
    BY <1>1, <2>1 DEF StepInv
<1>7. CASE host.op = "get" /\ Named = None
  <2>1. NoneToSend'
    BY <1>1, <1>2, <1>3, <1>7 DEF NoneToSend, Asking
  <2> QED
    BY <1>1, <2>1 DEF StepInv
<1>8. CASE host.op = "get" /\ Named # None
  <2>1. host.pc = "ready" /\ host.tries = 1 /\ Len(toHost') = 0
    BY <1>2, <1>3, <1>8, FaultRules DEF Asking
  <2>2. FirstTryLost'
    BY <1>1, <1>2, <1>3, <1>8, <2>1 DEF FirstTryLost
  <2> QED
    BY <1>1, <2>2 DEF StepInv
<1> QED
  BY <1>3, <1>4, <1>5, <1>6, <1>7, <1>8

LEMMA OneToken == \A c : Head(<<c>>) = c /\ Tail(<<c>>) = <<>> /\ <<c>> # <<>>
  OBVIOUS

LEMMA LoseAnswers == ASSUME Here, Lose PROVE StepInv'
<1>1. UNCHANGED <<host, dev, card, slow>> /\ fault = "none" /\ fault' = "lost"
  BY DEF Lose, Fault
<1>2. SendInv' /\ Named' = Named
  BY <1>1, FaultSends
<1>3. toDev \in Seq(DevTokens)
  BY DEF Here, IInv, LinkInv
<1>4. Idle \/ Asked \/ Uploading \/ Uploaded \/ Removing \/ Listing \/ Downloading \/ NoneToSend
  BY <1>1, FaultRules DEF Here, StepInv
<1>5. CASE toDev # <<>> /\ toDev' = Tail(toDev) /\ UNCHANGED toHost
  <2>1. ASSUME toDev \in Seq(Leftover) PROVE toDev' \in Seq(Leftover)
    BY <1>5, <2>1, LeftoverTail
  <2>2. CASE Idle
    BY <1>1, <1>2, <2>1, <2>2 DEF StepInv, Idle
  <2>3. CASE Asked
    <3>1. dev.pc = "poll" /\ toHost = <<>> /\ Sent(toDev, Request)
      BY <1>1, <2>3, FaultRules
    <3>2. CASE toDev' = <<>>
      BY <1>1, <1>5, <2>3, <3>2, RequestLost
    <3>3. CASE toDev' # <<>>
      <4>1. Sent(toDev', Request)
        BY <1>3, <1>5, <3>1, <3>3, SentRest
      <4>2. Asked'
        BY <1>1, <1>5, <2>3, <3>1, <4>1, SameRequest DEF Asked
      <4> QED
        BY <1>2, <4>2 DEF StepInv
    <3> QED
      BY <3>2, <3>3
  <2>4. CASE Uploading
    <3>1. /\ host.op = "put" /\ host.pc \in {"ack", "answer"} /\ dev.pc \in {"chunk", "crc"}
          /\ toHost = <<>> /\ toDev' = <<>>
      <4>1. /\ host.op = "put" /\ host.pc \in {"ready", "ack", "answer"} /\ dev.pc \in {"chunk", "crc"}
            /\ \/ toDev = <<>>
               \/ host.pc \in {"ack", "answer"} /\ toHost = <<>> /\ \E c : toDev = <<c>>
        BY <2>4 DEF Uploading
      <4> QED
        BY <1>5, <4>1, OneToken
    <3>2. UploadLost'
      BY <1>1, <1>5, <3>1, EmptySeq DEF UploadLost
    <3> QED
      BY <1>2, <3>2 DEF StepInv
  <2>5. CASE Removing
    BY <1>1, <1>2, <1>5, <2>1, <2>5 DEF StepInv, Removing
  <2>6. CASE Listing
    BY <1>1, <1>2, <1>5, <2>1, <2>6 DEF StepInv, Listing
  <2>7. CASE NoneToSend
    BY <1>1, <1>2, <1>5, <2>1, <2>7 DEF StepInv, NoneToSend
  <2>8. CASE Downloading
    <3>1. toDev' = <<>> /\ toHost = <<>> /\ toDev' \in Seq(Leftover) /\ toHost' \in Seq(HostTokens) /\ Len(toHost') = 0
      <4>1. toDev = <<Line("ack")>> /\ toHost = <<>>
        BY <1>5, <2>8 DEF Downloading
      <4> QED
        BY <1>5, <4>1, OneToken, EmptySeq
    <3>2. FirstTryLost'
      BY <1>1, <2>8, <3>1, DownloadStops
    <3> QED
      BY <1>2, <3>2 DEF StepInv
  <2> QED
    BY <1>4, <1>5, <2>2, <2>3, <2>4, <2>5, <2>6, <2>7, <2>8 DEF Uploaded
<1>6. CASE toHost # <<>> /\ toHost' = Tail(toHost) /\ UNCHANGED toDev
  <2>1. ASSUME NEW S, toHost \in Seq(S) PROVE toHost' \in Seq(S)
    BY <1>6, <2>1, StreamTail
  <2>2. CASE Idle
    BY <1>1, <1>2, <1>6, <2>2 DEF StepInv, Idle
  <2>3. ~Asked
    BY <1>1, <1>6, FaultRules
  <2>4. CASE Uploading \/ Uploaded
    <3>1. /\ host.op = "put" /\ host.pc \in {"ready", "ack", "answer"} /\ dev.pc \in {"poll", "chunk", "crc"}
          /\ toHost' = <<>> /\ toDev' = <<>>
      BY <1>6, <2>4 DEF Uploading, Uploaded
    <3>2. UploadLost'
      BY <1>1, <3>1, EmptySeq DEF UploadLost
    <3> QED
      BY <1>2, <3>2 DEF StepInv
  <2>5. CASE Removing
    BY <1>1, <1>2, <1>6, <2>1, <2>5 DEF StepInv, Removing
  <2>6. CASE Listing
    BY <1>1, <1>2, <1>6, <2>1, <2>6 DEF StepInv, Listing
  <2>7. CASE NoneToSend
    BY <1>1, <1>2, <1>6, <2>1, <2>7 DEF StepInv, NoneToSend
  <2>8. CASE Downloading
    <3>1. toHost \in Seq(HostTokens) /\ toHost' \in Seq(HostTokens) /\ toDev' = <<>> /\ toDev' \in Seq(Leftover)
      BY <1>6, <2>1, <2>8, EmptySeq DEF Downloading
    <3>2. host.tries # 2
      BY <1>1, <2>8, FaultRules DEF Downloading, Agreed
    <3>3. ASSUME NEW i \in 1 .. Len(toHost'), toHost'[i].t = "crc"
          PROVE  toHost'[i].v \in {Named, Mangled} /\ dev.pc = "poll"
      <4>1. toHost'[i] = toHost[i + 1] /\ i + 1 \in 1 .. Len(toHost)
        BY <1>6, <3>1, StreamTail
      <4> QED
        BY <2>8, <3>2, <3>3, <4>1, DownloadCrc
    <3>4. FirstTryLost'
      BY <1>1, <2>8, <3>1, <3>3, DownloadStops
    <3> QED
      BY <1>2, <3>4 DEF StepInv
  <2> QED
    BY <1>4, <2>2, <2>3, <2>4, <2>5, <2>6, <2>7, <2>8
<1> QED
  BY <1>5, <1>6 DEF Lose

\* A byte of a token is changed: a left-over stays one, a request gets no name.
LEMMA MangledLeftover ==
  ASSUME NEW c \in Leftover, c.t \in {"put", "get", "rm", "data", "crc"}
  PROVE  MangledTok(c) \in Leftover
<1>1. c \in DevTokens /\ c.t \notin Headers
  BY DEF Leftover
<1>2. MangledTok(c).t = c.t
  BY DEF MangledTok, Renamed, Tok
<1> QED
  BY <1>1, <1>2, MangledKept DEF Leftover

LEMMA MangledSaid ==
  ASSUME NEW c \in HostTokens, c.t \in {"data", "crc"}
  PROVE  MangledTok(c) \in HostTokens /\ MangledTok(c).t = c.t /\ MangledTok(c).v = Mangled
  BY DEF MangledTok, Renamed, Tok, HostTokens

LEMMA Preceded ==
  ASSUME NEW S, NEW c \in S, NEW s \in Seq(S)
  PROVE  /\ <<c>> \o s \in Seq(S) /\ Len(<<c>> \o s) = Len(s) + 1 /\ Len(s) \in Nat
         /\ (<<c>> \o s)[1] = c /\ \A i \in 1 .. Len(s) : (<<c>> \o s)[i + 1] = s[i]
<1>1. <<c>> \in Seq(S) /\ Len(<<c>>) = 1 /\ <<c>>[1] = c
  OBVIOUS
<1>2. Len(s) \in Nat
  OBVIOUS
<1>3. /\ <<c>> \o s \in Seq(S) /\ Len(<<c>> \o s) = Len(<<c>>) + Len(s)
      /\ \A i \in 1 .. Len(<<c>>) + Len(s) : (<<c>> \o s)[i] = IF i <= Len(<<c>>) THEN <<c>>[i] ELSE s[i - Len(<<c>>)]
  BY <1>1, ConcatProperties
<1>4. \A i \in 1 .. 1 + Len(s) : (<<c>> \o s)[i] = IF i <= 1 THEN c ELSE s[i - 1]
  BY <1>1, <1>3
<1> QED
  BY <1>1, <1>2, <1>3, <1>4

LEMMA SentBehind ==
  ASSUME NEW a \in Leftover, NEW s \in Seq(DevTokens), NEW c, Sent(s, c)
  PROVE  Sent(<<a>> \o s, c)
<1>1. a \in DevTokens
  BY DEF Leftover
<1> DEFINE q == <<a>> \o s
<1>2. /\ q \in Seq(DevTokens) /\ Len(q) = Len(s) + 1 /\ Len(s) \in Nat
      /\ q[1] = a /\ \A i \in 1 .. Len(s) : q[i + 1] = s[i]
  BY <1>1, Preceded
<1>3. Len(s) # 0
  BY EmptySeq DEF Sent
<1> HIDE DEF q
<1>4. q[Len(q)] = c /\ q # <<>>
  <2>1. q[Len(s) + 1] = s[Len(s)]
    BY <1>2, <1>3
  <2> QED
    BY <1>2, <2>1, EmptySeq DEF Sent
<1>5. ASSUME NEW i \in 1 .. Len(q) - 1 PROVE q[i] \in Leftover
  <2>1. CASE i = 1
    BY <1>2, <2>1
  <2>2. CASE i # 1
    <3>1. i - 1 \in 1 .. Len(s) - 1 /\ q[(i - 1) + 1] = s[i - 1]
      BY <1>2, <2>2
    <3> QED
      BY <3>1 DEF Sent
  <2> QED
    BY <2>1, <2>2
<1> QED
  BY <1>4, <1>5 DEF Sent, q

LEMMA MangleAnswers == ASSUME Here, Mangle PROVE StepInv'
<1>1. UNCHANGED <<host, dev, card, slow>> /\ fault = "none" /\ fault' = "mangled"
  BY DEF Mangle, Fault
<1>2. SendInv' /\ Named' = Named
  BY <1>1, FaultSends
<1>3. toDev \in Seq(DevTokens)
  BY DEF Here, IInv, LinkInv
<1>4. Idle \/ Asked \/ Uploading \/ Uploaded \/ Removing \/ Listing \/ Downloading \/ NoneToSend
  BY <1>1, FaultRules DEF Here, StepInv
<1>5. CASE /\ toDev # <<>> /\ Head(toDev).t \in {"put", "get", "rm", "data", "crc"}
           /\ toDev' = <<MangledTok(Head(toDev))>> \o Tail(toDev) /\ UNCHANGED toHost
  <2>1. ASSUME toDev \in Seq(Leftover) PROVE toDev' \in Seq(Leftover)
    BY <1>5, <2>1, LeftoverTail, MangledLeftover, Preceded
  <2>2. CASE Idle
    BY <1>1, <1>2, <2>1, <2>2 DEF StepInv, Idle
  <2>3. CASE Asked
    <3>1. dev.pc = "poll" /\ toHost = <<>> /\ Sent(toDev, Request)
      BY <1>1, <2>3, FaultRules
    <3>2. host.op \in {"put", "get", "rm", "books"} /\ host.pc # "idle"
      BY <2>3 DEF Asked, Asking
    <3>3. host.op = "get" /\ Named # None => host.tries = 1
      BY <1>1, <3>2, FaultRules
    <3>4. CASE Head(toDev) = Request /\ Tail(toDev) = <<>>
      <4>1. host.op # "books"
        BY <1>5, <3>2, <3>4, RequestIs
      <4>2. toDev' = <<MangledTok(Request)>>
        BY <1>5, <3>4, SaysFirst, <<MangledTok(Request)>> \in Seq({MangledTok(Request)}), ConcatEmptySeq
      <4>3. Sent(toDev', MangledTok(Request))
        BY <4>2 DEF Sent
      <4>4. Asked'
        BY <1>1, <1>2, <1>5, <2>3, <3>1, <3>3, <4>1, <4>3, SameRequest DEF Asked
      <4> QED
        BY <1>2, <4>4 DEF StepInv
    <3>5. CASE Head(toDev) \in Leftover /\ Sent(Tail(toDev), Request)
      <4>1. MangledTok(Head(toDev)) \in Leftover /\ Tail(toDev) \in Seq(DevTokens)
        BY <1>3, <1>5, <3>5, MangledLeftover, StreamTail
      <4>2. Sent(toDev', Request)
        BY <1>5, <3>5, <4>1, SentBehind
      <4>3. Asked'
        BY <1>1, <1>5, <2>3, <3>1, <4>2, SameRequest DEF Asked
      <4> QED
        BY <1>2, <4>3 DEF StepInv
    <3> QED
      BY <1>3, <3>1, <3>4, <3>5, SentRest
  <2>4. CASE Uploading
    <3>0. \E k \in {"data", "crc"} : \E v : toDev = <<Tok(k, v)>> /\ (k = "data" <=> host.pc = "ack")
      BY <1>5, <2>4 DEF Uploading
    <3>. PICK k \in {"data", "crc"} : \E v : toDev = <<Tok(k, v)>> /\ (k = "data" <=> host.pc = "ack")
      BY <3>0
    <3>1. PICK v : toDev = <<Tok(k, v)>> /\ (k = "data" <=> host.pc = "ack")
      OBVIOUS
    <3>2. Head(toDev) = Tok(k, v) /\ Tail(toDev) = <<>>
      BY <3>1, OneToken
    <3>3. MangledTok(Tok(k, v)) = Tok(k, Mangled)
      BY DEF MangledTok, Renamed, Tok
    <3>4. toDev' = <<Tok(k, Mangled)>>
      BY <1>5, <3>2, <3>3, <<Tok(k, Mangled)>> \in Seq({Tok(k, Mangled)}), ConcatEmptySeq
    <3>5. AsSent'
      BY <1>1 DEF AsSent
    <3>6. Uploading'
      BY <1>1, <1>5, <2>4, <3>1, <3>4, <3>5, OneToken DEF Uploading
    <3> QED
      BY <1>2, <3>6 DEF StepInv
  <2>5. CASE Removing
    BY <1>1, <1>2, <1>5, <2>1, <2>5 DEF StepInv, Removing
  <2>6. CASE Listing
    BY <1>1, <1>2, <1>5, <2>1, <2>6 DEF StepInv, Listing
  <2>7. CASE NoneToSend
    BY <1>1, <1>2, <1>5, <2>1, <2>7 DEF StepInv, NoneToSend
  <2>8. ~Downloading /\ ~Uploaded
    <3>1. Downloading => toDev = <<Line("ack")>>
      BY <1>5 DEF Downloading
    <3>2. toDev # <<Line("ack")>>
      BY <1>5, OneToken DEF Line, Tok
    <3> QED
      BY <1>5, <3>1, <3>2 DEF Uploaded
  <2> QED
    BY <1>4, <2>2, <2>3, <2>4, <2>5, <2>6, <2>7, <2>8
<1>6. CASE /\ toHost # <<>> /\ Head(toHost).t \in {"data", "crc"}
           /\ toHost' = <<MangledTok(Head(toHost))>> \o Tail(toHost) /\ UNCHANGED toDev
  <2>1. ASSUME toHost \in Seq(HostTokens) PROVE toHost' \in Seq(HostTokens)
    BY <1>6, <2>1, StreamTail, MangledSaid, Preceded
  <2>2. ASSUME toHost \in Seq(HostTokens \ Saying({"OK"})) PROVE toHost' \in Seq(HostTokens \ Saying({"OK"}))
    <3>1. Head(toHost) \in HostTokens /\ Tail(toHost) \in Seq(HostTokens \ Saying({"OK"}))
      BY <1>6, <2>2, StreamTail
    <3>2. MangledTok(Head(toHost)) \in HostTokens \ Saying({"OK"})
      BY <1>6, <3>1, MangledSaid, NoOk
    <3> QED
      BY <1>6, <3>1, <3>2, Preceded
  <2>3. CASE Idle
    BY <1>1, <1>2, <1>6, <2>3 DEF StepInv, Idle
  <2>4. ~Asked
    BY <1>1, <1>6, FaultRules
  <2>5. ~Uploading /\ ~Uploaded
    <3>1. \A k \in {"READY", "ack", "OK"} : toHost # <<Line(k)>>
      BY <1>6, OneToken DEF Line, Tok
    <3> QED
      BY <1>6, <3>1 DEF Uploading, Uploaded
  <2>6. ~NoneToSend
    BY <1>6, StreamTail DEF NoneToSend, Saying
  <2>7. CASE Removing
    BY <1>1, <1>2, <1>6, <2>1, <2>2, <2>7 DEF StepInv, Removing
  <2>8. CASE Listing
    BY <1>1, <1>2, <1>6, <2>1, <2>8 DEF StepInv, Listing
  <2>9. CASE Downloading
    <3>1. toHost \in Seq(HostTokens) /\ host.tries # 2
      BY <1>1, <2>9, FaultRules DEF Downloading, Agreed
    <3>2. toHost' \in Seq(HostTokens) /\ toDev \in Seq(Leftover)
      <4>1. Line("ack") \in Leftover
        BY AckToken DEF Leftover, Line, Tok, Headers
      <4>2. <<Line("ack")>> \in Seq(Leftover)
        BY <4>1
      <4> QED
        BY <2>1, <2>9, <3>1, <4>2, EmptySeq DEF Downloading
    <3>3. ASSUME NEW i \in 1 .. Len(toHost'), toHost'[i].t = "crc"
          PROVE  toHost'[i].v \in {Named, Mangled} /\ dev.pc = "poll"
      <4>1. /\ Head(toHost) = toHost[1] /\ Head(toHost) \in HostTokens
            /\ Tail(toHost) \in Seq(HostTokens) /\ Len(Tail(toHost)) = Len(toHost) - 1 /\ Len(toHost) \in Nat \ {0}
            /\ \A j \in 1 .. Len(toHost) - 1 : Tail(toHost)[j] = toHost[j + 1]
        BY <1>6, <3>1, StreamTail
      <4>2. /\ MangledTok(Head(toHost)) \in HostTokens /\ MangledTok(Head(toHost)).t = Head(toHost).t
            /\ MangledTok(Head(toHost)).v = Mangled
        BY <1>6, <4>1, MangledSaid
      <4>3. /\ Len(toHost') = Len(toHost) /\ toHost'[1] = MangledTok(Head(toHost))
            /\ \A j \in 1 .. Len(toHost) - 1 : toHost'[j + 1] = Tail(toHost)[j]
        BY <1>6, <4>1, <4>2, Preceded
      <4>4. CASE i = 1
        <5>1. 1 \in 1 .. Len(toHost) /\ toHost[1].t = "crc"
          BY <3>3, <4>1, <4>2, <4>3, <4>4
        <5> QED
          BY <2>9, <3>1, <4>2, <4>3, <4>4, <5>1, DownloadCrc
      <4>5. CASE i # 1
        <5>1. i \in 1 .. Len(toHost) /\ i - 1 \in 1 .. Len(toHost) - 1
          BY <4>1, <4>3, <4>5
        <5>2. toHost'[(i - 1) + 1] = Tail(toHost)[i - 1] /\ Tail(toHost)[i - 1] = toHost[(i - 1) + 1]
          BY <4>1, <4>3, <5>1
        <5>3. toHost'[i] = toHost[i]
          BY <5>1, <5>2
        <5> QED
          BY <2>9, <3>1, <3>3, <5>1, <5>3, DownloadCrc
      <4> QED
        BY <4>4, <4>5
    <3>4. FirstTryLost'
      BY <1>1, <1>6, <2>9, <3>2, <3>3, DownloadStops
    <3> QED
      BY <1>2, <3>4 DEF StepInv
  <2> QED
    BY <1>4, <2>3, <2>4, <2>5, <2>6, <2>7, <2>8, <2>9
<1> QED
  BY <1>5, <1>6 DEF Mangle

\* A request comes over with another name: from now on that is the name it has.
LEMMA MisnameAnswers == ASSUME Here, Misname PROVE StepInv' /\ Misled' /\ host'.pc # "idle"
<1>1. PICK q \in Paths \ {host.path} :
        toDev' = <<Renamed(Head(toDev), q)>> \o Tail(toDev) /\ host' = [host EXCEPT !.as = q]
  BY DEF Misname
<1>2. /\ toDev # <<>> /\ Head(toDev).t \in {"put", "get", "rm"} /\ fault = "none" /\ fault' = "misnamed"
      /\ UNCHANGED <<toHost, dev, card, slow>>
  BY DEF Misname, Fault
<1>3. Asked
  <2>1. toDev \notin Seq(Leftover)
    BY <1>2, LeftoverTail DEF Headers
  <2> QED
    BY <1>2, <2>1 DEF Here, StepInv, Idle, Uploading, Uploaded, UploadLost, Removing, Listing,
                      Downloading, Agreed, AtFirst, FirstTryLost, SecondTryLost, NoneToSend, Line, Tok
<1>4. dev.pc = "poll" /\ toHost = <<>> /\ Sent(toDev, Request) /\ host.pc = Asking(host.op) /\ host.pc # "idle"
      /\ (host.op = "get" => host.file = <<>>)
  BY <1>2, <1>3, FaultRules DEF Asked, Asking
<1>5. Head(toDev) = Request /\ Tail(toDev) = <<>>
  BY <1>2, <1>4, SentHead DEF Here, IInv, LinkInv, Headers
<1>6. host.op \in {"put", "get", "rm"}
  BY <1>2, <1>3, <1>5, RequestIs DEF Asked
<1>7. /\ host'.pc = host.pc /\ host'.op = host.op /\ host'.path = host.path /\ host'.as = q
      /\ host'.file = host.file /\ host'.tries = host.tries
  BY <1>1 DEF Here, IInv, HostInv
<1>8. Renamed(Request, q) = Request'
  BY <1>6, <1>7 DEF Renamed, Request, Tok
<1>9. Sent(toDev', Request')
  <2>1. toDev' = <<Request'>>
    BY <1>1, <1>5, <1>8, <<Request'>> \in Seq({Request'}), ConcatEmptySeq
  <2> QED
    BY <2>1 DEF Sent
<1>10. Asked'
  BY <1>2, <1>4, <1>6, <1>7, <1>9 DEF Asked
<1>11. slow = "none"
  BY <1>2 DEF Here, IInv, StallInv
<1>12. SendInv'
  BY <1>2, <1>4, <1>7, <1>11 DEF Here, StepInv, SendInv, Again
<1>13. Misled'
  <2>1. host.op = "get" /\ Wanted # None => host.tries = 1
    BY <1>2, <1>4, FaultRules, NameIs DEF Here
  <2>2. Wanted' = Wanted
    BY <1>2, <1>7 DEF Wanted
  <2> QED
    BY <1>7, <2>1, <2>2 DEF Misled
<1> QED
  BY <1>4, <1>7, <1>10, <1>12, <1>13 DEF StepInv

\* A stall begins or ends: both are where they were.
LEMMA StallAnswers == ASSUME Here, (\E s \in {"device", "host"} : Stall(s)) \/ Resume PROVE StepInv'
<1>1. /\ UNCHANGED <<toDev, toHost, dev, host, card>>
      /\ \/ fault = "none" /\ fault' = "stall"
         \/ fault' = fault /\ slow' = "none"
  BY DEF Stall, Resume, Fault
<1>2. Named' = Named
  BY <1>1 DEF Named
<1>3. host.op = "get" => host.tries \in Nat
  BY TriesAssumption DEF Here, IInv, HostInv
<1>4. SendInv'
  BY <1>1, <1>2, <1>3 DEF Here, StepInv, SendInv, Again
<1>5. CASE Idle
  BY <1>1, <1>4, <1>5 DEF StepInv, Idle
<1>6. CASE Asked
  <2>1. Asked'
    BY <1>1, <1>2, <1>6, SameRequest DEF Asked, Overlap
  <2> QED
    BY <1>4, <2>1 DEF StepInv
<1>7. CASE Uploading
  <2>1. AsSent' /\ (fault' = "none" => fault = "none")
    BY <1>1, <1>7 DEF Uploading, AsSent
  <2>2. Uploading'
    BY <1>1, <1>7, <2>1 DEF Uploading
  <2> QED
    BY <1>4, <2>2 DEF StepInv
<1>8. CASE Uploaded
  BY <1>1, <1>2, <1>4, <1>8 DEF StepInv, Uploaded
<1>9. CASE UploadLost
  BY <1>1, <1>4, <1>9 DEF StepInv, UploadLost
<1>10. CASE Removing
  BY <1>1, <1>2, <1>4, <1>10 DEF StepInv, Removing
<1>11. CASE Listing
  BY <1>1, <1>4, <1>11 DEF StepInv, Listing
<1>12. CASE Downloading
  <2>1. Again' /\ (Agreed => Agreed')
    BY <1>1, <1>2, <1>3, <1>12 DEF Downloading, Again, Agreed
  <2>2. \A c : AtFirst(c) => AtFirst(c)'
    BY <1>1, <1>2 DEF AtFirst
  <2>3. Downloading'
    BY <1>1, <1>2, <1>12, <2>1, <2>2 DEF Downloading
  <2> QED
    BY <1>4, <2>3 DEF StepInv
<1>13. CASE FirstTryLost
  BY <1>1, <1>2, <1>4, <1>13 DEF StepInv, FirstTryLost
<1>14. CASE SecondTryLost
  <2>1. Again'
    BY <1>1, <1>3, <1>14 DEF SecondTryLost, Again
  <2>2. SecondTryLost'
    BY <1>1, <1>2, <1>14, <2>1 DEF SecondTryLost, Overlap
  <2> QED
    BY <1>4, <2>2 DEF StepInv
<1>15. CASE NoneToSend
  BY <1>1, <1>2, <1>4, <1>15 DEF StepInv, NoneToSend
<1> QED
  BY <1>5, <1>6, <1>7, <1>8, <1>9, <1>10, <1>11, <1>12, <1>13, <1>14, <1>15 DEF Here, StepInv

-----------------------------------------------------------------------------
(* A host's step, seen by both. *)

\* What a step of the host leaves, short of giving up on a stalled device.
Leaves == Here /\ host.pc # "idle" /\ slow # "host" /\ UNCHANGED <<dev, card, slow, fault>>

\* A host that has not ended has said nothing yet.
LEMMA BusySaysNothing == ASSUME host'.pc # "idle" PROVE Told'
  BY DEF Told, Done, OneHiccupForgiven, Finished

LEMMA HostIs ==
  ASSUME Here
  PROVE  /\ host = [pc |-> host.pc, op |-> host.op, path |-> host.path, as |-> host.as, file |-> host.file,
                    n |-> host.n, tries |-> host.tries, res |-> host.res]
         /\ host.tries \in 0 .. Tries /\ Tries \in Nat
         /\ host.op \in {"put", "get", "rm"} => host.path \in Paths /\ host.as \in Paths
         /\ host.op = "put" => host.file \in Files
         /\ host.op = "get" => host.file \in Seq(Chunks \cup {Mangled}) /\ host.file # Mangled /\ host.tries >= 1
<1>1. IInv /\ HostInv /\ SendInv
  BY DEF Here, IInv, StepInv
<1>2. host.op = "get" => host.file \in Seq(Chunks \cup {Mangled}) /\ host.file # Mangled /\ host.tries >= 1
  BY <1>1, FilesAssumption DEF SendInv
<1> QED
  BY <1>1, <1>2, TriesAssumption DEF HostInv

\* The host's program ends with a result it has reason for.
LEMMA EndsTold ==
  ASSUME Leaves, NEW r, Ends(r), dev.pc = "poll", toDev \in Seq(Leftover),
         host.op = "put" /\ r = "ok" => Named = host.file \/ fault = "unsaved",
         host.op = "get" /\ r = "ok" => Named = host.file,
         host.op = "rm" /\ r = "ok" => Named = None,
         host.op = "get" /\ r = "err" => Wanted = None,
         host.op = "put" /\ r = "err" => fault # "none"
  PROVE  StepInv' /\ Told'
<1>1. /\ UNCHANGED <<dev, card, slow, fault, toDev>> /\ Here
      /\ host' = [host EXCEPT !.pc = "idle", !.res = r]
  BY DEF Leaves, Ends
<1>2. /\ host'.pc = "idle" /\ host'.op = host.op /\ host'.path = host.path /\ host'.as = host.as
      /\ host'.file = host.file /\ host'.tries = host.tries /\ host'.res = r
  BY <1>1, HostIs
<1>3. Named' = Named
  BY <1>1, <1>2 DEF Named
<1>4. SendInv'
  BY <1>1, <1>2 DEF Here, StepInv, SendInv
<1>5. Idle'
  BY <1>1, <1>2 DEF Idle
<1>6. Meant' = host.as
  BY <1>1, <1>2, NameIs DEF Here, Meant
<1>7. Told'
  BY <1>1, <1>2, <1>6 DEF Told, Done, OneHiccupForgiven, Finished, Named, Wanted
<1> QED
  BY <1>4, <1>5, <1>7 DEF StepInv

\* A host that still waits for the first try of a download, which is lost.
LEMMA FirstTryOn ==
  ASSUME Leaves, FirstTryLost, toDev' \in Seq(Leftover), toHost' \in Seq(HostTokens),
         \A i \in 1 .. Len(toHost') : \E j \in 1 .. Len(toHost) : toHost'[i] = toHost[j],
         host'.op = host.op, host'.path = host.path, host'.as = host.as, host'.tries = host.tries,
         host'.file \in Seq(Chunks \cup {Mangled}), host'.pc \in {"ready", "size", "data", "crc", "lost"}
  PROVE  StepInv' /\ Told'
<1>1. UNCHANGED <<dev, card, slow, fault>> /\ Here /\ Named' = Named
  BY DEF Leaves, Named
<1>2. SendInv'
  BY <1>1 DEF Here, StepInv, SendInv, Again, FirstTryLost
<1>3. \A i \in 1 .. Len(toHost') : toHost'[i].t = "crc" => toHost'[i].v \in {Named, Mangled} /\ dev.pc = "poll"
  BY DEF FirstTryLost
<1>4. FirstTryLost'
  BY <1>1, <1>3 DEF FirstTryLost
<1> QED
  BY <1>2, <1>4, BusySaysNothing DEF StepInv

\* A TransferError: a download is asked for again as long as there is a try left.
LEMMA FailsTold ==
  ASSUME Leaves, Tries >= 3, NEW stream, Fails(stream), toDev \in Seq(Leftover), dev.pc \in {"poll", "ack"},
         host.op # "get" => dev.pc = "poll",
         host.op = "put" => fault # "none", dev.pc = "ack" => host.as = host.path,
         host.op = "get" /\ Named = None => dev.pc = "poll",
         host.op = "get" /\ Named # None =>
           fault # "none" /\ (host.tries = 1 \/ (host.tries = 2 /\ dev.pc = "poll"))
  PROVE  StepInv' /\ Told'
<1>1. UNCHANGED <<dev, card, slow, fault>> /\ Here /\ slow # "host"
  BY DEF Leaves
<1>2. CASE host.op = "get" /\ host.tries < Tries
  <2> DEFINE h == [host EXCEPT !.pc = "ready", !.as = host.path, !.file = <<>>, !.tries = @ + 1]
  <2>1. toHost' = <<>> /\ toDev' = Append(toDev, Header(h)) /\ host' = h
    BY <1>2 DEF Fails, Ask
  <2>2. /\ h.pc = "ready" /\ h.op = "get" /\ h.path = host.path /\ h.as = host.path /\ h.file = <<>>
        /\ h.tries = host.tries + 1 /\ host.tries \in Nat \ {0}
    BY <1>1, <1>2, HostIs
  <2> HIDE DEF h
  <2>3. Named' = Wanted /\ (dev.pc = "ack" => Named' = Named)
    BY <1>1, <2>1, <2>2 DEF Named, Wanted
  <2>4. Sent(toDev', Request')
    <3>1. Sent(toDev', Header(h))
      BY <2>1, SentNext
    <3>2. Request' = Header(h)
      BY <2>1, <2>2 DEF Request, Header
    <3> QED
      BY <3>1, <3>2
  <2>5. <<>> \in Seq(Wordless) /\ <<>> \in Seq(Chunks \cup {Mangled})
    BY EmptySeq
  <2>6. \A n \in Nat \ {0} : n + 1 >= 1
    OBVIOUS
  <2>7. host'.tries >= 1
    BY <2>1, <2>2, <2>6
  <2>8. dev.pc = "ack" => Overlap'
    BY <2>1, <2>2, <2>3, <1>1, SenderIs DEF Overlap
  <2>9. Asked'
    BY <1>1, <2>1, <2>2, <2>4, <2>5, <2>8 DEF Asked, Asking
  <2>10. SendInv'
    <3>1. Named' # None => Again'
      <4>1. Named # Wanted => fault = "misnamed"
        BY <1>1, NameIs DEF Here
      <4>2. Named' # None => fault # "none"
        BY <1>2, <2>3, <4>1
      <4> QED
        BY <1>1, <4>2 DEF Again
    <3>2. host'.op = "get" /\ host'.file = <<>> /\ host'.pc # "idle"
      BY <2>1, <2>2
    <3>3. dev'.pc = "ack" => Named # None /\ dev'.file = Named /\ dev'.n \in 1 .. Len(Named)
      BY <1>1, SenderIs
    <3> QED
      BY <1>1, <2>3, <2>5, <2>7, <3>1, <3>2, <3>3 DEF SendInv
  <2> QED
    BY <2>1, <2>2, <2>9, <2>10, BusySaysNothing DEF StepInv
<1>3. CASE ~(host.op = "get" /\ host.tries < Tries)
  <2>1. Ends("err")
    BY <1>3 DEF Fails
  <2>2. host.op = "get" => Wanted = None /\ dev.pc = "poll"
    <3>1. host.op = "get" => host.tries \in Nat /\ Tries \in Nat /\ ~(host.tries < Tries)
      BY <1>1, <1>3, HostIs
    <3>2. host.op = "get" => host.tries # 1 /\ host.tries # 2
      BY <3>1
    <3>3. host.op = "get" => Named = None /\ dev.pc = "poll"
      BY <3>2
    <3>4. host.op = "get" /\ Named = None => Wanted = None
      BY <1>1, <3>2 DEF Here, Misled, Named, Wanted
    <3> QED
      BY <3>3, <3>4
  <2> QED
    BY <2>1, <2>2, EndsTold
<1> QED
  BY <1>2, <1>3

\* What was on its way to the host and has been read leaves only what was.
LEMMA PassesStream ==
  ASSUME NEW S, toHost \in Seq(S), toHost # <<>>, Passes \/ HostTakes
  PROVE  /\ toHost' \in Seq(S) /\ Len(toHost) \in Nat
         /\ \E d \in {1, 2} : /\ Len(toHost') = Len(toHost) - d
                             /\ \A i \in 1 .. Len(toHost') : toHost'[i] = toHost[i + d]
         /\ \A i \in 1 .. Len(toHost') : \E j \in 1 .. Len(toHost) : toHost'[i] = toHost[j]
<1>1. CASE toHost' = Tail(toHost)
  <2>1. /\ toHost' \in Seq(S) /\ Len(toHost') = Len(toHost) - 1 /\ Len(toHost) \in Nat \ {0}
        /\ \A i \in 1 .. Len(toHost) - 1 : toHost'[i] = toHost[i + 1]
    BY <1>1, StreamTail
  <2>2. \A i \in 1 .. Len(toHost) - 1 : i + 1 \in 1 .. Len(toHost)
    BY <2>1
  <2> QED
    BY <2>1, <2>2
<1>2. CASE toHost' = Tail(Tail(toHost)) /\ Len(toHost) > 1
  <2> DEFINE s == Tail(toHost)
  <2>1. /\ s \in Seq(S) /\ Len(s) = Len(toHost) - 1 /\ Len(toHost) \in Nat \ {0}
        /\ \A i \in 1 .. Len(toHost) - 1 : s[i] = toHost[i + 1]
        /\ s # <<>>
    BY <1>2, StreamTail
  <2>2. toHost' = Tail(s)
    BY <1>2
  <2> HIDE DEF s
  <2>3. /\ toHost' \in Seq(S) /\ Len(toHost') = Len(s) - 1
        /\ \A i \in 1 .. Len(s) - 1 : toHost'[i] = s[i + 1]
    BY <2>1, <2>2, StreamTail
  <2>4. /\ \A i \in 1 .. Len(toHost') : i + 1 \in 1 .. Len(toHost) - 1 /\ i + 2 \in 1 .. Len(toHost)
        /\ \A i \in 1 .. Len(toHost') : i + 1 + 1 = i + 2
    BY <2>1, <2>3
  <2>5. \A i \in 1 .. Len(toHost') : toHost'[i] = toHost[i + 2]
    BY <2>1, <2>3, <2>4
  <2>6. Len(toHost') = Len(toHost) - 2
    BY <2>1, <2>3
  <2> QED
    BY <2>1, <2>3, <2>4, <2>5, <2>6
<1> QED
  BY <1>1, <1>2 DEF Passes, HostTakes

LEMMA PassesRest == Passes => UNCHANGED <<host, toDev>>
  BY DEF Passes

\* The host has waited for nothing: the device is at its poll.
LEMMA TimeoutTold ==
  ASSUME Here, Tries >= 3, HostTimeout, fault' # "late"
  PROVE  StepInv' /\ Told'
<1>1. Leaves /\ dev.pc = "poll" /\ toDev = <<>> /\ toHost = <<>>
  BY DEF HostTimeout, HostTurns, Leaves
<1>2. toDev \in Seq(Leftover)
  BY <1>1, EmptySeq
<1>3. ~Idle /\ ~Asked /\ ~Uploading /\ ~Uploaded /\ ~Downloading
  <2>1. ~Asked
    BY <1>1 DEF Asked, Sent
  <2>2. ~Uploading
    BY <1>1 DEF Uploading
  <2>3. ~Downloading
    <3>1. Len(toHost) = 0
      BY <1>1
    <3> QED
      BY <1>1, <3>1 DEF Downloading
  <2> QED
    BY <1>1, <2>1, <2>2, <2>3 DEF Idle, Uploaded, Leaves
<1>4. UploadLost \/ Removing \/ Listing \/ FirstTryLost \/ SecondTryLost \/ NoneToSend
  BY <1>3 DEF Here, StepInv
<1>5. CASE host.op = "books"
  BY <1>1, <1>2, <1>5, EndsTold DEF HostTimeout
<1>6. CASE host.op # "books"
  <2>1. Fails(<<>>)
    BY <1>6 DEF HostTimeout
  <2>2. host.op = "put" => fault # "none"
    BY <1>4 DEF UploadLost, Removing, Listing, FirstTryLost, SecondTryLost, Overlap, NoneToSend
  <2>3. host.op = "get" /\ Named # None => fault # "none" /\ (host.tries = 1 \/ host.tries = 2)
    BY <1>4 DEF UploadLost, Removing, Listing, FirstTryLost, SecondTryLost, Overlap, NoneToSend, Again
  <2> QED
    BY <1>1, <1>2, <2>1, <2>2, <2>3, FailsTold
<1> QED
  BY <1>5, <1>6

LEMMA TailStream ==
  ASSUME NEW S, toHost \in Seq(S), HostTakes
  PROVE  /\ toHost # <<>> /\ Head(toHost) = toHost[1] /\ Head(toHost) \in S
         /\ toHost' \in Seq(S) /\ Len(toHost') = Len(toHost) - 1 /\ Len(toHost) \in Nat \ {0}
         /\ \A i \in 1 .. Len(toHost) - 1 : toHost'[i] = toHost[i + 1]
         /\ \A i \in 1 .. Len(toHost') : \E j \in 1 .. Len(toHost) : toHost'[i] = toHost[j]
<1>1. toHost # <<>> /\ toHost' = Tail(toHost)
  BY DEF HostTakes
<1> QED
  BY <1>1, StreamTail, PassesStream

\* An ACK, or a chunk or a CRC, is put behind what is left over.
LEMMA LeftoverAppend ==
  /\ Line("ack") \in Leftover
  /\ \A k \in {"data", "crc"} : \A v : Tok(k, v) \in DevTokens => Tok(k, v) \in Leftover
  /\ \A s \in Seq(Leftover), c \in Leftover : Append(s, c) \in Seq(Leftover)
  BY AckToken DEF Leftover, Line, Tok, Headers

\* Out of step: the host reads on until what it takes for the CRC is none.
LEMMA LostTold ==
  ASSUME Here, Tries >= 3, ReadLost, UNCHANGED fault
  PROVE  StepInv' /\ Told'
<1>1. Leaves /\ host.pc = "lost"
  BY DEF ReadLost, HostTurns, Leaves
<1>2. FirstTryLost
  BY <1>1 DEF Here, StepInv, Idle, Asked, Asking, Uploading, Uploaded, UploadLost, Removing, Listing,
              Downloading, Agreed, SecondTryLost, NoneToSend
<1>3. /\ toDev \in Seq(Leftover) /\ toHost \in Seq(HostTokens) /\ dev.pc \in {"poll", "ack"}
      /\ host.op = "get" /\ Named # None /\ fault # "none" /\ host.tries = 1
      /\ host.as = host.path
  BY <1>2, NameIs DEF FirstTryLost, Here
<1>4. host.file \in Seq(Chunks \cup {Mangled})
  BY <1>3, HostIs
<1>5. CASE HostTakes /\ UNCHANGED host /\ toDev' \in Seq(Leftover)
  BY <1>1, <1>2, <1>3, <1>4, <1>5, TailStream, FirstTryOn
<1>6. CASE Fails(toHost)
  BY <1>1, <1>3, <1>6, FailsTold
<1>7. Append(toDev, Line("ack")) \in Seq(Leftover)
  BY <1>3, LeftoverAppend
<1> QED
  BY <1>3, <1>5, <1>6, <1>7 DEF ReadLost

\* The last comparison: a CRC that came over is that of the named file.
LEMMA ComparesTold ==
  ASSUME Leaves, host.op = "get", Named # None, dev.pc = "poll", toDev \in Seq(Leftover),
         Head(toHost).v \in {Named, Mangled}, Head(toHost).v = host.file, Ends("ok")
  PROVE  StepInv' /\ Told'
<1>1. host.file = Named
  BY HostIs DEF Leaves
<1> QED
  BY <1>1, EndsTold

\* A download out of step ends well only on the named file.
LEMMA FirstTryReads ==
  ASSUME Leaves, FirstTryLost, HostTakes, host.pc \in {"size", "data", "crc"}, Downloads(host.pc)
  PROVE  StepInv' /\ Told'
<1> DEFINE c == Head(toHost)
<1>1. /\ toDev \in Seq(Leftover) /\ toHost \in Seq(HostTokens)
      /\ host.op = "get" /\ Named # None
      /\ \A i \in 1 .. Len(toHost) : toHost[i].t = "crc" => toHost[i].v \in {Named, Mangled} /\ dev.pc = "poll"
  BY DEF FirstTryLost
<1>2. c = toHost[1] /\ 1 \in 1 .. Len(toHost) /\ c \in HostTokens /\ toHost' \in Seq(HostTokens)
      /\ \A i \in 1 .. Len(toHost') : \E j \in 1 .. Len(toHost) : toHost'[i] = toHost[j]
  BY <1>1, TailStream
<1>3. host.file \in Seq(Chunks \cup {Mangled}) /\ Here
  BY <1>1, HostIs DEF Leaves
<1>4. CASE Waits("lost")
  <2>1. /\ UNCHANGED toDev /\ host'.op = host.op /\ host'.path = host.path /\ host'.as = host.as
        /\ host'.tries = host.tries /\ host'.file = host.file /\ host'.pc = "lost"
    BY <1>3, <1>4, HostIs DEF Waits
  <2> QED
    BY <1>1, <1>2, <1>3, <2>1, FirstTryOn
<1>5. CASE host.pc = "size" /\ c.t = "size"
  <2>1. /\ UNCHANGED toDev
        /\ host' = [host EXCEPT !.n = c.v, !.pc = IF c.v = 0 THEN "crc" ELSE "data"]
    BY <1>5 DEF Downloads
  <2>2. /\ host'.op = host.op /\ host'.path = host.path /\ host'.as = host.as /\ host'.tries = host.tries
        /\ host'.file = host.file /\ host'.pc \in {"crc", "data"}
    BY <1>3, <2>1, HostIs
  <2> QED
    BY <1>1, <1>2, <1>3, <2>1, <2>2, FirstTryOn
<1>6. CASE host.pc = "data" /\ c.t = "data"
  <2>1. /\ toDev' = Append(toDev, Line("ack"))
        /\ host' = [host EXCEPT !.file = Append(@, c.v), !.pc = IF Len(host.file) + 1 = host.n THEN "crc" ELSE "data"]
    BY <1>6 DEF Downloads
  <2>2. c.v \in Chunks \cup {Mangled}
    BY <1>2, <1>6 DEF HostTokens, Lines
  <2>3. Append(host.file, c.v) \in Seq(Chunks \cup {Mangled})
    BY <1>3, <2>2
  <2>4. /\ host'.op = host.op /\ host'.path = host.path /\ host'.as = host.as /\ host'.tries = host.tries
        /\ host'.file = Append(host.file, c.v) /\ host'.pc \in {"crc", "data"}
    BY <1>3, <2>1, HostIs
  <2>5. toDev' \in Seq(Leftover)
    BY <1>1, <2>1, LeftoverAppend
  <2> QED
    BY <1>1, <1>2, <2>3, <2>4, <2>5, FirstTryOn
<1>7. CASE host.pc = "crc" /\ c.t = "crc" /\ c.v = host.file /\ Ends("ok")
  <2>1. c.v \in {Named, Mangled} /\ dev.pc = "poll"
    BY <1>1, <1>2, <1>7
  <2> QED
    BY <1>1, <1>7, <2>1, ComparesTold
<1> QED
  BY <1>4, <1>5, <1>6, <1>7 DEF Downloads, Compares

\* The same for a download in step that goes on: what it has is part of the file.
LEMMA InStepOn ==
  ASSUME Leaves, host.op = "get", Named # None,
         host'.op = host.op, host'.path = host.path, host'.as = host.as, host'.tries = host.tries,
         host'.file \in Seq(Chunks \cup {Mangled}), host'.pc \in {"ready", "size", "data", "crc"}
  PROVE  SendInv' /\ Named' = Named /\ Again' /\ Told'
<1>1. UNCHANGED <<dev, card, slow, fault>> /\ Here /\ Named' = Named
  BY DEF Leaves, Named
<1>2. Again /\ host.pc # "idle" /\ SendInv
  BY <1>1 DEF Leaves, Here, StepInv, SendInv
<1>3. Again'
  BY <1>1, <1>2 DEF Again
<1>4. SendInv'
  BY <1>1, <1>2, <1>3 DEF SendInv
<1> QED
  BY <1>1, <1>3, <1>4, BusySaysNothing

LEMMA NamedIs ==
  ASSUME Here, host.op = "get", Named # None
  PROVE  /\ Named \in Files /\ Named \in Seq(Chunks) /\ Named \in Seq(Chunks \cup {Mangled}) /\ Len(Named) \in Nat
         /\ Tok("size", Len(Named)) \in HostTokens /\ Tok("crc", Named) \in HostTokens
         /\ \A i \in 1 .. Len(Named) : Tok("data", Named[i]) \in HostTokens
<1>1. host.as \in Paths /\ card \in [Paths -> Files \cup {None}]
  BY HostIs DEF Here, IInv, CardInv
<1>2. Named \in Files
  BY <1>1 DEF Named
<1>3. Named \in Seq(Chunks) /\ Named \in Seq(Chunks \cup {Mangled})
  BY <1>2, FileTokens, SeqMonotonic, Chunks \subseteq Chunks \cup {Mangled}
<1> QED
  BY <1>2, <1>3, SendTokens

LEMMA OneOf ==
  ASSUME NEW S, NEW t \in Seq(S), Len(t) = 1
  PROVE  t = <<t[1]>>
<1>1. t[1] \in S
  BY ElementOfSeq
<1>2. <<t[1]>> \in Seq(S) /\ Len(<<t[1]>>) = 1 /\ <<t[1]>>[1] = t[1]
  BY <1>1
<1>3. \A i \in 1 .. 1 : t[i] = <<t[1]>>[i]
  BY <1>2
<1> QED
  BY <1>2, <1>3, SeqEqual

LEMMA OneLeft ==
  ASSUME NEW S, NEW s \in Seq(S), Len(s) = 2
  PROVE  Head(s) = s[1] /\ Tail(s) = <<s[2]>>
<1>1. s # <<>>
  BY EmptySeq
<1>2. /\ Tail(s) \in Seq(S) /\ Len(Tail(s)) = Len(s) - 1 /\ Head(s) = s[1]
      /\ \A i \in 1 .. Len(s) - 1 : Tail(s)[i] = s[i + 1]
  BY <1>1, StreamTail
<1>3. 1 \in 1 .. 2 - 1 /\ 2 - 1 = 1 /\ 1 + 1 = 2
  OBVIOUS
<1>4. Len(Tail(s)) = 1 /\ Tail(s)[1] = s[2]
  BY <1>2, <1>3, Zenon
<1> QED
  BY <1>2, <1>4, OneOf

\* The size: it is the named file's, and what follows it is the first chunk or the CRC.
LEMMA SizeRead ==
  ASSUME Leaves, Downloading, host.pc = "size", HostTakes, Downloads("size")
  PROVE  StepInv' /\ Told'
<1>1. /\ host.op = "get" /\ Named # None /\ toHost \in Seq(HostTokens)
      /\ toDev = <<>> /\ host.file = <<>>
      /\ Len(toHost) = 2 /\ toHost[1] = Tok("size", Len(Named)) /\ AtFirst(toHost[2])
  BY DEF Downloading, Agreed
<1>2. Head(toHost) = Tok("size", Len(Named)) /\ toHost' = <<toHost[2]>>
  BY <1>1, OneLeft DEF HostTakes
<1>3. Head(toHost).t = "size" /\ Head(toHost).v = Len(Named)
  BY <1>2 DEF Tok
<1>4. /\ host' = [host EXCEPT !.n = Len(Named), !.pc = IF Len(Named) = 0 THEN "crc" ELSE "data"]
      /\ UNCHANGED toDev
  BY <1>3 DEF Downloads
<1>5. /\ host'.op = "get" /\ host'.path = host.path /\ host'.as = host.as /\ host'.tries = host.tries
      /\ host'.file = <<>> /\ host'.n = Len(Named) /\ host'.pc = IF Len(Named) = 0 THEN "crc" ELSE "data"
  BY <1>1, <1>4, HostIs DEF Leaves
<1>6. <<>> \in Seq(Chunks \cup {Mangled}) /\ Len(<<>>) = 0
  BY EmptySeq
<1>7. SendInv' /\ Named' = Named /\ Again' /\ Told'
  BY <1>1, <1>5, <1>6, InStepOn
<1>8. UNCHANGED <<dev, card, slow, fault>> /\ Len(Named) \in Nat
  BY <1>1, NamedIs DEF Leaves
<1>9. Agreed'
  <2>1. Len(host'.file) = 0
    BY <1>5, <1>6
  <2>2. Len(host'.file) <= Len(Named) /\ (Len(host'.file) = host'.n <=> Len(Named) = 0)
    BY <1>5, <1>8, <2>1
  <2>3. \A i \in 1 .. Len(host'.file) : host'.file[i] = Named[i]
    BY <2>1
  <2> QED
    BY <1>5, <1>7, <2>2, <2>3 DEF Agreed
<1>10. CASE Len(Named) = 0
  <2>1. toHost' = <<Tok("crc", Named)>> /\ dev.pc = "poll" /\ host'.pc = "crc" /\ toDev' = <<>>
    BY <1>1, <1>2, <1>4, <1>5, <1>10 DEF AtFirst
  <2>2. toHost' \in Seq(HostTokens)
    BY <1>1, <2>1, NamedIs DEF Leaves
  <2>3. Downloading'
    BY <1>5, <1>7, <1>8, <1>9, <2>1, <2>2, <1>1 DEF Downloading
  <2> QED
    BY <1>7, <2>3 DEF StepInv
<1>11. CASE Len(Named) # 0
  <2>1. toHost' = <<Tok("data", Named[1])>> /\ dev.pc = "ack" /\ dev.n = 1 /\ host'.pc = "data" /\ toDev' = <<>>
    BY <1>1, <1>2, <1>4, <1>5, <1>11 DEF AtFirst
  <2>2. 1 \in 1 .. Len(Named)
    BY <1>8, <1>11
  <2>3. Tok("data", Named[1]) \in HostTokens
    BY <1>1, <2>2, NamedIs DEF Leaves
  <2>4. toHost' \in Seq(HostTokens)
    BY <2>1, <2>3
  <2>5. dev'.n = Len(host'.file) + 1
    BY <1>5, <1>6, <1>8, <2>1
  <2>6. Downloading'
    BY <1>5, <1>7, <1>8, <1>9, <2>1, <2>4, <2>5, <1>1 DEF Downloading
  <2> QED
    BY <1>7, <2>6 DEF StepInv
<1> QED
  BY <1>10, <1>11

\* A chunk: it is the file's next, and is acknowledged.
LEMMA DataRead ==
  ASSUME Leaves, Downloading, host.pc = "data", HostTakes, Downloads("data")
  PROVE  StepInv' /\ Told'
<1>1. /\ host.op = "get" /\ Named # None /\ Agreed /\ dev.pc = "ack" /\ dev.n = Len(host.file) + 1
      /\ toDev = <<>> /\ toHost = <<Tok("data", Named[dev.n])>>
  BY DEF Downloading, HostTakes
<1>2. Head(toHost) = Tok("data", Named[dev.n]) /\ toHost' = <<>>
  BY <1>1, OneToken DEF HostTakes
<1>3. Head(toHost).t = "data" /\ Head(toHost).v = Named[dev.n]
  BY <1>2 DEF Tok
<1>4. /\ toDev' = Append(toDev, Line("ack"))
      /\ host' = [host EXCEPT !.file = Append(@, Named[dev.n]),
                              !.pc = IF Len(host.file) + 1 = host.n THEN "crc" ELSE "data"]
  BY <1>3 DEF Downloads
<1>5. /\ Here /\ UNCHANGED <<dev, card, slow, fault>> /\ dev.n \in 1 .. Len(Named) /\ Len(Named) \in Nat
      /\ Named \in Seq(Chunks)
  BY <1>1, SenderIs, NamedIs DEF Leaves
<1> DEFINE g == Append(host.file, Named[dev.n])
<1>6. /\ host'.op = "get" /\ host'.path = host.path /\ host'.as = host.as /\ host'.tries = host.tries
      /\ host'.n = host.n /\ host'.file = g /\ host'.pc = IF Len(host.file) + 1 = host.n THEN "crc" ELSE "data"
  BY <1>1, <1>4, <1>5, HostIs
<1>7. host.file \in Seq(Chunks \cup {Mangled}) /\ Named[dev.n] \in Chunks \cup {Mangled}
  BY <1>1, <1>5, HostIs
<1>8. /\ g \in Seq(Chunks \cup {Mangled}) /\ Len(g) = Len(host.file) + 1 /\ Len(host.file) \in Nat
      /\ \A i \in 1 .. Len(host.file) : g[i] = host.file[i]
      /\ g[Len(host.file) + 1] = Named[dev.n]
  BY <1>7
<1> HIDE DEF g
<1>9. SendInv' /\ Named' = Named /\ Again' /\ Told'
  BY <1>1, <1>6, <1>8, InStepOn
<1>10. Agreed'
  <2>1. host.n = Len(Named) /\ \A i \in 1 .. Len(host.file) : host.file[i] = Named[i]
    BY <1>1 DEF Agreed
  <2>2. Len(g) <= Len(Named)
    BY <1>1, <1>5, <1>8
  <2>3. ASSUME NEW i \in 1 .. Len(g) PROVE g[i] = Named[i]
    <3>1. CASE i = Len(host.file) + 1
      BY <1>1, <1>8, <3>1
    <3>2. CASE i # Len(host.file) + 1
      <4>1. i \in 1 .. Len(host.file)
        BY <1>8, <3>2
      <4> QED
        BY <1>8, <2>1, <4>1
    <3> QED
      BY <3>1, <3>2
  <2>4. host'.pc = IF Len(g) = host.n THEN "crc" ELSE "data"
    BY <1>6, <1>8
  <2> QED
    BY <1>6, <1>9, <2>1, <2>2, <2>3, <2>4 DEF Agreed
<1>11. toDev' = <<Line("ack")>> /\ <<>> \in Seq(HostTokens)
  BY <1>1, <1>4, EmptySeq
<1>12. dev'.pc = "ack" /\ dev'.n = Len(host'.file)
  BY <1>1, <1>5, <1>6, <1>8
<1>13. Downloading'
  BY <1>1, <1>2, <1>6, <1>9, <1>10, <1>11, <1>12 DEF Downloading
<1> QED
  BY <1>9, <1>13 DEF StepInv

\* The CRC: the host has the file.
LEMMA CrcRead ==
  ASSUME Leaves, Downloading, host.pc = "crc", HostTakes, Downloads("crc")
  PROVE  StepInv' /\ Told'
<1>1. /\ host.op = "get" /\ Named # None /\ Agreed /\ dev.pc = "poll"
      /\ toDev = <<>> /\ toHost = <<Tok("crc", Named)>>
  BY DEF Downloading, HostTakes
<1>2. Head(toHost).t = "crc" /\ Head(toHost).v = Named
  BY <1>1, OneToken DEF Tok
<1>3. /\ Len(host.file) = Len(Named) /\ Here
      /\ \A i \in 1 .. Len(host.file) : host.file[i] = Named[i]
  BY <1>1 DEF Agreed, Leaves
<1>4. host.file \in Seq(Chunks \cup {Mangled}) /\ Named \in Seq(Chunks \cup {Mangled})
  BY <1>1, <1>3, HostIs, NamedIs
<1>5. host.file = Named
  BY <1>3, <1>4, SeqEqual
<1>6. Ends("ok")
  BY <1>2, <1>5 DEF Downloads, Compares
<1>7. toDev \in Seq(Leftover)
  BY <1>1, EmptySeq
<1> QED
  BY <1>1, <1>5, <1>6, <1>7, EndsTold

LEMMA DownloadTold ==
  ASSUME Here, ReadDownload, UNCHANGED fault
  PROVE  StepInv' /\ Told'
<1>1. Leaves /\ host.pc \in {"size", "data", "crc"} /\ HostTakes /\ Downloads(host.pc)
  BY DEF ReadDownload, HostTurns, Leaves
<1>2. Downloading \/ FirstTryLost
  BY <1>1 DEF Here, StepInv, Idle, Asked, Asking, Uploading, Uploaded, UploadLost, Removing, Listing,
              SecondTryLost, NoneToSend
<1> QED
  BY <1>1, <1>2, FirstTryReads, SizeRead, DataRead, CrcRead

\* An upload that a fault has stopped goes on, or fails: no OK will come.
LEMMA LostUploadOn ==
  ASSUME Leaves, UploadLost, toDev' \in Seq(Leftover), toHost' \in Seq(HostTokens \ Saying({"OK"})),
         dev.pc = "poll", host'.op = "put", host'.pc \in {"ready", "ack", "answer"}
  PROVE  StepInv' /\ Told'
<1>1. UNCHANGED <<dev, card, slow, fault>> /\ host.op = "put"
  BY DEF Leaves, UploadLost
<1>2. SendInv'
  BY <1>1 DEF SendInv
<1>3. UploadLost'
  BY <1>1 DEF UploadLost
<1> QED
  BY <1>2, <1>3, BusySaysNothing DEF StepInv

\* The next chunk, or the CRC, is put behind what there is.
LEMMA UploadsNext ==
  ASSUME Here, host.op = "put", Uploads
  PROVE  /\ host.file \in Files /\ host.n \in 0 .. Len(host.file) /\ Len(host.file) \in Nat
         /\ host'.op = "put" /\ host'.path = host.path /\ host'.as = host.as /\ host'.file = host.file
         /\ \/ /\ host.n = Len(host.file) /\ host'.pc = "answer" /\ host'.n = host.n
               /\ toDev' = Append(toDev, Tok("crc", host.file))
            \/ /\ host.n + 1 \in 1 .. Len(host.file) /\ host'.pc = "ack" /\ host'.n = host.n + 1
               /\ toDev' = Append(toDev, Tok("data", host.file[host.n + 1]))
         /\ toDev \in Seq(Leftover) => toDev' \in Seq(Leftover)
<1>1. host.file \in Files /\ host.n \in 0 .. Len(host.file) /\ Len(host.file) \in Nat
  BY FileTokens DEF Here, IInv, HostInv
<1>2. CASE host.n = Len(host.file)
  <2>1. toDev' = Append(toDev, Tok("crc", host.file)) /\ host' = [host EXCEPT !.pc = "answer"]
    BY <1>2 DEF Uploads
  <2>2. /\ host'.op = "put" /\ host'.path = host.path /\ host'.as = host.as
        /\ host'.file = host.file /\ host'.pc = "answer" /\ host'.n = host.n
    BY <2>1, HostIs
  <2>3. Tok("crc", host.file) \in Leftover
    BY <1>1, FileTokens, LeftoverAppend
  <2> QED
    BY <1>1, <1>2, <2>1, <2>2, <2>3, LeftoverAppend
<1>3. CASE host.n # Len(host.file)
  <2>1. toDev' = Append(toDev, Tok("data", host.file[host.n + 1])) /\ host' = [host EXCEPT !.pc = "ack", !.n = @ + 1]
    BY <1>3 DEF Uploads
  <2>2. /\ host'.op = "put" /\ host'.path = host.path /\ host'.as = host.as
        /\ host'.file = host.file /\ host'.pc = "ack" /\ host'.n = host.n + 1
    BY <2>1, HostIs
  <2>3. host.n + 1 \in 1 .. Len(host.file)
    BY <1>1, <1>3
  <2>4. Tok("data", host.file[host.n + 1]) \in Leftover
    BY <1>1, <2>3, FileTokens, LeftoverAppend
  <2> QED
    BY <1>1, <2>1, <2>2, <2>3, <2>4, LeftoverAppend
<1> QED
  BY <1>2, <1>3

\* In step: what the device has is what the host has sent.
LEMMA UploadInStep ==
  ASSUME Leaves, Uploading, toDev = <<>>, toHost' = <<>>, Len(dev.file) = host.n, Uploads
  PROVE  StepInv' /\ Told'
<1>1. UNCHANGED <<dev, card, slow, fault>> /\ Here
  BY DEF Leaves
<1>2. /\ host.op = "put" /\ dev.path = host.as /\ dev.n = Len(host.file) /\ AsSent
      /\ dev.pc = (IF Len(dev.file) = dev.n THEN "crc" ELSE "chunk")
  BY DEF Uploading
<1>3. /\ host.file \in Files /\ host.n \in 0 .. Len(host.file) /\ Len(host.file) \in Nat
      /\ host'.op = "put" /\ host'.path = host.path /\ host'.as = host.as /\ host'.file = host.file
      /\ \/ /\ host.n = Len(host.file) /\ host'.pc = "answer" /\ host'.n = host.n
            /\ toDev' = Append(toDev, Tok("crc", host.file))
         \/ /\ host.n + 1 \in 1 .. Len(host.file) /\ host'.pc = "ack" /\ host'.n = host.n + 1
            /\ toDev' = Append(toDev, Tok("data", host.file[host.n + 1]))
  BY <1>1, <1>2, UploadsNext
<1>4. AsSent'
  BY <1>1, <1>2, <1>3 DEF AsSent
<1>5. SendInv' /\ host'.pc # "idle"
  BY <1>1, <1>2, <1>3 DEF SendInv
<1>6. CASE host.n = Len(host.file) /\ host'.pc = "answer" /\ toDev' = Append(toDev, Tok("crc", host.file))
  <2>1. toDev' = <<Tok("crc", host.file)>>
    BY <1>6
  <2>2. Uploading'
    BY <1>1, <1>2, <1>3, <1>4, <1>6, <2>1 DEF Uploading
  <2> QED
    BY <1>5, <2>2, BusySaysNothing DEF StepInv
<1>7. CASE /\ host.n + 1 \in 1 .. Len(host.file) /\ host'.pc = "ack" /\ host'.n = host.n + 1
           /\ toDev' = Append(toDev, Tok("data", host.file[host.n + 1]))
  <2>1. toDev' = <<Tok("data", host.file[host.n + 1])>>
    BY <1>7
  <2>2. host.file[host.n + 1] \in Chunks \cup {Mangled}
    BY <1>3, <1>7, FileTokens
  <2>3. Len(dev.file) = host'.n - 1
    BY <1>3, <1>7
  <2>4. \E v \in Chunks \cup {Mangled} : toDev' = <<Tok("data", v)>> /\ (fault' = "none" => v = host'.file[host'.n])
    BY <1>3, <1>7, <2>1, <2>2
  <2>5. Uploading'
    BY <1>1, <1>2, <1>3, <1>4, <1>7, <2>3, <2>4 DEF Uploading
  <2> QED
    BY <1>5, <2>5, BusySaysNothing DEF StepInv
<1> QED
  BY <1>3, <1>6, <1>7

\* upload() after a chunk.
LEMMA AckTold ==
  ASSUME Here, ReadAck, UNCHANGED fault
  PROVE  StepInv' /\ Told'
<1>1. /\ Leaves /\ host.pc = "ack" /\ HostTakes /\ toHost # <<>>
      /\ IF Head(toHost).t = "ack" THEN Uploads ELSE Ends("err")
  BY DEF ReadAck, HostTurns, HostTakes, Leaves
<1>2. Uploading \/ UploadLost
  BY <1>1 DEF Here, StepInv, Idle, Asked, Asking, Uploaded, Removing, Listing,
              Downloading, Agreed, FirstTryLost, SecondTryLost, NoneToSend
<1>3. CASE Uploading
  <2>1. Len(dev.file) = host.n /\ toDev = <<>> /\ toHost = <<Line("ack")>>
    BY <1>1, <1>3 DEF Uploading
  <2>2. toHost' = <<>> /\ Head(toHost).t = "ack"
    BY <1>1, <2>1, OneToken DEF HostTakes, Line, Tok
  <2> QED
    BY <1>1, <1>3, <2>1, <2>2, UploadInStep
<1>4. CASE UploadLost
  <2>1. /\ host.op = "put" /\ fault # "none" /\ dev.pc = "poll" /\ Here
        /\ toDev \in Seq(Leftover) /\ toHost \in Seq(HostTokens \ Saying({"OK"}))
    BY <1>1, <1>4 DEF UploadLost, Leaves
  <2>2. toHost' \in Seq(HostTokens \ Saying({"OK"}))
    BY <1>1, <2>1, TailStream
  <2>3. CASE Uploads
    BY <1>1, <1>4, <2>1, <2>2, <2>3, UploadsNext, LostUploadOn
  <2>4. CASE Ends("err")
    BY <1>1, <2>1, <2>4, EndsTold
  <2> QED
    BY <1>1, <2>3, <2>4
<1> QED
  BY <1>2, <1>3, <1>4

\* _read_until("OK", "ERR") and listing(): the answer is that to what was asked.
LEMMA AnswerTold ==
  ASSUME Here, ReadAnswer, UNCHANGED fault
  PROVE  StepInv' /\ Told'
<1> DEFINE k == Head(toHost).t
<1>1. Leaves /\ host.pc = "answer" /\ toHost # <<>>
  BY DEF ReadAnswer, HostTurns, Leaves
<1>2. \/ k = (IF host.op = "books" THEN "END" ELSE "OK") /\ HostTakes /\ Ends("ok")
      \/ k = "ERR" /\ host.op # "books" /\ HostTakes /\ Ends("err")
      \/ k # (IF host.op = "books" THEN "END" ELSE "OK") /\ Passes
  BY DEF ReadAnswer
<1>3. Uploaded \/ UploadLost \/ Removing \/ Listing
  BY <1>1 DEF Here, StepInv, Idle, Asked, Asking, Overlap, Uploading,
              Downloading, Agreed, FirstTryLost, SecondTryLost, NoneToSend
<1>4. CASE Uploaded
  <2>1. /\ host.op = "put" /\ dev.pc = "poll" /\ toDev = <<>> /\ toHost = <<Line("OK")>>
        /\ Named = host.file \/ fault = "unsaved"
    BY <1>4 DEF Uploaded
  <2>2. k = "OK"
    BY <2>1, OneToken DEF Line, Tok
  <2>3. Ends("ok")
    BY <1>2, <2>1, <2>2
  <2>4. toDev \in Seq(Leftover)
    BY <2>1, EmptySeq
  <2> QED
    BY <1>1, <2>1, <2>3, <2>4, EndsTold
<1>5. CASE UploadLost
  <2>1. /\ host.op = "put" /\ fault # "none" /\ dev.pc = "poll" /\ Here
        /\ toDev \in Seq(Leftover) /\ toHost \in Seq(HostTokens \ Saying({"OK"}))
    BY <1>1, <1>5 DEF UploadLost, Leaves
  <2>2. k # "OK"
    BY <1>1, <2>1, StreamTail DEF Saying
  <2>3. CASE Ends("err")
    BY <1>1, <2>1, <2>3, EndsTold
  <2>4. CASE Passes
    <3>1. toHost' \in Seq(HostTokens \ Saying({"OK"})) /\ UNCHANGED <<host, toDev>>
      BY <1>1, <2>1, <2>4, PassesStream, PassesRest
    <3> QED
      BY <1>1, <1>5, <2>1, <3>1, LostUploadOn
  <2> QED
    BY <1>2, <2>1, <2>2, <2>3, <2>4
<1>6. CASE Removing
  <2>1. /\ host.op = "rm" /\ dev.pc = "poll" /\ toDev \in Seq(Leftover) /\ toHost \in Seq(HostTokens)
        /\ Named = None \/ toHost \in Seq(HostTokens \ Saying({"OK"}))
    BY <1>6 DEF Removing
  <2>2. k = "OK" => Named = None
    BY <1>1, <2>1, StreamTail DEF Saying
  <2>3. CASE Ends("ok") /\ k = "OK"
    BY <1>1, <2>1, <2>2, <2>3, EndsTold
  <2>4. CASE Ends("err")
    BY <1>1, <2>1, <2>4, EndsTold
  <2>5. CASE Passes
    <3>1. toHost' \in Seq(HostTokens) /\ UNCHANGED <<host, toDev>>
      BY <1>1, <2>1, <2>5, PassesStream, PassesRest
    <3>2. toHost \in Seq(HostTokens \ Saying({"OK"})) => toHost' \in Seq(HostTokens \ Saying({"OK"}))
      BY <1>1, <2>5, PassesStream
    <3>3. UNCHANGED <<dev, card, slow, fault>>
      BY <1>1 DEF Leaves
    <3>4. Removing' /\ SendInv'
      BY <1>6, <3>1, <3>2, <3>3 DEF Removing, SendInv, Named
    <3> QED
      BY <1>1, <3>1, <3>4, BusySaysNothing DEF StepInv
  <2> QED
    BY <1>2, <2>1, <2>3, <2>4, <2>5
<1>7. CASE Listing
  <2>1. host.op = "books" /\ dev.pc = "poll" /\ toDev \in Seq(Leftover) /\ toHost \in Seq(HostTokens)
    BY <1>1, <1>7 DEF Listing
  <2>2. CASE Ends("ok")
    BY <1>1, <2>1, <2>2, EndsTold
  <2>3. CASE Passes
    <3>1. toHost' \in Seq(HostTokens) /\ UNCHANGED <<host, toDev>> /\ UNCHANGED <<dev, card, slow, fault>>
      BY <1>1, <2>1, <2>3, PassesStream, PassesRest DEF Leaves
    <3>2. Listing' /\ SendInv'
      BY <1>7, <2>1, <3>1 DEF Listing, SendInv
    <3> QED
      BY <1>1, <3>1, <3>2, BusySaysNothing DEF StepInv
  <2> QED
    BY <1>2, <2>1, <2>2, <2>3
<1> QED
  BY <1>3, <1>4, <1>5, <1>6, <1>7

\* Nothing of what a device sends of a file is a line.
LEMMA WordlessSays ==
  ASSUME NEW s \in Seq(Wordless), s # <<>>
  PROVE  Head(s).t \in {"size", "data", "crc"} /\ Head(s).t \notin {"READY", "ERR"}
<1>1. Head(s) \in Wordless
  BY StreamTail
<1> QED
  BY <1>1 DEF Wordless, Saying

\* The request of a second try is still behind the ACK of the first.
LEMMA AskedReads ==
  ASSUME Leaves, Asked, host.pc = "ready", toHost # <<>>, toHost \in Seq(Wordless) => Passes
  PROVE  StepInv' /\ Told'
<1>1. Overlap /\ dev.pc \in {"poll", "ack"} /\ toHost \in Seq(Wordless)
  BY DEF Asked
<1>2. toHost' \in Seq(Wordless) /\ UNCHANGED <<host, toDev>> /\ UNCHANGED <<dev, card, slow, fault>> /\ Here
  BY <1>1, PassesStream, PassesRest DEF Leaves
<1>3. host.op = "get" /\ Named # None /\ host.file \in Seq(Chunks \cup {Mangled})
  BY <1>1, <1>2, HostIs DEF Overlap
<1>4. SendInv' /\ Told' /\ Named' = Named
  BY <1>2, <1>3, InStepOn
<1>5. Asked'
  BY <1>1, <1>2, <1>4, SameRequest DEF Asked, Overlap
<1> QED
  BY <1>4, <1>5 DEF StepInv

LEMMA SecondTryReads ==
  ASSUME Leaves, SecondTryLost, toHost # <<>>, toHost \in Seq(Wordless) => Passes
  PROVE  StepInv' /\ Told'
<1>1. Overlap /\ dev.pc \in {"poll", "ack"} /\ toHost \in Seq(Wordless) /\ host.pc = "ready"
  BY DEF SecondTryLost
<1>2. toHost' \in Seq(Wordless) /\ UNCHANGED <<host, toDev>> /\ UNCHANGED <<dev, card, slow, fault>> /\ Here
  BY <1>1, PassesStream, PassesRest DEF Leaves
<1>3. host.op = "get" /\ Named # None /\ host.file \in Seq(Chunks \cup {Mangled})
  BY <1>1, <1>2, HostIs DEF Overlap
<1>4. SendInv' /\ Told' /\ Named' = Named /\ Again'
  BY <1>1, <1>2, <1>3, InStepOn
<1>5. SecondTryLost'
  BY <1>1, <1>2, <1>4 DEF SecondTryLost, Overlap
<1> QED
  BY <1>4, <1>5 DEF StepInv

\* The READY is at the head of the stream, or behind what is left of a first try.
LEMMA ReadyIs ==
  ASSUME Here, Downloading, host.pc = "ready"
  PROVE  /\ host.op = "get" /\ Named # None /\ toHost \in Seq(HostTokens) /\ toDev = <<>> /\ host.file = <<>>
         /\ Len(toHost) \in Nat /\ Len(toHost) >= 3 /\ (Len(toHost) > 3 => host.tries = 2)
         /\ \A i \in 1 .. Len(toHost) - 3 : toHost[i] \in Wordless
         /\ toHost[Len(toHost) - 2] = Line("READY") /\ toHost[Len(toHost) - 1] = Tok("size", Len(Named))
         /\ AtFirst(toHost[Len(toHost)])
         /\ host.file \in Seq(Chunks \cup {Mangled})
<1>1. /\ host.op = "get" /\ Named # None /\ toHost \in Seq(HostTokens) /\ toDev = <<>> /\ host.file = <<>>
      /\ Len(toHost) >= 3 /\ (Len(toHost) > 3 => host.tries = 2)
      /\ \A i \in 1 .. Len(toHost) - 3 : toHost[i] \in Wordless
      /\ toHost[Len(toHost) - 2] = Line("READY") /\ toHost[Len(toHost) - 1] = Tok("size", Len(Named))
      /\ AtFirst(toHost[Len(toHost)])
  BY DEF Downloading, Agreed
<1> QED
  BY <1>1, HostIs, EmptySeq

\* In step with nothing else on its way: the READY is read, and the size comes next.
LEMMA ReadyComes ==
  ASSUME Leaves, Downloading, host.pc = "ready", Len(toHost) = 3, HostTakes, Waits("size")
  PROVE  StepInv' /\ Told'
<1>1. Here /\ UNCHANGED <<dev, card, slow, fault>>
  BY DEF Leaves
<1>2. /\ host.op = "get" /\ Named # None /\ toHost \in Seq(HostTokens) /\ toDev = <<>> /\ host.file = <<>>
      /\ toHost[2] = Tok("size", Len(Named)) /\ AtFirst(toHost[3])
      /\ host.file \in Seq(Chunks \cup {Mangled})
  <2>1. 3 - 1 = 2
    OBVIOUS
  <2> QED
    BY <1>1, <2>1, ReadyIs
<1>3. /\ host'.pc = "size" /\ host'.op = host.op /\ host'.path = host.path /\ host'.as = host.as
      /\ host'.tries = host.tries /\ host'.file = host.file /\ UNCHANGED toDev
  BY <1>1, HostIs DEF Waits
<1>4. SendInv' /\ Told' /\ Named' = Named /\ Again'
  BY <1>2, <1>3, InStepOn
<1>5. /\ toHost' \in Seq(HostTokens) /\ Len(toHost') = 2
      /\ toHost'[1] = toHost[2] /\ toHost'[2] = toHost[3]
  <2>1. /\ toHost' \in Seq(HostTokens) /\ Len(toHost') = Len(toHost) - 1
        /\ \A i \in 1 .. Len(toHost) - 1 : toHost'[i] = toHost[i + 1]
    BY <1>2, TailStream
  <2>2. /\ 3 - 1 = 2 /\ 1 \in 1 .. 2 /\ 2 \in 1 .. 2 /\ 1 + 1 = 2 /\ 2 + 1 = 3
    OBVIOUS
  <2> QED
    BY <2>1, <2>2, Zenon
<1>6. AtFirst(toHost[2])'
  BY <1>1, <1>2, <1>4, <1>5 DEF AtFirst
<1>7. Downloading'
  BY <1>2, <1>3, <1>4, <1>5, <1>6 DEF Downloading
<1> QED
  BY <1>4, <1>7 DEF StepInv

LEMMA NoneRefused ==
  ASSUME Leaves, Tries >= 3, NoneToSend, toHost # <<>>, Head(toHost).t = "ERR" => Fails(Tail(toHost))
  PROVE  StepInv' /\ Told'
<1>1. /\ host.op = "get" /\ Named = None /\ dev.pc = "poll" /\ toDev \in Seq(Leftover)
      /\ toHost \in Seq(Saying({"ERR"}))
  BY DEF NoneToSend
<1>2. Head(toHost) \in Saying({"ERR"})
  BY <1>1, StreamTail
<1>3. Fails(Tail(toHost))
  BY <1>2 DEF Saying
<1> QED
  BY <1>1, <1>3, FailsTold

LEMMA FirstTryReady ==
  ASSUME Leaves, Tries >= 3, FirstTryLost, host.pc = "ready", toHost # <<>>,
         \/ HostTakes /\ Waits("size")
         \/ Fails(Tail(toHost))
         \/ Passes
  PROVE  StepInv' /\ Told'
<1>1. /\ toDev \in Seq(Leftover) /\ toHost \in Seq(HostTokens) /\ dev.pc \in {"poll", "ack"}
      /\ host.op = "get" /\ Named # None /\ fault # "none" /\ host.tries = 1
      /\ host.as = host.path
  BY NameIs DEF FirstTryLost, Here, Leaves
<1>2. host.file \in Seq(Chunks \cup {Mangled}) /\ Here
  BY <1>1, HostIs DEF Leaves
<1>3. CASE HostTakes /\ Waits("size")
  <2>1. /\ UNCHANGED toDev /\ host'.op = host.op /\ host'.path = host.path /\ host'.as = host.as
        /\ host'.tries = host.tries /\ host'.file = host.file /\ host'.pc = "size"
    BY <1>2, <1>3, HostIs DEF Waits
  <2> QED
    BY <1>1, <1>2, <1>3, <2>1, TailStream, FirstTryOn
<1>4. CASE Fails(Tail(toHost))
  BY <1>1, <1>4, FailsTold
<1>5. CASE Passes
  BY <1>1, <1>2, <1>5, PassesStream, PassesRest, FirstTryOn
<1> QED
  BY <1>3, <1>4, <1>5

LEMMA LostUploadReady ==
  ASSUME Leaves, Tries >= 3, UploadLost, toHost # <<>>,
         \/ HostTakes /\ Uploads
         \/ Fails(Tail(toHost))
         \/ Passes
  PROVE  StepInv' /\ Told'
<1>1. /\ host.op = "put" /\ fault # "none" /\ dev.pc = "poll" /\ Here /\ host.pc \in {"ready", "ack", "answer"}
      /\ toDev \in Seq(Leftover) /\ toHost \in Seq(HostTokens \ Saying({"OK"}))
  BY DEF UploadLost, Leaves
<1>2. CASE HostTakes /\ Uploads
  <2>1. toHost' \in Seq(HostTokens \ Saying({"OK"}))
    BY <1>1, <1>2, TailStream
  <2> QED
    BY <1>1, <1>2, <2>1, UploadsNext, LostUploadOn
<1>3. CASE Fails(Tail(toHost))
  BY <1>1, <1>3, FailsTold
<1>4. CASE Passes
  <2>1. toHost' \in Seq(HostTokens \ Saying({"OK"})) /\ UNCHANGED <<host, toDev>>
    BY <1>1, <1>4, PassesStream, PassesRest
  <2> QED
    BY <1>1, <2>1, LostUploadOn
<1> QED
  BY <1>2, <1>3, <1>4

LEMMA Retyped ==
  ASSUME NEW S, NEW T, NEW s \in Seq(S), \A i \in 1 .. Len(s) : s[i] \in T
  PROVE  s \in Seq(T)
<1>1. s \in [1 .. Len(s) -> S] /\ Len(s) \in Nat
  BY LenProperties
<1>2. s \in [1 .. Len(s) -> T]
  BY <1>1
<1> QED
  BY <1>1, <1>2, SeqDef

\* What is left of the first try goes first; with its last token the READY may go too.
LEMMA ReadyPassed ==
  ASSUME Leaves, Downloading, host.pc = "ready", Len(toHost) # 3, Passes
  PROVE  StepInv' /\ Told'
<1> DEFINE L == Len(toHost)
<1>1. Here /\ UNCHANGED <<dev, card, slow, fault, host, toDev>>
  BY PassesRest DEF Leaves
<1>2. /\ host.op = "get" /\ Named # None /\ toHost \in Seq(HostTokens) /\ toDev = <<>> /\ host.file = <<>>
      /\ L \in Nat /\ L > 3 /\ host.tries = 2
      /\ \A i \in 1 .. L - 3 : toHost[i] \in Wordless
      /\ toHost[L - 2] = Line("READY") /\ toHost[L - 1] = Tok("size", Len(Named)) /\ AtFirst(toHost[L])
      /\ host.file \in Seq(Chunks \cup {Mangled})
  <2>1. \A n \in Nat : n >= 3 /\ n # 3 => n > 3
    OBVIOUS
  <2>2. L \in Nat /\ L >= 3
    BY <1>1, ReadyIs
  <2>3. L > 3
    BY <2>1, <2>2
  <2> QED
    BY <1>1, <2>3, ReadyIs
<1>3. SendInv' /\ Told' /\ Named' = Named /\ Again'
  BY <1>1, <1>2, InStepOn
<1>4. /\ toHost' \in Seq(HostTokens)
      /\ \E d \in {1, 2} : Len(toHost') = L - d /\ \A i \in 1 .. Len(toHost') : toHost'[i] = toHost[i + d]
  BY <1>2, PassesStream, EmptySeq
<1>5. PICK d \in {1, 2} : Len(toHost') = L - d /\ \A i \in 1 .. Len(toHost') : toHost'[i] = toHost[i + d]
  BY <1>4
<1>6. \A c : AtFirst(c) => AtFirst(c)'
  BY <1>1, <1>3 DEF AtFirst
<1> HIDE DEF L
<1>7. CASE L - d >= 3
  <2> DEFINE K == Len(toHost')
  <2>1. /\ K = L - d /\ K \in Nat /\ K >= 3
        /\ K \in 1 .. K /\ K - 1 \in 1 .. K /\ K - 2 \in 1 .. K
        /\ K + d = L /\ (K - 1) + d = L - 1 /\ (K - 2) + d = L - 2
    BY <1>2, <1>5, <1>7
  <2>2. toHost'[K] = toHost[L] /\ toHost'[K - 1] = toHost[L - 1] /\ toHost'[K - 2] = toHost[L - 2]
    BY <1>5, <2>1, Zenon
  <2>3. \A i \in 1 .. K - 3 : i \in 1 .. K /\ i + d \in 1 .. L - 3
    BY <1>2, <2>1
  <2>4. \A i \in 1 .. K - 3 : toHost'[i] \in Wordless
    BY <1>2, <1>5, <2>3
  <2>6. /\ Len(toHost') >= 3 /\ (Len(toHost') > 3 => host'.tries = 2)
        /\ toHost'[Len(toHost') - 2] = Line("READY") /\ toHost'[Len(toHost') - 1] = Tok("size", Len(Named'))
        /\ \A i \in 1 .. Len(toHost') - 3 : toHost'[i] \in Wordless
    BY <1>1, <1>2, <1>3, <2>1, <2>2, <2>4
  <2>7. AtFirst(toHost[Len(toHost)])'
    BY <1>1, <1>2, <1>3, <2>2 DEF AtFirst
  <2>8. Downloading'
    BY <1>1, <1>2, <1>3, <1>4, <2>6, <2>7 DEF Downloading
  <2> QED
    BY <1>3, <2>8 DEF StepInv
<1>8. CASE ~(L - d >= 3)
  <2>1. L = 4 /\ d = 2 /\ Len(toHost') = 2
    BY <1>2, <1>5, <1>8
  <2>2. /\ 1 \in 1 .. 2 /\ 2 \in 1 .. 2 /\ 1 + 2 = 3 /\ 2 + 2 = 4 /\ 4 - 1 = 3
    OBVIOUS
  <2>3. toHost'[1] = Tok("size", Len(Named)) /\ AtFirst(toHost'[2])
    BY <1>2, <1>5, <2>1, <2>2, Zenon
  <2>4. dev.pc \in {"poll", "ack"} /\ toHost'[2].t \in {"data", "crc"} /\ toHost'[1].t = "size"
    BY <2>3 DEF AtFirst, Tok
  <2>5. \A i \in 1 .. 2 : toHost'[i] \in HostTokens
    BY <1>4, <2>1, ElementOfSeq
  <2>6. \A i \in 1 .. 2 : i = 1 \/ i = 2
    OBVIOUS
  <2>7. \A i \in 1 .. 2 : toHost'[i] \in Wordless
    BY <2>4, <2>5, <2>6 DEF Wordless, Saying
  <2>8. toHost' \in Seq(Wordless)
    BY <1>4, <2>1, <2>7, Retyped
  <2>9. SecondTryLost'
    BY <1>1, <1>2, <1>3, <2>4, <2>8, EmptySeq DEF SecondTryLost, Overlap
  <2> QED
    BY <1>3, <2>9 DEF StepInv
<1> QED
  BY <1>7, <1>8

\* _read_until("READY"), of an upload or of a download.
LEMMA ReadyTold ==
  ASSUME Here, Tries >= 3, ReadReady, UNCHANGED fault
  PROVE  StepInv' /\ Told'
<1> DEFINE k == Head(toHost).t
<1>1. Leaves /\ host.pc = "ready" /\ toHost # <<>>
  BY DEF ReadReady, HostTurns, Leaves
<1>2. /\ k = "READY" => HostTakes /\ (IF host.op = "put" THEN Uploads ELSE Waits("size"))
      /\ k = "ERR" => Fails(Tail(toHost))
      /\ k \notin {"READY", "ERR"} => Passes
  BY DEF ReadReady
<1>3. toHost \in Seq(Wordless) => Passes
  BY <1>1, <1>2, WordlessSays
<1>4. CASE Asked
  BY <1>1, <1>3, <1>4, AskedReads
<1>5. CASE SecondTryLost
  BY <1>1, <1>3, <1>5, SecondTryReads
<1>6. CASE NoneToSend
  BY <1>1, <1>2, <1>6, NoneRefused
<1>7. CASE FirstTryLost
  <2>1. host.op = "get"
    BY <1>7 DEF FirstTryLost
  <2> QED
    BY <1>1, <1>2, <1>7, <2>1, FirstTryReady
<1>8. CASE UploadLost
  <2>1. host.op = "put"
    BY <1>8 DEF UploadLost
  <2> QED
    BY <1>1, <1>2, <1>8, <2>1, LostUploadReady
<1>9. CASE Uploading
  <2>1. toDev = <<>> /\ toHost = <<Line("READY")>> /\ dev.file = <<>> /\ host.op = "put"
    BY <1>1, <1>9 DEF Uploading
  <2>2. toHost' = <<>> /\ Uploads
    BY <1>2, <2>1, OneToken DEF HostTakes, Line, Tok
  <2>3. Len(dev.file) = host.n
    BY <1>1, <2>1, EmptySeq DEF Here, IInv, HostInv
  <2> QED
    BY <1>1, <1>9, <2>1, <2>2, <2>3, UploadInStep
<1>10. CASE Downloading
  <2>0. Here
    BY <1>1 DEF Leaves
  <2>1. CASE Len(toHost) = 3
    <3>1. 3 - 2 = 1 /\ host.op = "get" /\ toHost[Len(toHost) - 2] = Line("READY") /\ toHost \in Seq(HostTokens)
      BY <1>1, <1>10, <2>0, ReadyIs
    <3>2. Head(toHost) = Line("READY")
      BY <1>1, <2>1, <3>1, StreamTail
    <3>3. HostTakes /\ Waits("size")
      BY <1>2, <3>1, <3>2 DEF Line, Tok
    <3> QED
      BY <1>1, <1>10, <2>1, <3>3, ReadyComes
  <2>2. CASE Len(toHost) # 3
    <3>1. /\ Len(toHost) \in Nat /\ Len(toHost) >= 3 /\ toHost \in Seq(HostTokens)
          /\ \A i \in 1 .. Len(toHost) - 3 : toHost[i] \in Wordless
      BY <1>1, <1>10, <2>0, ReadyIs
    <3>2. \A n \in Nat : n >= 3 /\ n # 3 => 1 \in 1 .. n - 3
      OBVIOUS
    <3>3. toHost[1] \in Wordless
      BY <2>2, <3>1, <3>2
    <3>4. Head(toHost) \in Wordless
      BY <1>1, <3>1, <3>3, StreamTail
    <3>5. k \notin {"READY", "ERR"}
      BY <3>4 DEF Wordless, Saying
    <3> QED
      BY <1>1, <1>2, <1>10, <2>2, <3>5, ReadyPassed
  <2> QED
    BY <2>1, <2>2
<1>11. ~Idle /\ ~Uploaded /\ ~Removing /\ ~Listing
  BY <1>1 DEF Idle, Uploaded, Removing, Listing
<1> QED
  BY <1>1, <1>4, <1>5, <1>6, <1>7, <1>8, <1>9, <1>10, <1>11 DEF Here, StepInv

LEMMA HostTold ==
  ASSUME Here, Tries >= 3, HostReads, fault' # "late"
  PROVE  StepInv' /\ Told'
<1>1. CASE (ReadReady \/ ReadAnswer \/ ReadAck \/ ReadDownload \/ ReadLost) /\ UNCHANGED fault
  BY <1>1, ReadyTold, AnswerTold, AckTold, DownloadTold, LostTold
<1>2. CASE HostTimeout
  BY <1>2, TimeoutTold
<1> QED
  BY <1>1, <1>2 DEF HostReads, NoFault

\* An operation begins when the last has ended: then the device is at its poll.
LEMMA BeginTold ==
  ASSUME Here, NEW op \in {"put", "get", "rm", "books"}, NEW p, NEW f, Begin(op, p, f), op = "get" => f = <<>>
  PROVE  StepInv' /\ Misled' /\ Told'
<1> DEFINE h == [pc |-> Asking(op), op |-> op, path |-> p, as |-> p, file |-> f, n |-> 0, tries |-> 1,
               res |-> "none"]
<1>1. /\ host.pc = "idle" /\ UNCHANGED <<dev, card, fault, slow>>
      /\ toHost' = <<>> /\ toDev' = Append(toDev, Header(h)) /\ host' = h
  BY DEF Begin, Ask
<1>2. Idle
  BY <1>1 DEF Here, StepInv, Asked, Asking, Uploading, Uploaded, UploadLost, Removing, Listing,
              Downloading, Agreed, FirstTryLost, SecondTryLost, NoneToSend
<1>3. dev.pc = "poll" /\ toDev \in Seq(Leftover)
  BY <1>2 DEF Idle
<1>4. /\ host'.as = host'.path /\ host'.pc = Asking(op) /\ host'.op = op /\ host'.file = f /\ host'.tries = 1
      /\ Asking(op) \in {"ready", "answer"}
  BY <1>1 DEF Asking
<1>5. Sent(toDev', Request')
  <2>1. Sent(toDev', Header(host'))
    BY <1>1, <1>3, SentNext
  <2>2. Request' = Header(host')
    BY <1>4 DEF Request, Header
  <2> QED
    BY <2>1, <2>2
<1>6. Asked'
  BY <1>1, <1>3, <1>4, <1>5 DEF Asked
<1>7. ~(1 >= 2) /\ 1 >= 1 /\ <<>> \in Seq(Chunks \cup {Mangled})
  BY EmptySeq
<1>8. SendInv'
  BY <1>1, <1>3, <1>4, <1>7 DEF SendInv, Again
<1>9. Misled'
  BY <1>4 DEF Misled
<1> QED
  BY <1>4, <1>6, <1>8, <1>9, BusySaysNothing DEF StepInv

\* Opening the port: both begin anew.
LEMMA OpenTold == ASSUME Open PROVE StepInv' /\ Misled' /\ Told'
<1>1. /\ host'.pc = "idle" /\ host'.op = "open" /\ dev'.pc = "poll" /\ toDev' = <<>>
  BY DEF Open, NoOp, Polling
<1>2. Idle'
  BY <1>1, EmptySeq DEF Idle
<1>3. SendInv'
  BY <1>1 DEF SendInv
<1>4. Told' /\ Misled'
  BY <1>1 DEF Told, Done, OneHiccupForgiven, Finished, Misled
<1> QED
  BY <1>2, <1>3, <1>4 DEF StepInv

\* What has been said stays true as long as the card stays as it is.
LEMMA SaidStays ==
  ASSUME IInv, IInv', Told, UNCHANGED host, host.pc = "idle" => UNCHANGED card,
         fault # "late", fault' # "late", OneFault
  PROVE  Told'
<1>1. CASE host.pc # "idle"
  BY <1>1, BusySaysNothing
<1>2. CASE host.pc = "idle"
  <2>1. Meant' = Meant
    BY DEF IInv, NameInv, Meant
  <2> QED
    BY <1>2, <2>1 DEF Told, Done, OneHiccupForgiven, Finished, OneFault
<1> QED
  BY <1>1, <1>2

\* A name that is another one stays so until the download is asked for again.
LEMMA HostMisled == ASSUME Here, HostReads PROVE Misled'
<1>1. Same /\ (host'.as = host.path \/ Asis)
  BY NamesKept DEF Here
<1>2. Wanted' = Wanted
  <2>1. UNCHANGED card
    BY DEF HostReads, ReadReady, ReadAnswer, ReadAck, ReadDownload, ReadLost, HostTimeout, HostTurns
  <2> QED
    BY <1>1, <2>1 DEF Wanted, Same
<1> QED
  BY <1>1, <1>2 DEF Here, Misled, Same, Asis

\* An upload or a removal is what changes the card, and no download is under way.
LEMMA CardChanges == ASSUME Here, Device, card' # card PROVE host.op # "get" /\ host.pc # "idle"
<1>1. CASE Poll
  <2> DEFINE c == Head(toDev)
  <2>1. toDev # <<>> /\ dev.pc = "poll" /\ c.t = "rm"
    BY <1>1 DEF Poll, DevTakes, HandleWrite, HandleDownload, HandleBooks, Refuse
  <2>2. Asked /\ (c = Request \/ (c = MangledTok(Request) /\ host.op # "books"))
    BY <2>1, PollFinds DEF Headers
  <2>3. c.t = host.op
    BY <2>2, RequestIs DEF Asked
  <2> QED
    BY <2>1, <2>2, <2>3 DEF Asked, Asking
<1>2. CASE Crc
  <2>1. dev.pc = "crc"
    BY <1>2 DEF Crc
  <2>2. Uploading \/ UploadLost
    BY <2>1 DEF Here, StepInv, Idle, Asked, Uploaded, Removing, Listing,
                Downloading, Agreed, AtFirst, FirstTryLost, SecondTryLost, NoneToSend
  <2> QED
    BY <2>2 DEF Uploading, UploadLost
<1> QED
  BY <1>1, <1>2 DEF Device, Skip, Listed, Chunk, Acked, DevTimeout, GivesUp, Refuse

LEMMA DeviceTold ==
  ASSUME Here, Told, Device, fault' # "late"
  PROVE  StepInv' /\ Misled' /\ Told'
<1>1. StepInv'
  BY SkipAnswers, PollAnswers, ListedAnswers, ChunkAnswers, CrcAnswers, AckedAnswers, TimeoutAnswers DEF Device
<1>2. UNCHANGED host
  BY DEF Device, Skip, Poll, Listed, Chunk, Crc, Acked, DevTimeout, DevTurns
<1>3. OneFault
  BY DEF Device, Skip, Poll, HandleWrite, HandleDownload, HandleRemove, HandleBooks, Listed, Chunk, Crc, FileEnd,
         Acked, DevTimeout, GivesUp, OneFault, NoFault, Fault
<1>4. host.pc = "idle" => UNCHANGED card
  BY CardChanges
<1>5. Misled'
  <2>1. host.op = "get" => Wanted' = Wanted
    BY <1>2, CardChanges DEF Wanted
  <2> QED
    BY <1>2, <2>1 DEF Here, Misled
<1>6. IInv'
  BY DeviceStep DEF Here
<1> QED
  BY <1>1, <1>2, <1>3, <1>4, <1>5, <1>6, SaidStays DEF Here

LEMMA LinkTold ==
  ASSUME Here, Told, Lose \/ Mangle \/ Misname \/ (\E s \in {"device", "host"} : Stall(s)) \/ Resume,
         fault' # "late"
  PROVE  StepInv' /\ Misled' /\ Told'
<1>1. CASE Misname
  BY <1>1, MisnameAnswers, BusySaysNothing
<1>2. CASE Lose \/ Mangle \/ (\E s \in {"device", "host"} : Stall(s)) \/ Resume
  <2>1. StepInv'
    BY <1>2, LoseAnswers, MangleAnswers, StallAnswers
  <2>2. UNCHANGED <<host, card>> /\ OneFault
    BY <1>2 DEF Lose, Mangle, Stall, Resume, Fault, OneFault
  <2>3. Misled'
    BY <2>2 DEF Here, Misled, Wanted
  <2>4. IInv'
    BY <1>2, LoseStep, MangleStep, StallStep DEF Here
  <2> QED
    BY <2>1, <2>2, <2>3, <2>4, SaidStays DEF Here
<1> QED
  BY <1>1, <1>2

\* Only opening the port ends what a stalled device still owes.
LEMMA LateStays ==
  ASSUME fault = "late", Next, fault' # "late"
  PROVE  Open
<1>1. ~Device
  BY DEF Device, Skip, Poll, Refuse, HandleWrite, HandleDownload, HandleRemove, HandleBooks, Listed, Chunk, Crc,
         FileEnd, Acked, DevTimeout, GivesUp, NoFault, Fault
<1>2. ~HostReads
  BY DEF HostReads, HostTimeout, NoFault
<1>3. ~Lose /\ ~Mangle /\ ~Misname /\ ~(\E s \in {"device", "host"} : Stall(s)) /\ ~Resume
  BY DEF Lose, Mangle, Misname, Stall, Resume, Fault
<1>4. \A op, p, f : ~Begin(op, p, f)
  BY DEF Begin
<1> QED
  BY <1>1, <1>2, <1>3, <1>4 DEF Next

-----------------------------------------------------------------------------
(* What is downloaded is chunks of a file whatever comes late, and its CRC tells. *)

WInv ==
  /\ toHost \in Seq(HostTokens)
  /\ dev.pc = "ack" => dev.file \in Files /\ dev.n \in 1 .. Len(dev.file)
  /\ host.op = "get" => host.file \in Seq(Chunks \cup {Mangled}) /\ host.pc # "answer"
  /\ Finished("get", "ok") => host.file \in Files

LEMMA InitWhole == Init => WInv
  BY EmptySeq DEF Init, Polling, NoOp, WInv, Finished

\* The device answers with lines, and with what is in a file.
LEMMA SaysWhole ==
  ASSUME WInv, UNCHANGED host, toHost' \in Seq(HostTokens),
         dev'.pc = "ack" => dev'.file \in Files /\ dev'.n \in 1 .. Len(dev'.file)
  PROVE  WInv'
  BY DEF WInv, Finished

LEMMA LineWhole ==
  ASSUME WInv, NEW k \in Lines \cup {"ack"}, DevSays(<<Line(k)>>)
  PROVE  toHost' \in Seq(HostTokens)
  BY LineTokens, SaysOne DEF WInv, DevSays

LEMMA SendsWhole ==
  ASSUME WInv, NEW s \in Seq(HostTokens), NEW p, NEW f \in Files, NEW n \in 0 .. Len(f), Sends(s, p, f, n)
  PROVE  /\ toHost' \in Seq(HostTokens)
         /\ dev'.pc = "ack" => dev'.file \in Files /\ dev'.n \in 1 .. Len(dev'.file)
<1>1. toHost \in Seq(HostTokens) /\ Len(f) \in Nat
  BY SendTokens DEF WInv
<1>2. ASSUME NEW c \in HostTokens PROVE toHost \o Append(s, c) \in Seq(HostTokens)
  <2>1. Append(s, c) \in Seq(HostTokens)
    OBVIOUS
  <2> QED
    BY <1>1, <2>1, ConcatProperties
<1>3. CASE n = Len(f)
  <2>1. toHost' = toHost \o Append(s, Tok("crc", f)) /\ dev' = Polling
    BY <1>3 DEF Sends, DevSays, BackToPoll
  <2>2. dev'.pc = "poll"
    BY <2>1 DEF Polling
  <2> QED
    BY <1>2, <2>1, <2>2, SendTokens
<1>4. CASE n # Len(f)
  <2>1. n + 1 \in 1 .. Len(f)
    BY <1>1, <1>4
  <2>2. Tok("data", f[n + 1]) \in HostTokens
    BY <2>1, SendTokens
  <2>3. /\ toHost' = toHost \o Append(s, Tok("data", f[n + 1]))
        /\ dev' = [pc |-> "ack", path |-> p, file |-> f, n |-> n + 1]
    BY <1>4 DEF Sends, DevSays
  <2>4. dev'.file = f /\ dev'.n = n + 1
    BY <2>3
  <2> QED
    BY <1>2, <2>1, <2>2, <2>3, <2>4
<1> QED
  BY <1>3, <1>4

LEMMA PollWhole == ASSUME IInv, WInv, Poll PROVE WInv'
<1> DEFINE c == Head(toDev)
<1>1. UNCHANGED host /\ toDev # <<>> /\ c \in DevTokens
  BY TokensKept DEF Poll, DevTurns, DevTakes, IInv
<1>2. ASSUME NEW k \in Lines, DevSays(<<Line(k)>>), dev'.pc # "ack" PROVE WInv'
  BY <1>1, <1>2, LineWhole, SaysWhole
<1>3. Refuse => WInv'
  BY <1>2 DEF Refuse, BackToPoll, Polling, Lines
<1>4. CASE c.t = "put" /\ HandleWrite(c.v.path, c.v.n)
  BY <1>2, <1>3, <1>4 DEF HandleWrite, Receiving, Lines
<1>5. CASE c.t = "get" /\ HandleDownload(c.v)
  <2>1. CASE Refuse
    BY <1>3, <2>1
  <2>2. CASE ~NoSuchFile(c.v) /\ Sends(<<Line("READY"), Tok("size", Len(card[c.v]))>>, c.v, card[c.v], 0)
    <3>1. c.v \in Paths
      BY <1>1, <1>5, <2>2, TokenKinds DEF NoSuchFile
    <3>2. card[c.v] \in Files
      BY <2>2, <3>1 DEF IInv, CardInv, NoSuchFile
    <3>3. /\ Line("READY") \in HostTokens /\ Tok("size", Len(card[c.v])) \in HostTokens
          /\ 0 \in 0 .. Len(card[c.v])
      BY <3>2, SendTokens, LineTokens DEF Lines
    <3>4. <<Line("READY"), Tok("size", Len(card[c.v]))>> \in Seq(HostTokens)
      BY <3>3
    <3> QED
      BY <1>1, <2>2, <3>2, <3>3, <3>4, SendsWhole, SaysWhole
  <2> QED
    BY <1>5, <2>1, <2>2 DEF HandleDownload
<1>6. CASE c.t = "rm" /\ HandleRemove(c.v)
  BY <1>2, <1>3, <1>6 DEF HandleRemove, BackToPoll, Polling, Lines
<1>7. CASE HandleBooks
  BY <1>1, <1>7 DEF HandleBooks, Polling, WInv, Finished
<1> QED
  BY <1>4, <1>5, <1>6, <1>7 DEF Poll

LEMMA DeviceWhole == ASSUME IInv, WInv, Device PROVE WInv'
<1>1. UNCHANGED host
  BY DEF Device, Skip, Poll, Listed, Chunk, Crc, Acked, DevTimeout, DevTurns
<1>2. ASSUME NEW k \in Lines \cup {"ack"}, DevSays(<<Line(k)>>), dev'.pc # "ack" PROVE WInv'
  BY <1>1, <1>2, LineWhole, SaysWhole
<1>3. ASSUME UNCHANGED toHost, UNCHANGED dev \/ dev'.pc # "ack" PROVE WInv'
  BY <1>1, <1>3 DEF WInv, Finished
<1>4. CASE Skip
  BY <1>3, <1>4 DEF Skip
<1>5. CASE Listed
  BY <1>2, <1>5 DEF Listed, BackToPoll, Polling, Lines
<1>6. CASE Chunk
  <2>1. CASE dev' = [dev EXCEPT !.pc = "part"] /\ UNCHANGED toHost
    <3>1. dev'.pc = "part"
      BY <2>1 DEF IInv, DevInv
    <3> QED
      BY <1>3, <2>1, <3>1
  <2>2. CASE Refuse
    BY <1>2, <2>2 DEF Refuse, BackToPoll, Polling, Lines
  <2>3. CASE DevSays(<<Line("ack")>>) /\ \E f : dev' = Receiving(dev.path, f, dev.n)
    <3>1. dev'.pc # "ack"
      BY <2>3 DEF Receiving
    <3> QED
      BY <1>2, <2>3, <3>1
  <2> QED
    BY <1>6, <2>1, <2>2, <2>3 DEF Chunk
<1>7. CASE Crc
  BY <1>2, <1>7 DEF Crc, FileEnd, BackToPoll, Polling, Lines
<1>8. CASE Acked
  <2>1. CASE Sends(<<>>, dev.path, dev.file, dev.n)
    <3>1. dev.file \in Files /\ dev.n \in 0 .. Len(dev.file) /\ <<>> \in Seq(HostTokens)
      BY <1>8, EmptySeq, FileTokens DEF Acked, WInv
    <3> QED
      BY <1>1, <2>1, <3>1, SendsWhole, SaysWhole
  <2>2. CASE BackToPoll /\ UNCHANGED toHost
    BY <1>3, <2>2 DEF BackToPoll, Polling
  <2> QED
    BY <1>8, <2>1, <2>2 DEF Acked
<1>9. CASE DevTimeout
  BY <1>2, <1>3, <1>9 DEF DevTimeout, GivesUp, BackToPoll, Polling, Lines
<1> QED
  BY <1>4, <1>5, <1>6, <1>7, <1>8, <1>9, PollWhole DEF Device

\* What the host reads is tokens, and what is not read of them.
Rest == toHost' \in Seq(HostTokens)

\* The host has no file and no result of a download yet.
LEMMA AnewWhole ==
  ASSUME WInv, Rest, UNCHANGED dev, host'.op = "get" => host'.file = <<>> /\ host'.pc = "ready"
  PROVE  WInv'
  BY EmptySeq DEF WInv, Rest, Finished

\* What it has is what it had.
LEMMA GoesOnWhole ==
  ASSUME IInv, WInv, Rest, UNCHANGED dev, NEW a, NEW b, NEW r, host' = [host EXCEPT !.pc = a, !.n = b, !.res = r],
         host.op = "get" => a # "answer" /\ (a = "idle" /\ r = "ok" => host.file \in Files)
  PROVE  WInv'
  BY DEF IInv, HostInv, WInv, Rest, Finished

LEMMA FailsWhole ==
  ASSUME IInv, WInv, NEW t \in Seq(HostTokens), Fails(t), UNCHANGED dev
  PROVE  WInv'
<1>1. CASE host.op = "get" /\ host.tries < Tries
  <2>1. toHost' = <<>> /\ host' = [host EXCEPT !.pc = "ready", !.as = host.path, !.file = <<>>, !.tries = @ + 1]
    BY <1>1 DEF Fails, Ask
  <2>2. host'.file = <<>> /\ host'.pc = "ready"
    BY <2>1 DEF IInv, HostInv
  <2> QED
    BY <2>1, <2>2, EmptySeq, AnewWhole DEF Rest
<1>2. CASE ~(host.op = "get" /\ host.tries < Tries)
  <2>1. toHost' = t /\ host' = [host EXCEPT !.pc = "idle", !.res = "err"]
    BY <1>2 DEF Fails, Ends
  <2>2. host' = [host EXCEPT !.pc = "idle", !.n = host.n, !.res = "err"]
    BY <2>1 DEF IInv, HostInv
  <2>3. Rest
    BY <2>1 DEF Rest
  <2> QED
    BY <2>2, <2>3, GoesOnWhole
<1> QED
  BY <1>1, <1>2

LEMMA PartsWhole ==
  ASSUME IInv, WInv, Rest, UNCHANGED dev
  PROVE  /\ UNCHANGED host => WInv'
         /\ \A pc \in {"size", "lost"} : Waits(pc) => WInv'
         /\ \A r : Ends(r) /\ (host.op = "get" /\ r = "ok" => host.file \in Files) => WInv'
         /\ Uploads /\ host.op = "put" => WInv'
<1>1. UNCHANGED host => WInv'
  BY DEF WInv, Rest, Finished
<1>2. ASSUME NEW pc \in {"size", "lost"}, Waits(pc) PROVE WInv'
  <2>1. host' = [host EXCEPT !.pc = pc, !.n = host.n, !.res = host.res]
    BY <1>2 DEF Waits, IInv, HostInv
  <2> QED
    BY <2>1, GoesOnWhole
<1>3. ASSUME NEW r, Ends(r), host.op = "get" /\ r = "ok" => host.file \in Files PROVE WInv'
  <2>1. host' = [host EXCEPT !.pc = "idle", !.n = host.n, !.res = r]
    BY <1>3 DEF Ends, IInv, HostInv
  <2> QED
    BY <1>3, <2>1, GoesOnWhole
<1>4. ASSUME Uploads, host.op = "put" PROVE WInv'
  <2>1. host'.op = "put"
    BY <1>4 DEF Uploads, IInv, HostInv
  <2> QED
    BY <2>1, AnewWhole
<1> QED
  BY <1>1, <1>2, <1>3, <1>4

LEMMA RestIs ==
  ASSUME WInv, toHost # <<>>, HostTakes \/ Passes
  PROVE  Rest /\ Head(toHost) \in HostTokens /\ Tail(toHost) \in Seq(HostTokens)
<1>1. toHost \in Seq(HostTokens)
  BY DEF WInv
<1> QED
  BY <1>1, StreamTail, PassesStream DEF Rest

LEMMA DownloadWhole ==
  ASSUME IInv, WInv, ReadDownload
  PROVE  WInv'
<1> DEFINE c == Head(toHost)
<1>1. host.pc \in {"size", "data", "crc"} /\ HostTakes /\ Downloads(host.pc) /\ UNCHANGED dev /\ toHost # <<>>
  BY DEF ReadDownload, HostTurns, HostTakes
<1>2. Rest /\ c \in HostTokens /\ host.op = "get" /\ host.file \in Seq(Chunks \cup {Mangled})
  BY <1>1, RestIs DEF IInv, HostInv, WInv
<1>3. CASE Waits("lost")
  BY <1>1, <1>2, <1>3, PartsWhole
<1>4. CASE host.pc = "size" /\ c.t = "size"
  <2>1. host' = [host EXCEPT !.n = c.v, !.pc = IF c.v = 0 THEN "crc" ELSE "data"]
    BY <1>1, <1>4 DEF Downloads
  <2>2. host' = [host EXCEPT !.pc = IF c.v = 0 THEN "crc" ELSE "data", !.n = c.v, !.res = host.res]
    BY <2>1 DEF IInv, HostInv
  <2> QED
    BY <1>1, <1>2, <2>2, GoesOnWhole
<1>5. CASE host.pc = "data" /\ c.t = "data"
  <2>1. host' = [host EXCEPT !.file = Append(@, c.v), !.pc = IF Len(host.file) + 1 = host.n THEN "crc" ELSE "data"]
    BY <1>1, <1>5 DEF Downloads
  <2>2. c.v \in Chunks \cup {Mangled}
    BY <1>2, <1>5 DEF HostTokens, Lines
  <2>3. host'.file \in Seq(Chunks \cup {Mangled}) /\ host'.pc \in {"crc", "data"}
    BY <1>2, <2>1, <2>2 DEF IInv, HostInv
  <2> QED
    BY <1>1, <1>2, <2>3 DEF WInv, Rest, Finished
<1>6. CASE host.pc = "crc" /\ c.t = "crc" /\ c.v = host.file /\ Ends("ok")
  <2>1. c.v \in Files \cup {Mangled}
    BY <1>2, <1>6 DEF HostTokens, Lines
  <2>2. host.file # Mangled
    BY <1>2, FilesAssumption
  <2> QED
    BY <1>1, <1>2, <1>6, <2>1, <2>2, PartsWhole
<1> QED
  BY <1>1, <1>3, <1>4, <1>5, <1>6 DEF Downloads, Compares

LEMMA HostWhole == ASSUME IInv, WInv, HostReads PROVE WInv'
<1>1. UNCHANGED dev
  BY DEF HostReads, ReadReady, ReadAnswer, ReadAck, ReadDownload, ReadLost, HostTimeout, HostTurns
<1>2. /\ toHost \in Seq(HostTokens) /\ <<>> \in Seq(HostTokens)
      /\ toHost # <<>> => Tail(toHost) \in Seq(HostTokens)
  BY EmptySeq, StreamTail DEF WInv
<1>3. CASE ReadReady
  <2>1. CASE HostTakes /\ host.op = "put" /\ Uploads
    BY <1>1, <1>3, <2>1, RestIs, PartsWhole DEF ReadReady
  <2>2. CASE HostTakes /\ Waits("size")
    BY <1>1, <1>3, <2>2, RestIs, PartsWhole DEF ReadReady
  <2>3. CASE Fails(Tail(toHost))
    BY <1>1, <1>2, <1>3, <2>3, FailsWhole DEF ReadReady
  <2>4. CASE Passes
    BY <1>1, <1>3, <2>4, RestIs, PassesRest, PartsWhole DEF ReadReady
  <2> QED
    BY <1>3, <2>1, <2>2, <2>3, <2>4 DEF ReadReady
<1>4. CASE ReadAnswer
  <2>1. toHost # <<>> /\ host.op # "get"
    BY <1>4 DEF ReadAnswer, WInv
  <2>2. CASE HostTakes /\ (Ends("ok") \/ Ends("err"))
    BY <1>1, <2>1, <2>2, RestIs, PartsWhole
  <2>3. CASE Passes
    BY <1>1, <2>1, <2>3, RestIs, PassesRest, PartsWhole
  <2> QED
    BY <1>4, <2>2, <2>3 DEF ReadAnswer
<1>5. CASE ReadAck
  <2>1. toHost # <<>> /\ HostTakes /\ host.op = "put" /\ (Uploads \/ Ends("err"))
    BY <1>5 DEF ReadAck, HostTakes, IInv, HostInv
  <2> QED
    BY <1>1, <2>1, RestIs, PartsWhole
<1>6. CASE ReadLost
  <2>1. CASE HostTakes /\ UNCHANGED host
    BY <1>1, <2>1, RestIs, PartsWhole DEF HostTakes
  <2>2. CASE Fails(toHost)
    BY <1>1, <1>2, <2>2, FailsWhole
  <2> QED
    BY <1>6, <2>1, <2>2 DEF ReadLost
<1>7. CASE HostTimeout
  <2>1. CASE host.op = "books" /\ Ends("ok") /\ UNCHANGED toHost
    BY <1>1, <1>2, <2>1, PartsWhole DEF Rest
  <2>2. CASE Fails(<<>>)
    BY <1>1, <1>2, <2>2, FailsWhole
  <2> QED
    BY <1>7, <2>1, <2>2 DEF HostTimeout
<1> QED
  BY <1>3, <1>4, <1>5, <1>6, <1>7, DownloadWhole DEF HostReads

LEMMA LinkWhole ==
  ASSUME IInv, WInv, Lose \/ Mangle \/ Misname \/ (\E s \in {"device", "host"} : Stall(s)) \/ Resume
  PROVE  WInv'
<1>1. CASE Misname
  <2>1. PICK q : host' = [host EXCEPT !.as = q] /\ UNCHANGED <<toHost, dev>>
    BY <1>1 DEF Misname
  <2>2. host'.op = host.op /\ host'.file = host.file /\ host'.pc = host.pc /\ host'.res = host.res
    BY <2>1 DEF IInv, HostInv
  <2> QED
    BY <2>1, <2>2 DEF WInv, Finished
<1>2. CASE Lose \/ Mangle \/ (\E s \in {"device", "host"} : Stall(s)) \/ Resume
  <2>1. UNCHANGED <<host, dev>>
    BY <1>2 DEF Lose, Mangle, Stall, Resume
  <2>2. toHost \in Seq(HostTokens)
    BY DEF WInv
  <2>3. CASE UNCHANGED toHost
    BY <2>1, <2>3 DEF WInv, Finished
  <2>4. CASE toHost # <<>> /\ toHost' = Tail(toHost)
    BY <2>1, <2>2, <2>4, StreamTail DEF WInv, Finished
  <2>5. CASE /\ toHost # <<>> /\ Head(toHost).t \in {"data", "crc"}
             /\ toHost' = <<MangledTok(Head(toHost))>> \o Tail(toHost)
    <3>1. Head(toHost) \in HostTokens /\ Tail(toHost) \in Seq(HostTokens)
      BY <2>2, <2>5, StreamTail
    <3>2. toHost' \in Seq(HostTokens)
      BY <2>5, <3>1, MangledSaid, Preceded
    <3> QED
      BY <2>1, <3>2 DEF WInv, Finished
  <2> QED
    BY <1>2, <2>3, <2>4, <2>5 DEF Lose, Mangle, Stall, Resume
<1> QED
  BY <1>1, <1>2

LEMMA NextWhole == ASSUME IInv, WInv, [Next]_vars PROVE WInv'
<1>1. CASE UNCHANGED vars
  <2>1. UNCHANGED <<toHost, dev, host>>
    BY <1>1 DEF vars
  <2> QED
    BY <2>1 DEF WInv, Finished
<1>2. ASSUME NEW op, NEW p, NEW f, Begin(op, p, f), op = "get" => f = <<>> PROVE WInv'
  <2>1. toHost' = <<>> /\ UNCHANGED dev /\ host'.op = op /\ host'.file = f /\ host'.pc = Asking(op)
    BY <1>2 DEF Begin, Ask
  <2>2. op = "get" => host'.file = <<>> /\ host'.pc = "ready"
    BY <1>2, <2>1 DEF Asking
  <2> QED
    BY <2>1, <2>2, EmptySeq, AnewWhole DEF Rest
<1>3. CASE Open
  BY <1>3, EmptySeq DEF Open, NoOp, Polling, WInv, Finished
<1>4. CASE Next
  <2>2. ASSUME NEW p \in Paths, Begin("rm", p, <<>>) \/ Begin("get", p, <<>>) PROVE WInv'
    BY <1>2, <2>2
  <2>3. ASSUME NEW p \in Paths, NEW f \in Files, Begin("put", p, f) PROVE WInv'
    BY <1>2, <2>3
  <2>4. CASE Begin("books", None, <<>>)
    BY <1>2, <2>4
  <2> QED
    BY <1>3, <1>4, <2>2, <2>3, <2>4, DeviceWhole, HostWhole, LinkWhole DEF Next
<1> QED
  BY <1>1, <1>4

-----------------------------------------------------------------------------
(* The theorems about what the host's tool reports. *)

LEMMA InitTold == Init => JInv
<1> SUFFICES ASSUME Init PROVE StepInv /\ Misled /\ Told
  BY DEF JInv
<1>1. host.pc = "idle" /\ host.op = "open" /\ dev.pc = "poll" /\ toDev = <<>>
  BY DEF Init, NoOp, Polling
<1>2. Idle /\ SendInv
  BY <1>1, EmptySeq DEF Idle, SendInv
<1>3. Told /\ Misled
  BY <1>1 DEF Told, Done, OneHiccupForgiven, Finished, Misled
<1> QED
  BY <1>2, <1>3 DEF StepInv

LEMMA NextTold == ASSUME IInv, JInv, Tries >= 3, [Next]_vars PROVE JInv'
<1> SUFFICES ASSUME fault' # "late" PROVE StepInv' /\ Misled' /\ Told'
  BY DEF JInv
<1>1. CASE UNCHANGED vars
  <2>1. UNCHANGED <<toDev, toHost, dev, host, card, fault, slow>> /\ StepInv /\ Misled /\ Told
    BY <1>1 DEF vars, JInv
  <2>2. StepInv'
    BY <2>1, SameRequest
       DEF StepInv, SendInv, Again, Idle, Asked, Overlap, Uploading, AsSent, Uploaded, UploadLost,
           Removing, Listing, Downloading, Agreed, AtFirst, FirstTryLost, SecondTryLost, NoneToSend, Named
  <2>3. Told' /\ Misled'
    BY <2>1 DEF Told, Done, OneHiccupForgiven, Finished, Meant, Misled, Wanted
  <2> QED
    BY <2>2, <2>3
<1>2. CASE Next /\ fault = "late"
  BY <1>2, LateStays, OpenTold
<1>3. CASE Next /\ fault # "late"
  <2>1. Here /\ Told
    BY <1>3 DEF Here, JInv
  <2>2. ASSUME NEW p \in Paths, Begin("rm", p, <<>>) \/ Begin("get", p, <<>>) PROVE StepInv' /\ Misled' /\ Told'
    BY <2>1, <2>2, BeginTold
  <2>3. ASSUME NEW p \in Paths, NEW f \in Files, Begin("put", p, f) PROVE StepInv' /\ Misled' /\ Told'
    BY <2>1, <2>3, BeginTold
  <2>4. CASE Begin("books", None, <<>>)
    BY <2>1, <2>4, BeginTold
  <2> QED
    BY <1>3, <2>1, <2>2, <2>3, <2>4, DeviceTold, HostTold, HostMisled, OpenTold, LinkTold DEF Next
<1> QED
  BY <1>1, <1>2, <1>3

\* With the late answers of a stalled device, a failed download has its excuse, and a
\* failed upload its fault.
LEMMA JInvTells == JInv => OneHiccupForgiven
  BY DEF JInv, Told, OneHiccupForgiven

\* What tools/serial_transfer.py reports done is done (upload(), download() and rm(),
\* and the device's handlers of the three), to the name the request has come over
\* with: short of an answer that comes late, an upload is on the card as it was sent
\* or the card failed at its end, a download is the file of that name, a removal has
\* removed it.  A download is one whole file even then.  The code tries three times.
THEOREM AnswersTrue == ASSUME Tries >= 3 PROVE Spec => []AnswersAreTrue
<1>1. Init => IInv /\ WInv /\ JInv
  BY InitInv, InitWhole, InitTold
<1>2. IInv /\ WInv /\ JInv /\ [Next]_vars => (IInv /\ WInv /\ JInv)'
  BY NextInv, NextWhole, NextTold
<1>3. WInv /\ JInv => AnswersAreTrue
  BY DEF WInv, JInv, Told, Done, AnswersAreTrue
<1> QED
  BY <1>1, <1>2, <1>3, PTL DEF Spec

\* One token lost, mangled or misnamed, whichever and whenever, one failure of the
\* card or one stall sat out never fails the download of a file there is, the second
\* try overlapping what the device still sends of the first (download(),
\* _download_once() and handleDownload()); an upload fails of nothing but a fault.
THEOREM OneHiccup == ASSUME Tries >= 3 PROVE Spec => []OneHiccupForgiven
<1>1. Init => IInv /\ JInv
  BY InitInv, InitTold
<1>2. IInv /\ JInv /\ [Next]_vars => (IInv /\ JInv)'
  BY NextInv, NextTold
<1>3. JInv => OneHiccupForgiven
  BY JInvTells
<1> QED
  BY <1>1, <1>2, <1>3, PTL DEF Spec

=============================================================================

------------------------------ MODULE MCParts ------------------------------
(* Small instances of the parts a game uses side by side: the two rings of *)
(* playdate/schedule, the store and the JSON codec, the measurements, the  *)
(* runtime's two asynchronous services, its files, its serial messages and *)
(* its application.  They share nothing but the events that reach them     *)
(* all, so each behaviour exercises one of them, its subject.              *)
EXTENDS Microphone, BoundedQueue, Store, Scoreboards, Application, SequencesExt

CONSTANTS k1, k2

VARIABLES
  subject,                                      \* the part that is exercised
  cells, ringHead, ringLength, ringEvent,       \* the scheduler's ring
  phase, document, read, idle, decoded, encoding, encoded, \* a document
  limit, frames, dropped, frameTotal, frameMax, buckets, heap, resources, observed, \* measurements
  capacity, items, over, sent, polled,          \* messages of the serial line
  fileHandle, filesClosed, nativeFiles, paths, expected, misused \* files that a game opens

ring == <<cells, ringHead, ringLength, ringEvent>>
codec == <<phase, document, read, idle, decoded, encoding, encoded>>
measurements ==
  <<limit, frames, dropped, frameTotal, frameMax, buckets, heap, resources, observed>>
debug == <<capacity, items, over, sent, polled>>
owned == <<fileHandle, filesClosed, nativeFiles, paths, expected, misused>>

(* What the proofs take for granted. *)
ASSUME PartsAssumption ==
  SizesPositive /\ TrialsBounded /\ VersionsAndFiles /\ SlotsCoverKinds /\ HandlesAreSome

(* Every call but rename fails and power is lost, up to three times each;  *)
(* or any two calls fail and the power stays on.                           *)
Troubles ==
  {[faulty |-> {"open", "write", "remove", "stat", "read"}, faults |-> 3, crashes |-> 3],
   [faulty |-> {"open", "write", "remove", "stat", "read", "rename"}, faults |-> 2,
    crashes |-> 0]}

Ring == INSTANCE ReadyRing WITH
  Capacity <- 4, queue <- cells, head <- ringHead, length <- ringLength, event <- ringEvent

-----------------------------------------------------------------------------
(* Documents with one piece added, changed or left out, with characters of *)
(* every kind in a string, all numbers of four characters and less, and    *)
(* two that are read in chunks; and values that only a game can make.      *)
Ample == [bytes |-> 64, depth |-> 8, nodes |-> 0, string |-> 8]
Tight ==
  {Ample, [Ample EXCEPT !.depth = 1], [Ample EXCEPT !.depth = 2], [Ample EXCEPT !.nodes = 1],
   [Ample EXCEPT !.nodes = 3], [Ample EXCEPT !.bytes = 4], [Ample EXCEPT !.string = 1]}
Word == <<"\"", "a", "\"">>
Null == <<"n", "u", "l", "l">>
True == <<"t", "r", "u", "e">>
Pieces ==
  {<<"[">>, <<"]">>, <<"{">>, <<"}">>, <<",">>, <<":">>, <<" ">>, <<"1">>, <<"t">>, Word, Null}
Specimens ==
  {<<<<"[">>, <<"]">>>>, <<<<"{">>, <<"}">>>>,
   <<<<" ">>, <<"[">>, <<" ">>, <<"1">>, <<" ">>, <<",">>, Word, <<"]">>, <<"0A">>>>,
   <<<<"{">>, Word, <<":">>, <<"1">>, <<",">>, Word, <<" ">>, <<":">>, Null, <<"}">>>>,
   <<<<"[">>, <<"[">>, <<"]">>, <<",">>, <<"{">>, Word, <<":">>, <<"[">>, True, <<"]">>, <<"}">>, <<"]">>>>}
Changes(s) ==
  {s} \cup {RemoveAt(s, i) : i \in DOMAIN s} \cup {[s EXCEPT ![i] = p] : i \in DOMAIN s, p \in Pieces}
    \cup {InsertAt(s, i, p) : i \in DOMAIN s, p \in Pieces}
Structures == {FlattenSeq(s) : s \in UNION {Changes(t) : t \in Specimens}}
U(a, b, c, d) == <<"\\", "u", a, b, c, d>>
Marks ==
  {<<"a">>, <<"\"">>, <<"1F">>, <<"C3">>, <<"A9">>, <<"C3", "A9">>, <<"EF", "BF", "BD">>, <<"FF">>,
   <<"\\">>, <<"\\", "n">>, <<"\\", "/">>, <<"\\", "u", "0">>, U("0", "0", "6", "1"), U("0", "0", "E", "9"),
   U("0", "0", "1", "f"), U("D", "8", "3", "D"), U("d", "e", "8", "0"), U("0", "0", "g", "1")}
UpTo(n, S) == UNION {[1 .. k -> S] : k \in 0 .. n}
Quotations ==
  {<<"\"">> \o FlattenSeq(s) \o <<"\"">> : s \in UpTo(2, Marks)} \cup {<<"\"">> \o m : m \in Marks}
Numerals(n) == UpTo(n, {"-", "0", "1", ".", "e", "+"})
Decoded(texts, limits, chunked, pretty) ==
  [text : texts, limits : limits, chunked : chunked, pretty : pretty]
MCDocuments ==
  Decoded(Structures, Tight, {FALSE}, {FALSE}) \cup Decoded(Structures, {Ample}, {FALSE}, {TRUE})
    \cup Decoded(Quotations, {[Ample EXCEPT !.string = n] : n \in {1, 2, 8}}, {FALSE}, {FALSE})
    \cup Decoded(Numerals(4), {Ample}, {FALSE}, {FALSE})
    \cup Decoded({<<"[", "1", ",", "1", "]">>, <<"[", "1">>}, Tight, {TRUE}, {FALSE})
    \cup Decoded({<<"1">>}, {[Ample EXCEPT !.depth = -1]}, {FALSE}, {FALSE})

Text(t) == [type |-> "string", text |-> t]
Number(t) == [type |-> "number", text |-> t]
Elements(s) == [type |-> "array", elements |-> s]
Member(n, v) == [type |-> "object", members |-> <<[name |-> n, value |-> v]>>]
Invalid == [type |-> "invalid"]
MCValues ==
  [value : {Invalid, Elements(<<>>), Elements(<<Invalid>>), Member(<<"FF">>, Elements(<<>>)), Member(<<>>, Invalid),
            Elements(<<Number(<<"1">>), Elements(<<Member(<<"a">>, Elements(<<>>))>>)>>)},
   depth : -1 .. 4, pretty : BOOLEAN]
    \cup [value : {Number(t) : t \in Numerals(3)}
                    \cup {Text(t) : t \in UpTo(2, {"a", "\"", "\\", "/", "00", "08", "1F", "0A", "C3", "A9", "FF"})}
                    \cup {Elements(<<Text(t)>>) : t \in {<<"C3">>, <<"a", "a">>}},
          depth : {1}, pretty : {FALSE}]

Codec == INSTANCE JsonCodec WITH
  Documents <- MCDocuments, Values <- MCValues, Chunk <- 2, EmptyReads <- 2,
  stage <- phase, input <- document, data <- read, empty <- idle, result <- decoded,
  options <- encoding, out <- encoded

Measurements == INSTANCE Collector WITH
  Limits <- -1 .. 5, MaximumFrames <- 4, FrameBuckets <- 3, Word <- 2, Rejections <- 1,
  Samples <- [frame : 0 .. 4, heap : {1}, resources : {1}]
               \cup [frame : {1}, heap : {0, 2, 3}, resources : {0}]

Serial == INSTANCE DebugMessages WITH
  Capacities <- {0, 1, 3}, MaxMessage <- 2, Lengths <- 1 .. 3, Sends <- 5

Owned == INSTANCE OwnedFiles WITH
  Wrappers <- {k1, k2}, Handles <- {1, 2}, Longest <- 2, Offsets <- -4 .. 4,
  Paths <- [segments : UpTo(3, {"", ".", "..", "a"}) \ {<<>>}, forbidden : BOOLEAN],
  handle <- fileHandle, closed <- filesClosed, native <- nativeFiles, opened <- paths

-----------------------------------------------------------------------------
Subjects ==
  {"ring", "queues", "files", "microphone", "scoreboards", "application", "codec",
   "measurements", "debug", "owned"}

(* All but the part of that name stay as they are. *)
Rest(s) ==
  /\ subject = s
  /\ UNCHANGED subject
  /\ IF s = "ring" THEN TRUE ELSE UNCHANGED ring
  /\ IF s = "queues" THEN TRUE ELSE UNCHANGED queues
  /\ IF s = "files" THEN TRUE ELSE UNCHANGED files
  /\ IF s = "microphone" THEN TRUE ELSE UNCHANGED vars
  /\ IF s = "scoreboards" THEN TRUE ELSE UNCHANGED board
  /\ IF s = "application" THEN TRUE ELSE UNCHANGED application
  /\ IF s = "codec" THEN TRUE ELSE UNCHANGED codec
  /\ IF s = "measurements" THEN TRUE ELSE UNCHANGED measurements
  /\ IF s = "debug" THEN TRUE ELSE UNCHANGED debug
  /\ IF s = "owned" THEN TRUE ELSE UNCHANGED owned

(* One choice of the parts that a behaviour leaves alone. *)
AtRest ==
  /\ subject # "application" => ~settings.crank
  /\ subject # "files" =>
       overwrites /\ disk.final = Absent /\ trial.crashes = 0
  /\ subject # "debug" => capacity = 1

PartsInit ==
  /\ subject \in Subjects
  /\ Ring!Init /\ QueueInit /\ StoreInit /\ Init /\ BoardInit /\ ApplicationInit
  /\ Codec!Init /\ Measurements!Init /\ Serial!Init /\ Owned!Init
  /\ AtRest

PartsNext ==
  \/ Rest("ring") /\ Ring!Next
  \/ Rest("queues") /\ QueueNext
  \/ Rest("files") /\ StoreNext
  \/ Rest("microphone") /\ Next
  \/ Rest("scoreboards") /\ BoardNext
  \/ Rest("application") /\ ApplicationNext
  \/ Rest("codec") /\ Codec!Next
  \/ Rest("measurements") /\ Measurements!Next
  \/ Rest("debug") /\ Serial!Next
  \/ Rest("owned") /\ Owned!Next

PartsSpec ==
  /\ PartsInit
  /\ [][PartsNext]_<<subject, ring, queues, files, vars, board, application, codec,
                     measurements, debug, owned>>
  /\ subject = "scoreboards" => BoardFairness

PartsTypeOK ==
  /\ Ring!TypeOK /\ QueueTypeOK /\ StoreTypeOK /\ TypeOK /\ BoardTypeOK
  /\ ApplicationTypeOK /\ Codec!TypeOK /\ Measurements!TypeOK /\ Serial!TypeOK /\ Owned!TypeOK

(* The scheduler's ring (schedule.go:178-193, 316-327) and each queue      *)
(* (API.md, "Bounded cooperative scheduling") is a FIFO of its capacity.   *)
RingsImplementFifo == Ring!Implements /\ Implements

(* Load returns what is stored, and finds a value wherever an interrupted  *)
(* Save left it (store.go:120); the collector reports the statistics of    *)
(* what it accepted (API.md, "Bounded diagnostics"); messages of the       *)
(* serial line are polled in order, with none lost but to newer ones       *)
(* (debug.go:18); and the answers of an owned file say where it is         *)
(* (runtime.go:47-123).                                                    *)
ReadsFaithfully ==
  /\ LoadsFaithfully
  /\ subject = "measurements" => Measurements!ReportsObserved
  /\ subject = "debug" => Serial!NewestInOrder
  /\ subject = "owned" => Owned!FilesAgree

(* A document decodes to what it denotes within its limits or to nothing,  *)
(* and what can be said in JSON is encoded and decodes to itself (API.md,  *)
(* "Bounded JSON").                                                        *)
CodecAgrees == Codec!CodecAgrees
=============================================================================

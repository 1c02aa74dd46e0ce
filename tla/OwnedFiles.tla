----------------------------- MODULE OwnedFiles -----------------------------
(* Files that a game opens: each wrapper has a native handle until it is   *)
(* closed, and the native side gives the handles it got back to the next   *)
(* (runtime.go).  Paths are sequences of segments, of which some are "",   *)
(* "." and "..".                                                           *)
EXTENDS Integers, Sequences, SequencesExt

CONSTANTS
  Wrappers,   \* the wrappers that a game is given, in any order
  Handles,    \* native handles, other than 0
  Paths,      \* what a game asks for: [segments, forbidden: has a NUL or a backslash]
  Longest,    \* bytes of a file, and the largest offset (2^31 - 1)
  Offsets     \* offsets that a game seeks

VARIABLES
  handle,     \* wrapper -> its native handle, or 0
  closed,     \* wrappers that are closed
  native,     \* handle -> [file: the wrapper it was opened for or None, at, size]
  opened,     \* wrapper -> path, <<>> before it is opened
  expected,   \* history: wrapper -> the position by the answers so far, or Unknown
  misused     \* history: a handle was used that was given back

files == <<handle, closed, native, opened, expected, misused>>

None == "none"
Unknown == -1
Unused == [file |-> None, at |-> 0, size |-> 0]

-----------------------------------------------------------------------------
(* path.Clean of a path that is not absolute. *)
Resolve(clean, s) ==
  IF s \in {"", "."} THEN clean
  ELSE IF s = ".." /\ clean # <<>> /\ Last(clean) # ".." THEN Front(clean)
  ELSE Append(clean, s)
Clean(segments) ==
  LET clean == FoldLeft(Resolve, <<>>, segments) IN IF clean = <<>> THEN <<".">> ELSE clean

Absolute(segments) == Len(segments) > 1 /\ segments[1] = ""
ValidFilePath(p, allowRoot) ==
  /\ ~p.forbidden /\ ~Absolute(p.segments)
  /\ IF Clean(p.segments) = <<".">> THEN allowRoot
     ELSE Clean(p.segments)[1] # ".." /\ Clean(p.segments) = p.segments

-----------------------------------------------------------------------------
Init ==
  /\ handle = [f \in Wrappers |-> 0] /\ closed = {}
  /\ native = [h \in Handles |-> Unused]
  /\ opened = [f \in Wrappers |-> <<>>]
  /\ expected = [f \in Wrappers |-> Unknown]
  /\ misused = FALSE

OpenFile(f) ==
  /\ opened[f] = <<>>
  /\ \E p \in Paths, h \in Handles, size \in 0 .. Longest :
       /\ ValidFilePath(p, FALSE)
       /\ native[h].file = None
       /\ opened' = [opened EXCEPT ![f] = p.segments]
       /\ handle' = [handle EXCEPT ![f] = h]
       /\ native' = [native EXCEPT ![h] = [file |-> f, at |-> 0, size |-> size]]
  /\ expected' = [expected EXCEPT ![f] = 0]
  /\ UNCHANGED <<closed, misused>>

Usable(f) == f \notin closed /\ handle[f] # 0
Uses(f) == misused' = (misused \/ native[handle[f]].file # f)

(* The game goes by the count it was told, also of a write that was short, *)
(* and by nothing after a failure.                                         *)
Moves(f, count) ==
  /\ native' = [native EXCEPT ![handle[f]].at = @ + (IF count > 0 THEN count ELSE 0)]
  /\ expected' = [expected EXCEPT ![f] = IF count < 0 \/ @ = Unknown THEN Unknown ELSE @ + count]
  /\ Uses(f)
  /\ UNCHANGED <<handle, closed, opened>>

(* As many as were asked for, fewer, none at the end, or a failure. *)
Read(f) ==
  /\ Usable(f)
  /\ LET left == native[handle[f]].size - native[handle[f]].at IN
       \E asked \in 1 .. Longest, count \in -1 .. Longest :
         /\ count <= asked /\ count <= left
         /\ count = 0 => left = 0
         /\ Moves(f, count)

Write(f) ==
  /\ Usable(f)
  /\ \E asked \in 1 .. Longest, count \in -1 .. Longest :
       /\ count <= asked /\ native[handle[f]].at + count <= Longest
       /\ Moves(f, count)

(* Seek, then Tell: the offset is made a 32-bit one, and either may fail,  *)
(* which leaves the position unknown.                                      *)
Int32(offset) == ((offset + Longest + 1) % (2 * (Longest + 1))) - Longest - 1
InRange(offset) == offset \in -Longest - 1 .. Longest
Seek(f) ==
  /\ Usable(f)
  /\ \E offset \in Offsets, base \in {0, native[handle[f]].at}, told \in BOOLEAN :
       LET at == base + Int32(offset) sought == at \in 0 .. Longest IN
         /\ InRange(offset)
         /\ native' = IF sought THEN [native EXCEPT ![handle[f]].at = at] ELSE native
         /\ expected' = [expected EXCEPT ![f] = IF sought /\ told THEN base + offset ELSE Unknown]
  /\ Uses(f)
  /\ UNCHANGED <<handle, closed, opened>>

Flush(f) == Usable(f) /\ Uses(f) /\ UNCHANGED <<handle, closed, native, opened, expected>>

(* The native side has its handle back whether or not closing fails. *)
Close(f) ==
  /\ Usable(f)
  /\ Uses(f)
  /\ closed' = closed \cup {f}
  /\ handle' = [handle EXCEPT ![f] = 0]
  /\ native' = [native EXCEPT ![handle[f]] = Unused]
  /\ expected' = [expected EXCEPT ![f] = Unknown]
  /\ UNCHANGED opened

Next == \E f \in Wrappers : OpenFile(f) \/ Read(f) \/ Write(f) \/ Seek(f) \/ Flush(f) \/ Close(f)
Spec == Init /\ [][Next]_files

-----------------------------------------------------------------------------
TypeOK ==
  /\ handle \in [Wrappers -> Handles \cup {0}] /\ closed \subseteq Wrappers
  /\ \A h \in Handles : native[h].at <= Longest

(* Whoever goes by what Read, Write and Seek answer knows where the file   *)
(* is; no file is reached through a handle that was given back, though the *)
(* next file has the same one and though closing failed; and a path names  *)
(* something in the game's own tree, which no other path names             *)
(* (runtime.go:112, README.md, "Paths are game-relative").                 *)
Inside(segments) ==
  \A n \in DOMAIN segments :
    LET names == SelectSeq(SubSeq(segments, 1, n), LAMBDA s : s \notin {"", ".", ".."})
        ups == SelectSeq(SubSeq(segments, 1, n), LAMBDA s : s = "..")
    IN Len(ups) <= Len(names)
FilesAgree ==
  /\ ~misused
  /\ \A f \in Wrappers :
       handle[f] # 0 => native[handle[f]].file = f /\ expected[f] \in {Unknown, native[handle[f]].at}
  /\ \A f, g \in Wrappers :
       opened[f] # <<>> =>
         /\ Inside(opened[f])
         /\ opened[g] # <<>> /\ Clean(opened[f]) = Clean(opened[g]) => opened[f] = opened[g]
=============================================================================

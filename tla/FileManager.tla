---------------------------- MODULE FileManager ----------------------------
(***************************************************************************)
(* CMgFileManager: the part file (.mg) and the segment index (.mgidx) of   *)
(* one download, shared by its working threads ("ants").                   *)
(*                                                                         *)
(* The index is an ordered sequence of segments [start, end, mark]: bytes  *)
(* start .. end-1 are in the part file, and mark is the ant that extends   *)
(* the segment (NoAnt when none does).  GetTask hands out positions,       *)
(* FileData stores a piece and extends a segment, ThreadQuit releases one. *)
(* The index is rewritten on disk after every piece, and a restarted       *)
(* program resumes from it when the part file has the right size.          *)
(*                                                                         *)
(* Every method runs under m_IndexMutex, so a method is one action; only   *)
(* FileData is two (the piece, then the rewriting of the index file),      *)
(* because the program may die between them.  Until the second one the     *)
(* mutex is held and no other method runs.                                 *)
(***************************************************************************)
EXTENDS Integers, Sequences, FiniteSets, SequencesExt

CONSTANTS
  Ants,        \* working threads of the task (at most 10 in the code)
  NoAnt,       \* mark 0 of the code
  FileLen,     \* length of the file on the server
  RECVBUF,     \* receive buffer: smallest gap GetTask splits
  PieceLens,   \* lengths of the pieces handed to FileData (0 .. RECVBUF)
  MaxOverrun,  \* bytes a server may send past the end of the file
  Retries,     \* m_nRetry of a new ant
  MaxStarts,   \* bound: how often the task is opened
  MaxClicks    \* bound: how often the user adds or removes an ant

ASSUME FileManagerAssumption ==
  /\ IsFiniteSet(Ants) /\ NoAnt \notin Ants
  /\ FileLen \in Nat /\ RECVBUF \in Nat /\ RECVBUF >= 4
  /\ PieceLens \subseteq 0 .. RECVBUF
  /\ MaxOverrun \in Nat /\ Retries \in Nat
  /\ MaxStarts \in Nat /\ MaxClicks \in Nat

VARIABLES
  phase,     \* "down", "truncated", "indexed", "up" or "over"
  fileLen,   \* m_nFileLen, -1 when the server did not tell
  index,     \* m_Index
  origin,    \* m_nOriginBytes
  sumBytes,  \* m_nSumBytes
  pc,        \* of every ant: "off", "new" (before GetTask), "run" or "quit"
  offset,    \* of every ant: the file position of its next piece
  retry,     \* m_nRetry of every ant, -1 once it is negative
  saving,    \* the piece between WriteData and WriteIndex, or NoPiece
  part,      \* the .mg file: [exists, size, data]
  saved,     \* the .mgidx file: [exists, segs]
  delivered, \* the file moved to the user's directory, or Nothing
  starts,    \* how often the task was opened
  clicks     \* how often an ant was added or removed since then

disk == <<part, saved>>
memory == <<fileLen, index, origin, sumBytes>>
threads == <<pc, offset, retry>>
bounds == <<starts, clicks>>
vars == <<phase, memory, threads, saving, disk, delivered, bounds>>

NoFile == [exists |-> FALSE, size |-> 0, data |-> {}]
Nothing == [len |-> 0, data |-> {}]
NoPiece == [ant |-> NoAnt, to |-> 0, ret |-> 0, combine |-> FALSE]
NoIndex == [exists |-> FALSE, segs |-> << >>]
Seg(from, to, ant) == [start |-> from, end |-> to, mark |-> ant]
Bytes(segs) == UNION {s.start .. s.end - 1 : s \in ToSet(segs)}
-----------------------------------------------------------------------------
(* Operations on the index. *)

(* A segment nobody extends that holds no byte. *)
VacantMutant(s) == s.mark = NoAnt
Vacant(s) == s.mark = NoAnt /\ s.start = s.end

OrderIndexMutant(segs) == segs

(* By start; segments that start together stay as they came.               *)
OrderIndex(segs) ==
  LET Before(j, i) == \/ segs[j].start < segs[i].start
                      \/ segs[j].start = segs[i].start /\ j <= i
      Rank(i) == Cardinality({j \in DOMAIN segs : Before(j, i)})
  IN [k \in DOMAIN segs |-> segs[CHOOSE i \in DOMAIN segs : Rank(i) = k]]

(* A hole lies between two segments; else they are joined, and the one     *)
(* that reaches further gives the end and the mark.                        *)
ApartMutant(a, b) == a.end + 1 < b.start
Apart(a, b) == a.end < b.start

Join(a, b) ==
  IF a.end < b.end THEN [a EXCEPT !.end = b.end, !.mark = b.mark] ELSE a

(* One turn of the loop of MergeIndex: the segments it has passed, and the *)
(* one it is joining others to.                                            *)
MergeTurn(acc, s) ==
  IF Apart(acc.last, s)
  THEN [done |-> IF Vacant(acc.last) THEN acc.done ELSE Append(acc.done, acc.last),
        last |-> s]
  ELSE [acc EXCEPT !.last = Join(acc.last, s)]

Merging(segs) ==
  LET acc[i \in DOMAIN segs] ==
        IF i = 1 THEN [done |-> << >>, last |-> segs[1]]
        ELSE MergeTurn(acc[i - 1], segs[i])
  IN acc

(* Joins segments that touch or overlap and drops vacant ones, except in   *)
(* the last place of a longer index.                                       *)
MergeIndex(segs) ==
  LET all == Merging(segs)[Len(segs)]
  IN IF segs = << >> \/ (Len(segs) = 1 /\ Vacant(segs[1]))
     THEN << >>
     ELSE Append(all.done, all.last)

(* Clears the first mark of an ant. *)
UnmarkMutant(segs, t) == segs
Unmark(segs, t) ==
  LET mine == {i \in DOMAIN segs : segs[i].mark = t}
  IN IF mine = {} THEN segs ELSE [segs EXCEPT ![Min(mine)].mark = NoAnt]

AddNewIndex(segs, t, pos) == OrderIndex(Append(segs, Seg(pos, pos, t)))

(* The bytes of the first i segments, added up.                            *)
Summing(segs) ==
  LET sum[i \in 0 .. Len(segs)] ==
        IF i = 0 THEN 0 ELSE sum[i - 1] + (segs[i].end - segs[i].start)
  IN sum

SumBytes(segs) == Summing(segs)[Len(segs)]

(* What ReadIndex makes of the segments on disk: empty ones are skipped    *)
(* line by line, and nothing is left when the length is unknown or a bound *)
(* lies outside the file.                                                  *)
Reading(segs) ==
  LET kept[i \in 0 .. Len(segs)] ==
        IF i = 0 THEN << >>
        ELSE IF segs[i].start < segs[i].end
        THEN Append(kept[i - 1], [segs[i] EXCEPT !.mark = NoAnt])
        ELSE kept[i - 1]
  IN kept

ReadIndex(segs, len) ==
  LET valid == Reading(segs)[Len(segs)]
  IN IF len = -1 \/ \E s \in ToSet(valid) : s.end > len THEN << >> ELSE valid
-----------------------------------------------------------------------------
(* GetTask: the position handed to an ant, and the index it leaves. *)

(* Gaps between, before and behind the segments, in the order the code     *)
(* compares them: the first of the largest wins.                           *)
Gaps(segs, len) ==
  LET last == segs[Len(segs)]
      Gap(from, to) == [pos |-> from, size |-> to - from]
  IN <<Gap(0, segs[1].start), Gap(last.end, len)>>
       \o [i \in 1 .. Len(segs) - 1 |-> Gap(segs[i].end, segs[i + 1].start)]

LargestGap(segs, len) ==
  LET gaps == Gaps(segs, len)
  IN gaps[Min({i \in DOMAIN gaps :
                 \A j \in DOMAIN gaps : gaps[j].size <= gaps[i].size})]

(* A gap is split near its middle, unless it is too small. *)
Splittable(size) == size >= RECVBUF

MiddleMutant(from, to) == (from - to) \div 2 - 1
Middle(from, to) == (from + to) \div 2 - 1

CompleteMutant(segs, len) ==
  Len(segs) = 1 /\ segs[1].start = 0 /\ segs[1].end > len
Complete(segs, len) ==
  Len(segs) = 1 /\ segs[1].start = 0 /\ segs[1].end = len

(* The segments a first-fit search over a longer index may resume. *)
ResumableMutant(segs, len) == {}
Resumable(segs, len) ==
  {i \in DOMAIN segs : segs[i].mark = NoAnt /\ segs[i].end < len}

(* The choice in an ordered index ix in which ant t marks no segment.      *)
PlaceAnt(ix, t, len) ==
  LET None == [ok |-> FALSE, pos |-> 0, index |-> ix]
      At(pos) == [ok |-> TRUE, pos |-> pos, index |-> AddNewIndex(ix, t, pos)]
      Resume(i) ==
        [ok |-> TRUE, pos |-> ix[i].end, index |-> [ix EXCEPT ![i].mark = t]]
      gap == LargestGap(ix, len)
  IN CASE ix = << >> -> At(0)
       [] Len(ix) = 1 ->
            IF Complete(ix, len) THEN None
            ELSE IF ix[1].start # 0 THEN At(0)
            ELSE IF ix[1].mark = NoAnt THEN Resume(1)
            ELSE IF Splittable(len - ix[1].end) THEN At(Middle(ix[1].end, len))
            ELSE None
       [] Len(ix) > 1 ->
            IF Resumable(ix, len) # {} THEN Resume(Min(Resumable(ix, len)))
            ELSE IF Splittable(gap.size)
            THEN At(Middle(gap.pos, gap.pos + gap.size))
            ELSE None

GetTask(segs, t, len) ==
  IF len = 0 THEN [ok |-> FALSE, pos |-> 0, index |-> segs]
  ELSE PlaceAnt(MergeIndex(OrderIndex(Unmark(segs, t))), t, len)
-----------------------------------------------------------------------------
(* WriteData: the index after a piece of n bytes at position pos.  The     *)
(* segment is found by its end, not by the ant.  The result code tells the *)
(* ant to go on (1) or to ask for another position (0).                    *)
WriteData(segs, pos, n, len) ==
  LET found == {i \in DOMAIN segs : segs[i].end = pos}
      i == Min(found)
      to == pos + n
      over == len # -1 /\ to > len
      extended == [segs EXCEPT ![i].end = to]
  IN IF found = {}
     THEN [index |-> segs, ret |-> 0, combine |-> TRUE]
     ELSE IF i = Len(segs)
     THEN [index |-> IF over THEN [segs EXCEPT ![i].end = len] ELSE extended,
           ret |-> IF len # -1 /\ to >= len THEN 0 ELSE 1,
           combine |-> over]
     ELSE IF segs[i + 1].start <= to
     THEN [index |-> MergeIndex(extended),
           ret |-> IF segs[i + 1].end > to THEN 0 ELSE 1,
           combine |-> TRUE]
     ELSE [index |-> extended, ret |-> 1, combine |-> FALSE]

(* The part file after a piece: bytes past a known length are not written. *)
WritePart(file, pos, n, len) ==
  LET to == IF len = -1 \/ pos + n <= len THEN pos + n ELSE len
  IN IF to <= pos THEN file
     ELSE [file EXCEPT !.data = @ \cup (pos .. to - 1),
                       !.size = IF @ < to THEN to ELSE @]

IsTaskFinishMutant ==
  \/ Len(index) > 0 /\ index[Len(index)].end = fileLen
  \/ fileLen = 0
IsTaskFinish == Complete(index, fileLen) \/ fileLen = 0

(* CMgFileManager::ThreadQuit. *)
ReleaseIndexMutant(t) == MergeIndex(index)
ReleaseIndex(t) == MergeIndex(Unmark(index, t))
-----------------------------------------------------------------------------
Init ==
  /\ phase = "down"
  /\ fileLen = -1 /\ index = << >> /\ origin = 0 /\ sumBytes = 0
  /\ pc = [t \in Ants |-> "off"]
  /\ offset = [t \in Ants |-> 0]
  /\ retry = [t \in Ants |-> Retries]
  /\ saving = NoPiece
  /\ part = NoFile /\ saved = NoIndex
  /\ delivered = Nothing
  /\ starts = 0 /\ clicks = 0

(* The task object and its file manager are gone. *)
Forget ==
  /\ phase' = "down"
  /\ fileLen' = -1 /\ index' = << >> /\ origin' = 0 /\ sumBytes' = 0
  /\ pc' = [t \in Ants |-> "off"]
  /\ offset' = [t \in Ants |-> 0]
  /\ retry' = [t \in Ants |-> Retries]
  /\ saving' = NoPiece
  /\ clicks' = 0
  /\ UNCHANGED starts

(* InitThread starts the ants; only one when the length is unknown. *)
StartAnts(len) ==
  \E first \in (SUBSET Ants) \ {{}} :
    /\ len = -1 => Cardinality(first) = 1
    /\ pc' = [t \in Ants |-> IF t \in first THEN "new" ELSE "off"]
    /\ phase' = "up"

CanResumeMutant(len) == len # -1 /\ part.exists /\ saved.exists
CanResume(len) ==
  len # -1 /\ part.exists /\ saved.exists /\ part.size = len

(* CheckFile, with the length the server reported (-1 for none): resumes,  *)
(* or truncates the part file, ...                                         *)
Open(len) ==
  /\ phase = "down" /\ starts < MaxStarts
  /\ starts' = starts + 1
  /\ fileLen' = len
  /\ UNCHANGED <<sumBytes, offset, retry, saving, saved, delivered, clicks>>
  /\ \/ /\ CanResume(len)
        /\ index' = ReadIndex(saved.segs, len)
        /\ origin' = SumBytes(index')
        /\ StartAnts(len)
        /\ UNCHANGED part
     \/ /\ ~CanResume(len)
        /\ part' = [NoFile EXCEPT !.exists = TRUE]
        /\ phase' = "truncated"
        /\ UNCHANGED <<index, origin, pc>>

(* ... writes the empty index, ... *)
CreateIndex ==
  /\ phase = "truncated"
  /\ saved' = [exists |-> TRUE, segs |-> index]
  /\ phase' = "indexed"
  /\ UNCHANGED <<memory, threads, saving, part, delivered, bounds>>

(* ... and gives the part file its length. *)
Allocate ==
  /\ phase = "indexed"
  /\ part' = IF fileLen = -1 THEN part ELSE [part EXCEPT !.size = fileLen]
  /\ StartAnts(fileLen)
  /\ UNCHANGED <<memory, offset, retry, saving, saved, delivered, bounds>>
-----------------------------------------------------------------------------
(* The mutex is free and the ants are at work. *)
Unlocked == phase = "up" /\ saving = NoPiece

AntGetTask(t) ==
  LET task == GetTask(index, t, fileLen)
  IN /\ Unlocked /\ pc[t] = "new"
     /\ index' = task.index
     /\ pc' = [pc EXCEPT ![t] = IF task.ok THEN "run" ELSE "quit"]
     /\ offset' = [offset EXCEPT ![t] = IF task.ok THEN task.pos ELSE 0]
     /\ UNCHANGED <<phase, fileLen, origin, sumBytes, retry, saving, disk,
                    delivered, bounds>>

(* Pieces a server can send: bytes of the file, perhaps a few more; an     *)
(* empty piece only tells that the connection was closed (end).            *)
Deliverable(t, n, end) ==
  /\ offset[t] + n <= FileLen + MaxOverrun
  /\ n = 0 => end

(* The pieces that are an answer: a byte, or the end behind the last one.  *)
Answer(t, n, end) ==
  Deliverable(t, n, end) /\ (n > 0 \/ (offset[t] >= FileLen /\ end))

(* A closed connection fixes a length the server did not tell. *)
KnownLenMutant(pos, end) == IF end THEN pos ELSE fileLen
KnownLen(pos, end) == IF end /\ fileLen = -1 THEN pos ELSE fileLen

(* FileData up to the end of WriteData: n bytes of ant t, with end when    *)
(* the server closed the connection behind them.  An ant whose session     *)
(* ended asks for another position, whatever the result.                   *)
FileData(t, n, end) ==
  LET len == KnownLen(offset[t] + n, end)
      write == WriteData(index, offset[t], n, len)
  IN /\ Unlocked /\ pc[t] = "run" /\ Deliverable(t, n, end)
     /\ fileLen' = len
     /\ part' = WritePart(part, offset[t], n, len)
     /\ index' = write.index
     /\ saving' = [ant |-> t, to |-> offset[t] + n,
                   ret |-> IF end THEN 0 ELSE write.ret,
                   combine |-> write.combine]
     /\ UNCHANGED <<phase, origin, sumBytes, threads, saved, delivered, bounds>>

(* The count of received bytes after a piece. *)
CountedMutant(t) == sumBytes + (saving.to - offset[t])
Counted(t) ==
  IF saving.combine THEN SumBytes(index) - origin
  ELSE sumBytes + (saving.to - offset[t])

(* The rest of FileData: WriteIndex and the byte count.  A slow ant may be *)
(* told to change its URL, and so to ask for another position too.         *)
SaveIndex(t, swap) ==
  /\ phase = "up" /\ saving.ant = t
  /\ saved' = [exists |-> TRUE, segs |-> index]
  /\ sumBytes' = Counted(t)
  /\ IF saving.ret = 1 /\ ~swap
     THEN /\ offset' = [offset EXCEPT ![t] = saving.to]
          /\ UNCHANGED pc
     ELSE /\ offset' = [offset EXCEPT ![t] = 0]
          /\ pc' = [pc EXCEPT ![t] = "new"]
  /\ saving' = NoPiece
  /\ UNCHANGED <<phase, fileLen, index, origin, retry, part, delivered, bounds>>

(* FileData when the disk refuses the piece: a part of it may be stored,   *)
(* nothing is indexed, and the ant fetches it again.                       *)
WriteFails(t, n, end) ==
  /\ Unlocked /\ pc[t] = "run" /\ Deliverable(t, n, end)
  /\ fileLen' = KnownLen(offset[t] + n, end)
  /\ \E k \in 0 .. n : part' = WritePart(part, offset[t], k, fileLen')
  /\ UNCHANGED <<phase, index, origin, sumBytes, threads, saving, saved,
                 delivered, bounds>>

(* A session fails for good: the check of its URL (one retry), connection, *)
(* server or disk (three), or a protocol nobody speaks (all of them).      *)
SessionFails(t) ==
  /\ Unlocked /\ pc[t] = "run"
  /\ \E cost \in {1, 3, Retries + 1} :
       LET left == IF retry[t] >= cost THEN retry[t] - cost ELSE -1
       IN /\ retry' = [retry EXCEPT ![t] = left]
          /\ pc' = [pc EXCEPT ![t] = IF left = -1 THEN "quit" ELSE "new"]
  /\ offset' = [offset EXCEPT ![t] = 0]
  /\ UNCHANGED <<phase, memory, saving, disk, delivered, bounds>>

AntQuits(t) ==
  /\ Unlocked /\ pc[t] = "quit"
  /\ index' = ReleaseIndex(t)
  /\ pc' = [pc EXCEPT ![t] = "off"]
  /\ UNCHANGED <<phase, fileLen, origin, sumBytes, offset, retry, saving,
                 disk, delivered, bounds>>

(* ThreadDown cancels an ant (never the only one) and releases its segment *)
AntCancelled(t) ==
  /\ Unlocked /\ clicks < MaxClicks
  /\ clicks' = clicks + 1
  /\ \E other \in Ants \ {t} : pc[other] # "off"
  /\ index' = ReleaseIndex(t)
  /\ pc' = [pc EXCEPT ![t] = "off"]
  /\ offset' = [offset EXCEPT ![t] = 0]
  /\ UNCHANGED <<phase, fileLen, origin, sumBytes, retry, saving, disk,
                 delivered, starts>>

(* ThreadUp: a new ant. *)
AntAdded(t) ==
  /\ Unlocked /\ pc[t] = "off" /\ clicks < MaxClicks
  /\ clicks' = clicks + 1
  /\ pc' = [pc EXCEPT ![t] = "new"]
  /\ retry' = [retry EXCEPT ![t] = Retries]
  /\ UNCHANGED <<phase, memory, offset, saving, disk, delivered, starts>>
-----------------------------------------------------------------------------
(* The last ant has quit: IsTaskFinish decides between FINISH and ERROR. *)
Finish ==
  /\ Unlocked /\ \A t \in Ants : pc[t] = "off"
  /\ phase' = "over"
  /\ UNCHANGED <<memory, threads, saving, disk, delivered, bounds>>

(* MoveFile: the part file is moved away; its index file stays. *)
Deliver ==
  /\ phase = "over" /\ IsTaskFinish
  /\ delivered' = [len |-> fileLen, data |-> part.data]
  /\ part' = NoFile
  /\ Forget
  /\ UNCHANGED saved

(* The task is removed after an error, stopped by the user, or the program *)
(* dies while no piece is being stored.                                    *)
Stop ==
  /\ phase # "down" /\ saving = NoPiece
  /\ Forget
  /\ UNCHANGED <<disk, delivered>>

(* The program dies in FileData: the index file is the old one, or         *)
(* truncated and rewritten up to some line.                                *)
Crash ==
  /\ saving # NoPiece
  /\ \/ UNCHANGED saved
     \/ \E k \in 0 .. Len(index) :
          saved' = [exists |-> TRUE, segs |-> SubSeq(index, 1, k)]
  /\ Forget
  /\ UNCHANGED <<part, delivered>>

AntStep(t) ==
  \/ AntGetTask(t)
  \/ \E n \in PieceLens, end \in BOOLEAN : FileData(t, n, end)
  \/ \E swap \in BOOLEAN : SaveIndex(t, swap)
  \/ AntQuits(t)

AntTrouble(t) ==
  \/ \E n \in PieceLens, end \in BOOLEAN : WriteFails(t, n, end)
  \/ SessionFails(t)
  \/ AntCancelled(t)
  \/ AntAdded(t)

Next ==
  \/ \E len \in {-1, FileLen} : Open(len)
  \/ CreateIndex \/ Allocate
  \/ \E t \in Ants : AntStep(t) \/ AntTrouble(t)
  \/ Finish \/ Deliver \/ Stop \/ Crash

Spec == Init /\ [][Next]_vars

(* The ants are threads of their own, so each is scheduled.  A server that *)
(* is asked again and again sends a byte, or closes the connection at the  *)
(* end of the file, at some time; until it does, a server that closes      *)
(* every connection at once keeps an ant asking for ever.                  *)
Answerable(t) ==
  /\ Unlocked /\ pc[t] = "run"
  /\ \E n \in PieceLens, end \in BOOLEAN : Answer(t, n, end)

ServerAnswers(t) ==
  \E n \in PieceLens, end \in BOOLEAN : Answer(t, n, end) /\ FileData(t, n, end)

(* The weak fairness of GetTask and ThreadQuit and the strong fairness of  *)
(* the server are written out, with the guard of the action for ENABLED.   *)
Fairness ==
  /\ WF_vars(CreateIndex) /\ WF_vars(Allocate) /\ WF_vars(Finish)
  /\ \A t \in Ants :
       /\ <>[](Unlocked /\ pc[t] = "new") => []<><<AntGetTask(t)>>_vars
       /\ <>[](Unlocked /\ pc[t] = "quit") => []<><<AntQuits(t)>>_vars
       /\ WF_vars(\E swap \in BOOLEAN : SaveIndex(t, swap))
       /\ []<>Answerable(t) => []<><<ServerAnswers(t)>>_vars

FairSpec == Spec /\ Fairness
-----------------------------------------------------------------------------
(* Properties. *)

Segments == [start : Nat, end : Nat, mark : Ants \cup {NoAnt}]

TypeOK ==
  /\ phase \in {"down", "truncated", "indexed", "up", "over"}
  /\ fileLen \in Nat \cup {-1}
  /\ index \in Seq(Segments)
  /\ origin \in Nat /\ sumBytes \in Int
  /\ pc \in [Ants -> {"off", "new", "run", "quit"}]
  /\ offset \in [Ants -> Nat]
  /\ retry \in [Ants -> -1 .. Retries]
  /\ saving \in [ant : Ants \cup {NoAnt}, to : Nat, ret : {0, 1},
                 combine : BOOLEAN]
  /\ part \in [exists : BOOLEAN, size : Nat, data : SUBSET Nat]
  /\ saved.exists \in BOOLEAN /\ saved.segs \in Seq(Segments)
  /\ delivered \in [len : Nat, data : SUBSET Nat]
  /\ starts \in 0 .. MaxStarts /\ clicks \in 0 .. MaxClicks

(* Bytes of the file the index claims. *)
Held == {b \in Bytes(index) : fileLen = -1 \/ b < fileLen}

(* Bytes a restart now would not fetch again. *)
Recoverable ==
  IF CanResume(FileLen) THEN Bytes(ReadIndex(saved.segs, FileLen)) ELSE {}

(* GetTask, WriteData and MergeIndex, run by ants that overtake each       *)
(* other, keep the segments ordered and apart: no byte belongs to two of   *)
(* them, and no two of them touch.                                         *)
Ordered(segs) ==
  /\ \A i \in DOMAIN segs : segs[i].start <= segs[i].end
  /\ \A i, j \in DOMAIN segs : i < j => segs[i].end < segs[j].start

IndexOrdered == Ordered(index)

(* Whatever interleaving of ants extended and merged the segments, every   *)
(* byte the index claims was written to the part file.                     *)
IndexSound == Held \subseteq part.data

(* Wherever the program dies (between truncating the part file, emptying   *)
(* the index and allocating, or inside WriteIndex), a restart that accepts *)
(* the files resumes from bytes that really are in the part file.          *)
RestartSound == Recoverable \subseteq part.data

(* A segment is marked by an ant that is alive, an ant marks one segment   *)
(* and, unless a piece is being stored, is not ahead of it.  A stale mark  *)
(* would hide the gap behind its segment from every other ant.  Where the  *)
(* segment reaches the end of the file no gap is left, and an ant may be   *)
(* ahead: what a server sent too much is cut off under it.                 *)
MarksAlive ==
  \A i \in DOMAIN index :
    LET t == index[i].mark
    IN t # NoAnt => /\ pc[t] # "off"
                    /\ pc[t] = "run" /\ saving = NoPiece =>
                         \/ offset[t] <= index[i].end
                         \/ fileLen # -1 /\ index[i].end >= fileLen
                    /\ \A j \in DOMAIN index : index[j].mark = t => i = j

(* The index never outgrows the ants by more than the tail segment: the    *)
(* fixed tables of 20 entries the index is copied to suffice for 10 ants.  *)
IndexBounded == Len(index) <= Cardinality(Ants) + 1

(* The count of received bytes, adjusted piece by piece when two segments  *)
(* meet, agrees with the segments.                                         *)
BytesCounted ==
  phase = "up" /\ saving = NoPiece => origin + sumBytes = SumBytes(index)

(* The index is in order, and the count of the task is its sum.            *)
IndexRight == IndexOrdered /\ BytesCounted

(* A file that is handed to the user has no hole.                          *)
DeliveredComplete == 0 .. delivered.len - 1 \subseteq delivered.data

(* No byte is claimed that was not written: not by the index, not by what  *)
(* a restart would resume from, not by a file handed to the user.          *)
BytesTrue == TypeOK /\ IndexSound /\ RestartSound /\ DeliveredComplete

(* No gap is forgotten: when nobody added or removed an ant, a task whose  *)
(* ants have all left is complete unless one of them used up its retries.  *)
ErrorHasCause ==
  phase = "over" /\ clicks = 0 /\ ~IsTaskFinish =>
    \E t \in Ants : retry[t] = -1

(* The segments never reach past a known end of the file.                  *)
IndexWithinFile ==
  fileLen # -1 => \A s \in ToSet(index) : s.end <= fileLen

(* While a task is open no byte is lost: no step, of an ant or the user,   *)
(* takes a byte of the file out of the index.                              *)
NothingLost == [][phase = "up" /\ phase' = "up" => Held \subseteq Held']_vars

(* A task that is open comes to an end, whichever ants fail, change their  *)
(* URL or leave on the way, unless a server that sent too much made it     *)
(* wait for more bytes than the file has.                                  *)
TaskEnds == phase = "up" ~> phase # "up" \/ fileLen > FileLen

(* The part file and its index, through every interleaving and crash,      *)
(* implement the abstract download.                                        *)
Intervals ==
  {a .. b : a \in 0 .. FileLen + MaxOverrun, b \in -1 .. FileLen + MaxOverrun}
Abstract == INSTANCE Download WITH
  Lens <- -1 .. FileLen + MaxOverrun, Pieces <- Intervals,
  have <- Held, written <- part.data, safe <- Recoverable,
  phase <- IF phase \in {"truncated", "indexed"} THEN "opening" ELSE phase
ImplementsDownload == Abstract!Spec
=============================================================================

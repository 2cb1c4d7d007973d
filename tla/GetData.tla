------------------------------ MODULE GetData ------------------------------
(***************************************************************************)
(* GetData of CMgFtpAnts and CMgHttpAnts, which are alike: the bytes that  *)
(* arrive are collected in a buffer, and the buffer is written when it is  *)
(* nearly full, when the server closes, and when the connection breaks.    *)
(* FileData takes the bytes and wants more, asks the ant to stop, takes    *)
(* them and asks for another URL, or refuses them.                         *)
(***************************************************************************)
EXTENDS Integers

CONSTANTS
  FileLen, \* bytes of the file on the server
  Full     \* bytes that make GetData write its buffer (RECVBUF - 1024)

ASSUME GetDataAssumption == FileLen \in Nat /\ Full \in Nat \ {0}

VARIABLES
  at,    \* the place of the ant
  code,  \* what the session returns
  from,  \* m_nFrom: where the piece of the ant starts
  total, \* m_nTotalByte + total: bytes of the piece that were written
  held,  \* movepos: bytes in the buffer
  data,  \* the data connection
  dpos,  \* the next byte the server sends on it
  file   \* <<place, byte of the server>>: what was written

(* Where a session starts: behind what earlier ones wrote. *)
ResumeAtMutant == from
ResumeAt == from + total

Piece(n) == {<<from + total + i, dpos' - n + i>> : i \in 0 .. n - 1}

CountedBytesMutant(result, n) == total + n
CountedBytes(result, n) == IF result \in {"more", "stop"} THEN total + n ELSE total

WriteData(result, n) ==
  /\ file' = IF result = "fail" THEN file ELSE file \cup Piece(n)
  /\ total' = CountedBytes(result, n)
  /\ held' = 0

Results == {"more", "stop", "url", "fail"}

(* Go is retried after an error, and returns otherwise. *)
GoResult(result) == CASE result = "fail" -> -1 [] result = "url" -> -3
                      [] result = "lost" -> -2 [] result = "stop" -> 1
Ends(result) ==
  /\ code' = GoResult(result)
  /\ at' = IF result \in {"fail", "lost"} THEN "retry" ELSE "went"

Receive ==
  /\ at = "data" /\ data = "sending"
  /\ \E n \in 1 .. FileLen - dpos :
       LET h == held + n
       IN /\ dpos' = dpos + n
          /\ IF h < Full
               THEN held' = h /\ UNCHANGED <<at, code, total, file>>
               ELSE \E r \in Results :
                      /\ WriteData(r, h)
                      /\ IF r = "more" THEN UNCHANGED <<at, code>> ELSE Ends(r)
  /\ UNCHANGED data

(* The server closes the data connection, at the end or early.  What the   *)
(* file manager wants does not matter any more.                            *)
DataEnds ==
  /\ at = "data" /\ data = "sending"
  /\ data' = "none" /\ UNCHANGED dpos
  /\ \E r \in Results :
       WriteData(r, held) /\ Ends(IF r = "more" THEN "stop" ELSE r)

(* A timeout or a reset: the bytes in the buffer are not lost. *)
DataLost ==
  /\ at = "data"
  /\ data' = "none" /\ UNCHANGED dpos
  /\ IF held = 0
       THEN Ends("lost") /\ UNCHANGED <<held, total, file>>
       ELSE \E r \in Results :
              WriteData(r, held) /\ Ends(IF r = "more" THEN "lost" ELSE r)

(* Sessions that are broken off and resumed put every byte at its place.   *)
BytesInPlace == \A b \in file : b[1] = b[2]

(* The position a session resumes from is behind written bytes only, also  *)
(* when the write of the buffer failed as the connection broke.            *)
ResumeWritten == \A i \in 0 .. total - 1 : \E b \in file : b[1] = from + i
=============================================================================

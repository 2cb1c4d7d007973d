------------------------------ MODULE Download ------------------------------
(***************************************************************************)
(* What a download with a part file promises, as sets of byte positions:   *)
(* the bytes it holds in memory and those a restart recovers have been     *)
(* written, and a delivered file has no hole.  How the sets are kept (the  *)
(* segments of the index, the threads that extend them, the order in which *)
(* the files are created) is left to FileManager, which implements this.   *)
(***************************************************************************)
EXTENDS Integers

CONSTANTS
  FileLen,  \* length of the file on the server
  Lens,     \* lengths a server may tell or imply, -1 for none
  Pieces    \* sets of byte positions that may arrive together

ASSUME DownloadAssumption ==
  /\ Lens \subseteq Nat \cup {-1} /\ FileLen \in Lens \ {-1}
  /\ Pieces \subseteq SUBSET Nat

VARIABLES
  phase,     \* "down", "opening", "up" or "over"
  fileLen,   \* length the task believes in, -1 if none
  have,      \* bytes the running task counts as received
  written,   \* bytes in the part file
  safe,      \* bytes a restart would not fetch again
  delivered  \* the file given to the user: [len, data]

vars == <<phase, fileLen, have, written, safe, delivered>>

Init ==
  /\ phase = "down" /\ fileLen = -1
  /\ have = {} /\ written = {} /\ safe = {}
  /\ delivered = [len |-> 0, data |-> {}]

(* Resumes from the bytes on disk. *)
Resume ==
  /\ phase = "down"
  /\ phase' = "up" /\ fileLen' = FileLen /\ have' = safe
  /\ UNCHANGED <<written, safe, delivered>>

RestartMutant ==
  /\ phase = "down"
  /\ phase' = "opening" /\ fileLen' \in Lens
  /\ have' = {} /\ written' = {}
  /\ UNCHANGED <<safe, delivered>>

(* Starts from nothing, for any length the server tells. *)
Restart ==
  /\ phase = "down"
  /\ phase' = "opening" /\ fileLen' \in Lens
  /\ have' = {} /\ written' = {} /\ safe' = {}
  /\ UNCHANGED delivered

Ready ==
  /\ phase = "opening" /\ phase' = "up"
  /\ UNCHANGED <<fileLen, have, written, safe, delivered>>

Known == IF fileLen = -1 THEN Lens ELSE {fileLen}

(* Stores a piece, some of which is counted; a closed connection    *)
(* may fix an unknown length, but below no byte that is held.              *)
Receive(piece) ==
  /\ phase = "up"
  /\ written' = written \cup piece
  /\ have' \in SUBSET (have \cup piece) /\ have \subseteq have'
  /\ safe' \in {safe} \cup SUBSET have
  /\ fileLen' \in Known
  /\ UNCHANGED <<phase, delivered>>

Save ==
  /\ phase = "up"
  /\ safe' \in SUBSET have
  /\ UNCHANGED <<phase, fileLen, have, written, delivered>>

Finish ==
  /\ phase = "up" /\ phase' = "over"
  /\ UNCHANGED <<fileLen, have, written, safe, delivered>>

FullMutant == 0 .. fileLen - 2 \subseteq have
Full == 0 .. fileLen - 1 \subseteq have

Deliver ==
  /\ phase = "over" /\ Full
  /\ delivered' = [len |-> fileLen, data |-> written]
  /\ phase' = "down" /\ fileLen' = -1
  /\ have' = {} /\ written' = {} /\ safe' = {}

(* The task is given up; a crash may leave an older or a shorter index. *)
Stop ==
  /\ phase # "down"
  /\ phase' = "down" /\ fileLen' = -1 /\ have' = {}
  /\ safe' \in {safe} \cup SUBSET have
  /\ UNCHANGED <<written, delivered>>

Next ==
  \/ Resume \/ Restart \/ Ready
  \/ \E piece \in Pieces : Receive(piece)
  \/ Save \/ Finish \/ Deliver \/ Stop

Spec == Init /\ [][Next]_vars
-----------------------------------------------------------------------------
TypeOK ==
  /\ phase \in {"down", "opening", "up", "over"}
  /\ fileLen \in Nat \cup {-1}
  /\ have \subseteq Nat /\ written \subseteq Nat /\ safe \subseteq Nat
  /\ delivered.len \in Nat \cup {-1} /\ delivered.data \subseteq Nat

(* No byte is counted that the part file does not hold, neither by the     *)
(* running task nor by the index a restart would read after a crash.       *)
Sound == have \subseteq written /\ safe \subseteq written

(* A file that is handed to the user has no hole. *)
Whole == 0 .. delivered.len - 1 \subseteq delivered.data
=============================================================================

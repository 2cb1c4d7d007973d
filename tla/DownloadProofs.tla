--------------------------- MODULE DownloadProofs ---------------------------
(***************************************************************************)
(* Proofs about the abstract download, for every file length, every set of *)
(* pieces and every crash: what is counted is on disk (Sound), and a       *)
(* delivered file has no hole (Whole).                                     *)
(***************************************************************************)
EXTENDS Download, TLAPS

(* Sound and Whole together are inductive: Whole follows at Deliver from   *)
(* Sound, because what the task counts is what was written.                *)
IInv == TypeOK /\ Sound /\ Whole

(* Initially nothing is counted, written or delivered. *)
LEMMA InitIInv == Init => IInv
BY DownloadAssumption DEF Init, IInv, TypeOK, Sound, Whole

(* Every step of the download keeps what is counted within what is written *)
(* and delivers only whole files.                                          *)
LEMMA NextIInv == IInv /\ [Next]_vars => IInv'
<1> SUFFICES ASSUME IInv, [Next]_vars PROVE IInv'
  OBVIOUS
<1> USE DownloadAssumption DEF IInv, TypeOK, Sound, Whole
<1>1. CASE Resume
  BY <1>1 DEF Resume
<1>2. CASE Restart
  BY <1>2 DEF Restart
<1>3. CASE Ready
  BY <1>3 DEF Ready
<1>4. CASE \E piece \in Pieces : Receive(piece)
  <2>1. PICK piece \in Pieces : Receive(piece)
    BY <1>4
  <2>2. piece \subseteq Nat
    BY <2>1
  <2>3. fileLen' \in Nat \cup {-1}
    BY <2>1 DEF Receive, Known
  <2> QED
    BY <2>1, <2>2, <2>3 DEF Receive
<1>5. CASE Save
  BY <1>5 DEF Save
<1>6. CASE Finish
  BY <1>6 DEF Finish
<1>7. CASE Deliver
  <2>1. 0 .. fileLen - 1 \subseteq written
    BY <1>7 DEF Deliver, Full
  <2> QED
    BY <1>7, <2>1 DEF Deliver
<1>8. CASE Stop
  BY <1>8 DEF Stop
<1>9. CASE UNCHANGED vars
  BY <1>9 DEF vars
<1> QED
  BY <1>1, <1>2, <1>3, <1>4, <1>5, <1>6, <1>7, <1>8, <1>9 DEF Next

(* The inductive invariant holds of every reachable state. *)
LEMMA Invariance == Spec => []IInv
BY InitIInv, NextIInv, PTL DEF Spec

(* Type correctness of the abstract download. *)
THEOREM TypeCorrect == Spec => []TypeOK
<1>1. IInv => TypeOK
  BY DEF IInv
<1> QED
  BY <1>1, Invariance, PTL

(* Crash safety: whenever the program dies, a restart that accepts the     *)
(* files resumes from bytes that were written; and the running task counts *)
(* only such bytes.                                                        *)
THEOREM CrashSafe == Spec => []Sound
<1>1. IInv => Sound
  BY DEF IInv
<1> QED
  BY <1>1, Invariance, PTL

(* The file moved to the user's directory has no hole, whatever crashes,   *)
(* restarts and discarded pieces came before.                              *)
THEOREM DeliversWhole == Spec => []Whole
<1>1. IInv => Whole
  BY DEF IInv
<1> QED
  BY <1>1, Invariance, PTL
=============================================================================

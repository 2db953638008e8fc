--------------------------- MODULE AppendOnlyLog ---------------------------
(***************************************************************************)
(* What an append-only ledger on one disk promises.  Entries are added at  *)
(* the end and never change; the safe part, which is on disk, only grows;  *)
(* a crash keeps the safe part and loses at most what comes after it,      *)
(* except that an entry that was about to be added may turn up after all.  *)
(* All of this ends when the owner discards the log.                       *)
(***************************************************************************)
EXTENDS Naturals, Sequences, SequencesExt

CONSTANT Entries

VARIABLES
  log,    \* the entries in memory
  safe,   \* the entries on disk
  open    \* the log is in use

Init == log = <<>> /\ safe = <<>> /\ open = TRUE

Add ==
  /\ open
  /\ \E e \in Entries : log' = Append(log, e)
  /\ UNCHANGED <<safe, open>>

Store ==
  /\ open
  /\ IsPrefix(safe, safe') /\ IsPrefix(safe', log)
  /\ UNCHANGED <<log, open>>

Crash ==
  /\ open
  /\ IsPrefix(safe, safe') /\ IsPrefix(safe', log')
  /\ \/ IsPrefix(log', log)
     \/ \E e \in Entries : \E n \in 0..Len(log) :
          log' = Append(SubSeq(log, 1, n), e)
  /\ UNCHANGED open

Discard ==
  /\ open' = FALSE
  /\ log' = <<>> /\ safe' = <<>>

Next == Add \/ Store \/ Crash \/ Discard

Spec == Init /\ [][Next]_<<log, safe, open>>
=============================================================================

-------------------------- MODULE MCTranspileCache --------------------------
(* Instances of TranspileCache.                                            *)
EXTENDS TranspileCache

(* All processes are given one file, or each process one of its own.       *)
OneFile == [p \in Proc |-> CHOOSE path \in Path : TRUE]
OwnFile == CHOOSE f \in [Proc -> Path] : \A p, q \in Proc : p # q => f[p] # f[q]

(* Enough inodes for every name, every lock and every file being written.  *)
Inodes == 1..(Cardinality(Key) * Cardinality(Name) + 2 * Cardinality(Proc))
=============================================================================

-------------------------------- MODULE Kept --------------------------------
(***************************************************************************)
(* What is kept on disk from one process to the next: the rows of Records, *)
(* written by the server, and the certificate of Tasks, which it reads.    *)
(***************************************************************************)
EXTENDS Records, Tasks

\* Neither a statement that fails, a restart nor a task that is cut short loses a row
\* that was answered or a certificate that was made in time.
KeptOnDisk == RowsAsAnswered /\ CertificateLasts
=============================================================================

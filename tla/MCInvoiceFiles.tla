--------------------------- MODULE MCInvoiceFiles ---------------------------
(***************************************************************************)
(* InvoiceFiles for TLC.                                                   *)
(***************************************************************************)
EXTENDS InvoiceFiles, TLC

CONSTANTS h1, h2, plain, better, nonsense, numbered, wordy

\* Two proper files are enough to tell a file from its edit; nothing tells
\* them apart, nor two handlers.
Symmetry == Permutations({h1, h2}) \cup Permutations({plain, better})
=============================================================================

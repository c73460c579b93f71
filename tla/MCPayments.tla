----------------------------- MODULE MCPayments -----------------------------
(***************************************************************************)
(* Payments for TLC: one admin, one or two invoices.                       *)
(***************************************************************************)
EXTENDS Payments, TLC

CONSTANTS a1, t1, t2

OneAdmin   == {a1}
OneInvoice == {t1}
TwoInvoices == {t1, t2}

\* Invoices are interchangeable in every safety property.
InvoiceSymmetry == Permutations(TwoInvoices)

\* Once the user's row was reused no property says anything any more: what
\* follows such a state is not explored.
Telling == ~reused
=============================================================================

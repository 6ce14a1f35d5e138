----------------------------- MODULE MCQrTransfer -----------------------------
(* A small instance of QrTransfer: two honest transfers and a defective one, *)
(* a few ticks beyond what a stale assembly can cost.                        *)
EXTENDS QrTransfer

CONSTANTS t1, t2, t3

MCTransfers == {t1, t2, t3}
MCFaulty == {t3}
=============================================================================

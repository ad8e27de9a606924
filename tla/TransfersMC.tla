----------------------------- MODULE TransfersMC -----------------------------
\* The instances of Transfers that are checked: a file of two blocks that is
\* saved again.
EXTENDS Transfers
SmallSizes == <<2, 2>>
=============================================================================

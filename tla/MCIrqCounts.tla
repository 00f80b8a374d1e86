----------------------------- MODULE MCIrqCounts -----------------------------
\* IrqCounts with a CPU that is offline between two that are not.
EXTENDS IrqCounts

OneGap == <<0, 2>>
==============================================================================
